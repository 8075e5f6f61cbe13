------------------------- MODULE BlockingQueueProofs -------------------------
(***************************************************************************)
(* CConsumerBlockingQueue, for every number of producers and consumers and *)
(* every size of the queue: which wakeups are owed, and to whom.           *)
(***************************************************************************)
EXTENDS BlockingQueue, Integers, SequenceTheorems, FiniteSetTheorems, TLAPS

Item == Producer \X Nat
QueueTypes == queue \in Seq(Item) /\ pushed \in [Producer -> Nat]
CallTypes ==
  /\ pc \in [Producer \cup Consumer -> {"idle", "spin", "evaluate", "block", "blocked", "woken"}]
  /\ inTime \in [Consumer -> BOOLEAN] /\ holder \in SUBSET Consumer /\ flag \in BOOLEAN
  /\ \A p \in Producer : pc[p] \in {"idle", "spin"}
TypeOK == QueueTypes /\ CallTypes

\* wakeAllThreads() comes after the flag is set, and takes the mutex, which a
\* consumer holds from its evaluation to its blocking; only a wait with a predicate
\* has those two steps.  So whoever saw the flag down is blocked by then, and woken.
FlagBeforeNotify == stopper # "idle" => flag
EvaluatorHolds == \A c \in Consumer : pc[c] \in {"evaluate", "block"} =>
  usage = "predicate" /\ holder = {c}
NobodyUnaware == usage = "predicate" /\ stopper = "ended" =>
  \A c \in Consumer : pc[c] \notin {"block", "blocked"}

QueueInv == TypeOK /\ FlagBeforeNotify /\ EvaluatorHolds /\ NobodyUnaware /\ EachItemWakesOne

-----------------------------------------------------------------------------
(* The operations.                                                         *)

LEMMA Lengths ==
  ASSUME QueueTypes
  PROVE  /\ Len(queue) \in Nat /\ (queue = <<>> => Len(queue) = 0)
         /\ queue # <<>> => Tail(queue) \in Seq(Item) /\ Len(Tail(queue)) = Len(queue) - 1
BY EmptySeq, LenProperties, HeadTailProperties DEF QueueTypes

\* An item goes in, and one consumer that is blocked, if any is, wakes up.
LEMMA Emplaces ==
  ASSUME QueueAssumption, TypeOK, NEW p \in Producer, Emplace(p)
  PROVE  /\ QueueTypes' /\ Len(queue') = Len(queue) + 1
         /\ pc'[p] = "idle" /\ \A x \in Producer : x # p => pc'[x] = pc[x]
         /\ pc' \in [Producer \cup Consumer ->
                       {"idle", "spin", "evaluate", "block", "blocked", "woken"}]
         /\ \/ Blocked = {} /\ \A c \in Consumer : pc'[c] = pc[c]
            \/ \E w \in Blocked : \A c \in Consumer : pc'[c] = IF c = w THEN "woken" ELSE pc[c]
         /\ UNCHANGED <<holder, inTime, flag, stopper, usage>>
<1>1. /\ pushed' = [pushed EXCEPT ![p] = pushed[p] + 1]
      /\ queue' = Append(queue, <<p, pushed[p] + 1>>)
      /\ UNCHANGED <<holder, inTime, flag, stopper, usage>>
      /\ \/ Blocked = {} /\ pc' = [pc EXCEPT ![p] = "idle"]
         \/ \E w \in Blocked : pc' = [pc EXCEPT ![p] = "idle", ![w] = "woken"]
  BY DEF Emplace, Emplaced
<1>2. <<p, pushed[p] + 1>> \in Item /\ pushed[p] + 1 \in Nat
  BY DEF TypeOK, QueueTypes, Item
<1>3. QueueTypes' /\ Len(queue') = Len(queue) + 1
  BY <1>1, <1>2, AppendProperties DEF TypeOK, QueueTypes
<1>4. \A c \in Consumer : c # p
  BY DEF QueueAssumption
<1>5. \A w \in Blocked : w \in Consumer
  BY DEF Blocked
<1>6. CASE Blocked = {} /\ pc' = [pc EXCEPT ![p] = "idle"]
  BY <1>1, <1>3, <1>4, <1>6 DEF TypeOK, CallTypes
<1>7. ASSUME NEW w \in Blocked, pc' = [pc EXCEPT ![p] = "idle", ![w] = "woken"]
      PROVE  /\ pc'[p] = "idle" /\ \A x \in Producer : x # p => pc'[x] = pc[x]
             /\ pc' \in [Producer \cup Consumer ->
                           {"idle", "spin", "evaluate", "block", "blocked", "woken"}]
             /\ \A c \in Consumer : pc'[c] = IF c = w THEN "woken" ELSE pc[c]
  BY <1>4, <1>5, <1>7 DEF TypeOK, CallTypes, QueueAssumption
<1>8. QED BY <1>1, <1>3, <1>6, <1>7

\* What remove_if() keeps is not longer than the queue was.
LEMMA RemovesSome ==
  ASSUME TypeOK, NEW p \in Producer, RemoveIf(p)
  PROVE  /\ QueueTypes' /\ Len(queue') <= Len(queue)
         /\ UNCHANGED <<pc, holder, inTime, flag, stopper, usage>>
<1> DEFINE kept == {n \in 1 .. Len(queue) : queue[n][1] # p}
<1>1. PICK from \in [1 .. Cardinality(kept) -> kept] :
        queue' = [n \in DOMAIN from |-> queue[from[n]]]
  BY DEF RemoveIf
<1>2. Len(queue) \in Nat /\ \A n \in 1 .. Len(queue) : queue[n] \in Item
  BY LenProperties DEF TypeOK, QueueTypes
<1>3. /\ Cardinality(kept) \in Nat /\ Cardinality(kept) <= Len(queue)
  <2>1. IsFiniteSet(1 .. Len(queue)) /\ Cardinality(1 .. Len(queue)) = Len(queue)
    BY <1>2, FS_Interval
  <2>2. IsFiniteSet(kept) /\ Cardinality(kept) <= Cardinality(1 .. Len(queue))
    BY <2>1, FS_Subset
  <2>3. QED BY <2>1, <2>2, FS_CardinalityType
<1>4. queue' \in [1 .. Cardinality(kept) -> Item]
  <2>1. DOMAIN from = 1 .. Cardinality(kept) /\ \A n \in DOMAIN from : from[n] \in 1 .. Len(queue)
    OBVIOUS
  <2> HIDE DEF kept
  <2>2. QED BY <1>1, <1>2, <2>1
<1> HIDE DEF kept
<1>5. queue' \in Seq(Item) /\ Len(queue') = Cardinality(kept)
  BY <1>3, <1>4
<1>6. QED BY <1>3, <1>5 DEF RemoveIf, TypeOK, QueueTypes

-----------------------------------------------------------------------------
(* The steps.                                                              *)

LEMMA QueueInit == QueueAssumption /\ Init => QueueInv
<1> SUFFICES ASSUME QueueAssumption, Init PROVE QueueInv  OBVIOUS
<1>1. TypeOK
  BY EmptySeq DEF Init, TypeOK, QueueTypes, CallTypes
<1>2. Blocked = {}
  BY DEF Init, Blocked
<1>3. QED BY <1>1, <1>2 DEF Init, QueueInv, FlagBeforeNotify, EvaluatorHolds, NobodyUnaware,
                            EachItemWakesOne

LEMMA WokenFinite ==
  ASSUME QueueAssumption, NEW S \in SUBSET Consumer
  PROVE  IsFiniteSet(S) /\ Cardinality(S) \in Nat
BY FS_Subset, FS_CardinalityType DEF QueueAssumption

LEMMA TypesStep ==
  ASSUME QueueAssumption, TypeOK, [Next]_vars
  PROVE  TypeOK'
<1>0. ASSUME NEW p \in Producer, Emplace(p) PROVE TypeOK'
  <2>1. CallTypes'
    BY <1>0, Emplaces DEF TypeOK, CallTypes
  <2>2. QED BY <1>0, <2>1, Emplaces DEF TypeOK
<1>1. ASSUME NEW p \in Producer, PushFull(p) PROVE TypeOK'
  BY <1>1 DEF PushFull, TypeOK, QueueTypes, CallTypes
<1>2. ASSUME NEW p \in Producer, RemoveIf(p) PROVE TypeOK'
  BY <1>2, RemovesSome DEF TypeOK, CallTypes
<1>3. ASSUME NEW c \in Consumer, Take(c) PROVE TypeOK'
  <2>1. QueueTypes'
    BY <1>3, Lengths DEF Take, TypeOK, QueueTypes
  <2>2. CallTypes'
    BY <1>3 DEF Take, TypeOK, CallTypes, QueueAssumption
  <2>3. QED BY <2>1, <2>2 DEF TypeOK
<1>4. ASSUME NEW c \in Consumer,
             NEW to \in {"idle", "evaluate", "block", "blocked", "woken"}, Goto(c, to),
             holder' \in SUBSET Consumer, inTime' \in [Consumer -> BOOLEAN]
      PROVE  TypeOK'
  BY <1>4 DEF Goto, TypeOK, QueueTypes, CallTypes, QueueAssumption
<1>5. ASSUME NEW c \in Consumer, Wait(c) \/ Timeout(c) \/ SpuriousWake(c) \/ CallStep(c)
      PROVE  TypeOK'
  <2>1. holder \in SUBSET Consumer /\ inTime \in [Consumer -> BOOLEAN]
    BY DEF TypeOK, CallTypes
  <2>2. CASE Wait(c)
    BY <1>4, <2>1, <2>2 DEF Wait
  <2>3. CASE Timeout(c) \/ SpuriousWake(c)
    BY <1>4, <2>1, <2>3 DEF Timeout, SpuriousWake
  <2>4. CASE Evaluate(c) \/ Block(c)
    BY <1>4, <2>1, <2>4 DEF Evaluate, Block
  <2>5. CASE ResumePop(c)
    BY <1>3, <1>4, <2>1, <2>5 DEF ResumePop
  <2>6. CASE ResumeWait(c) \/ ResumePredicate(c)
    BY <1>4, <2>1, <2>6 DEF ResumeWait, ResumePredicate
  <2>7. QED BY <1>5, <2>2, <2>3, <2>4, <2>5, <2>6 DEF CallStep, Resume
<1>6. CASE SetFlag
  BY <1>6 DEF SetFlag, TypeOK, QueueTypes, CallTypes
<1>7. CASE NotifyAll
  BY <1>7 DEF NotifyAll, TypeOK, QueueTypes, CallTypes
<1>8. CASE UNCHANGED vars
  BY <1>8 DEF vars, TypeOK, QueueTypes, CallTypes
<1>9. QED BY <1>0, <1>1, <1>2, <1>3, <1>5, <1>6, <1>7, <1>8
          DEF Next, ProducerStep, Push, PushAgain, TryPop, WakeAllThreads

\* The flag: each step keeps an evaluating consumer alone with the mutex, and none
\* goes on to block once the flag is up.
FlagInv == FlagBeforeNotify /\ EvaluatorHolds /\ NobodyUnaware

LEMMA FlagStep ==
  ASSUME QueueAssumption, TypeOK, FlagInv, [Next]_vars
  PROVE  FlagInv'
<1> USE DEF FlagInv
<1>1. ASSUME \A c \in Consumer : pc'[c] = pc[c] \/ pc'[c] = "woken" \/ pc'[c] = "idle",
             UNCHANGED <<holder, flag, stopper, usage>>
      PROVE  FlagInv'
  BY <1>1 DEF FlagBeforeNotify, EvaluatorHolds, NobodyUnaware
<1>2. ASSUME NEW p \in Producer, ProducerStep(p) \/ RemoveIf(p) PROVE FlagInv'
  <2>1. CASE Emplace(p)
    BY <1>1, <2>1, Emplaces
  <2>2. CASE PushFull(p)
    <3>1. \A c \in Consumer : pc'[c] = pc[c]
      BY <2>2 DEF PushFull, QueueAssumption, TypeOK, CallTypes
    <3>2. QED BY <1>1, <2>2, <3>1 DEF PushFull
  <2>3. CASE RemoveIf(p)
    BY <1>1, <2>3, RemovesSome
  <2>4. QED BY <1>2, <2>1, <2>2, <2>3 DEF ProducerStep, Push, PushAgain
<1>3. ASSUME NEW c \in Consumer, TryPop(c) \/ ResumePop(c) \/ ResumeWait(c) PROVE FlagInv'
  <2>1. /\ \A x \in Consumer : pc'[x] = pc[x] \/ pc'[x] = "idle"
        /\ UNCHANGED <<holder, flag, stopper, usage>>
    BY <1>3 DEF TryPop, ResumePop, ResumeWait, Take, Goto, TypeOK, CallTypes
  <2>2. QED BY <1>1, <2>1
<1>4. ASSUME NEW c \in Consumer, Timeout(c) \/ SpuriousWake(c) PROVE FlagInv'
  <2>1. /\ \A x \in Consumer : pc'[x] = pc[x] \/ pc'[x] = "woken"
        /\ UNCHANGED <<holder, flag, stopper, usage>>
    BY <1>4 DEF Timeout, SpuriousWake, Goto, TypeOK, CallTypes
  <2>2. QED BY <1>1, <2>1
<1>5. ASSUME NEW c \in Consumer, Wait(c) \/ ResumePredicate(c) PROVE FlagInv'
  <2>1. holder = {} /\ UNCHANGED <<flag, stopper, usage>>
    BY <1>5 DEF Wait, ResumePredicate, Unlocked, Goto
  <2>2. \A x \in Consumer : pc[x] \notin {"evaluate", "block"}
    BY <2>1 DEF EvaluatorHolds
  <2>3. /\ \A x \in Consumer : x # c => pc'[x] = pc[x]
        /\ \/ pc'[c] = "evaluate" /\ holder' = {c} /\ usage = "predicate"
           \/ pc'[c] = "blocked" /\ usage # "predicate"
           \/ pc'[c] = "idle"
    BY <1>5 DEF Wait, ResumePredicate, Goto, TypeOK, CallTypes
  <2>4. QED BY <2>1, <2>2, <2>3 DEF FlagBeforeNotify, EvaluatorHolds, NobodyUnaware
<1>6. ASSUME NEW c \in Consumer, Evaluate(c) \/ Block(c) PROVE FlagInv'
  <2>1. /\ UNCHANGED <<flag, stopper, usage>> /\ holder = {c} /\ usage = "predicate"
        /\ \A x \in Consumer : x # c => pc'[x] = pc[x]
    BY <1>6 DEF Evaluate, Block, Goto, EvaluatorHolds, TypeOK, CallTypes
  <2>2. \A x \in Consumer : x # c => pc[x] \notin {"evaluate", "block"}
    BY <2>1 DEF EvaluatorHolds
  <2>3. CASE Evaluate(c)
    <3>1. \/ pc'[c] = "idle"
          \/ pc'[c] = "block" /\ holder' = {c} /\ ~flag
      BY <2>1, <2>3 DEF Evaluate, Goto, TypeOK, CallTypes
    <3>2. QED BY <2>1, <2>2, <3>1 DEF FlagBeforeNotify, EvaluatorHolds, NobodyUnaware
  <2>4. CASE Block(c)
    <3>1. pc[c] = "block" /\ pc'[c] = "blocked"
      BY <2>4 DEF Block, Goto, TypeOK, CallTypes
    <3>2. QED BY <2>1, <2>2, <3>1 DEF FlagBeforeNotify, EvaluatorHolds, NobodyUnaware
  <2>5. QED BY <1>6, <2>3, <2>4
<1>7. CASE SetFlag
  BY <1>7 DEF SetFlag, FlagBeforeNotify, EvaluatorHolds, NobodyUnaware
<1>8. CASE WakeAllThreads
  <2>1. \A c \in Consumer : pc[c] # "block" /\ pc[c] # "evaluate"
    BY <1>8 DEF WakeAllThreads, Unlocked, EvaluatorHolds
  <2>2. \A c \in Consumer : pc'[c] = IF pc[c] = "blocked" THEN "woken" ELSE pc[c]
    BY <1>8 DEF WakeAllThreads, NotifyAll, TypeOK, CallTypes
  <2>3. QED BY <1>8, <2>1, <2>2
            DEF WakeAllThreads, NotifyAll, FlagBeforeNotify, EvaluatorHolds, NobodyUnaware
<1>9. CASE UNCHANGED vars
  BY <1>9 DEF vars, FlagBeforeNotify, EvaluatorHolds, NobodyUnaware
<1>10. QED BY <1>2, <1>3, <1>4, <1>5, <1>6, <1>7, <1>8, <1>9 DEF Next, CallStep, Resume

\* The wakeups: an item that comes wakes another consumer, and a consumer takes an
\* item along whenever it stops being on its way.
LEMMA WakeStep ==
  ASSUME QueueAssumption, TypeOK, EvaluatorHolds, EachItemWakesOne, [Next]_vars
  PROVE  EachItemWakesOne'
<1>0. /\ Len(queue) \in Nat /\ IsFiniteSet(Woken) /\ Cardinality(Woken) \in Nat
      /\ IsFiniteSet(Woken') /\ Cardinality(Woken') \in Nat
  BY Lengths, WokenFinite DEF TypeOK, Woken
<1>1. ASSUME Blocked' \subseteq Blocked, Woken \subseteq Woken', UNCHANGED usage,
             Len(queue') \in Nat, Len(queue') <= Len(queue)
      PROVE  EachItemWakesOne'
  <2>1. Cardinality(Woken) <= Cardinality(Woken')
    BY <1>0, <1>1, FS_Subset
  <2>2. QED BY <1>0, <1>1, <2>1 DEF EachItemWakesOne
<1>2. ASSUME Len(queue') = 0 PROVE EachItemWakesOne'
  BY <1>0, <1>2 DEF EachItemWakesOne
<1>3. ASSUME NEW p \in Producer, Emplace(p) PROVE EachItemWakesOne'
  <2>1. Len(queue') = Len(queue) + 1 /\ UNCHANGED usage
    BY <1>3, Emplaces
  <2>2. CASE Blocked = {} /\ \A c \in Consumer : pc'[c] = pc[c]
    BY <2>2 DEF Blocked, EachItemWakesOne
  <2>3. ASSUME NEW w \in Blocked, \A c \in Consumer : pc'[c] = IF c = w THEN "woken" ELSE pc[c]
        PROVE  EachItemWakesOne'
    <3>1. Woken' = Woken \cup {w} /\ w \notin Woken
      BY <2>3 DEF Blocked, Woken
    <3>2. Cardinality(Woken \cup {w}) = Cardinality(Woken) + 1
      BY <1>0, <3>1, FS_AddElement
    <3>3. Cardinality(Woken') = Cardinality(Woken) + 1
      BY <3>1, <3>2
    <3>4. usage = "pop" => Len(queue) <= Cardinality(Woken)
      BY <2>3 DEF EachItemWakesOne
    <3>5. QED BY <1>0, <2>1, <3>3, <3>4 DEF EachItemWakesOne
  <2>4. QED BY <1>3, <2>2, <2>3, Emplaces
<1>4. ASSUME NEW p \in Producer, PushFull(p) \/ RemoveIf(p) PROVE EachItemWakesOne'
  <2>1. /\ \A c \in Consumer : pc'[c] = pc[c]
        /\ UNCHANGED usage
    BY <1>4, RemovesSome DEF PushFull, QueueAssumption, TypeOK, CallTypes
  <2>2. Len(queue') \in Nat /\ Len(queue') <= Len(queue)
    BY <1>0, <1>4, RemovesSome, LenProperties DEF PushFull, QueueTypes
  <2>3. QED BY <1>1, <2>1, <2>2 DEF Blocked, Woken
<1>5. ASSUME NEW c \in Consumer, Take(c), pc[c] \in {"idle", "woken"} PROVE EachItemWakesOne'
  <2>1. Len(queue') = Len(queue) - 1 /\ Len(queue') \in Nat /\ UNCHANGED usage
    BY <1>5, Lengths DEF Take, TypeOK, QueueTypes
  <2>2. \A x \in Consumer : pc'[x] = IF x = c THEN "idle" ELSE pc[x]
    BY <1>5 DEF Take, TypeOK, CallTypes
  <2>3. Blocked' = Blocked
    BY <1>5, <2>2 DEF Blocked
  <2>4. CASE pc[c] = "idle"
    BY <1>0, <1>1, <2>1, <2>2, <2>3, <2>4 DEF Woken
  <2>5. CASE pc[c] = "woken"
    <3>1. Woken' = Woken \ {c} /\ c \in Woken
      BY <2>2, <2>5 DEF Woken
    <3>2. Cardinality(Woken \ {c}) = Cardinality(Woken) - 1
      BY <1>0, <3>1, FS_RemoveElement
    <3>3. Cardinality(Woken') = Cardinality(Woken) - 1
      BY <3>1, <3>2
    <3>4. QED BY <1>0, <2>1, <2>3, <3>3 DEF EachItemWakesOne
  <2>6. QED BY <1>5, <2>4, <2>5
<1>6. ASSUME NEW c \in Consumer, Wait(c) PROVE EachItemWakesOne'
  <2>1. queue' = <<>>
    BY <1>6 DEF Wait, Goto
  <2>2. QED BY <1>2, <2>1, EmptySeq
<1>7. ASSUME NEW c \in Consumer, Timeout(c) \/ SpuriousWake(c) PROVE EachItemWakesOne'
  <2>1. /\ \A x \in Consumer : pc'[x] = IF x = c THEN "woken" ELSE pc[x]
        /\ UNCHANGED <<queue, usage>>
    BY <1>7 DEF Timeout, SpuriousWake, Goto, TypeOK, CallTypes
  <2>2. QED BY <1>0, <1>1, <2>1 DEF Blocked, Woken
<1>8. ASSUME NEW c \in Consumer, CallStep(c) PROVE EachItemWakesOne'
  <2>1. CASE Evaluate(c) \/ Block(c) \/ ResumeWait(c) \/ ResumePredicate(c)
    <3>1. usage # "pop" /\ UNCHANGED usage
      BY <2>1 DEF Evaluate, Block, ResumeWait, ResumePredicate, Goto, EvaluatorHolds
    <3>2. QED BY <3>1 DEF EachItemWakesOne
  <2>2. CASE ResumePop(c)
    <3>1. CASE Take(c)
      BY <1>5, <2>2, <3>1 DEF ResumePop
    <3>2. CASE queue = <<>> /\ Goto(c, "idle")
      BY <1>2, <3>2, EmptySeq DEF Goto
    <3>3. QED BY <2>2, <3>1, <3>2 DEF ResumePop
  <2>3. QED BY <1>8, <2>1, <2>2 DEF CallStep, Resume
<1>9. CASE SetFlag \/ UNCHANGED vars
  BY <1>9 DEF SetFlag, vars, EachItemWakesOne, Blocked, Woken
<1>10. CASE NotifyAll
  <2>1. Blocked' = {}
    BY <1>10 DEF NotifyAll, Blocked, TypeOK, CallTypes
  <2>2. QED BY <2>1 DEF EachItemWakesOne
<1>11. QED BY <1>3, <1>4, <1>5, <1>6, <1>7, <1>8, <1>9, <1>10
           DEF Next, ProducerStep, Push, PushAgain, TryPop, WakeAllThreads

-----------------------------------------------------------------------------
LEMMA QueueInvariant == QueueAssumption => (Spec => []QueueInv)
<1> SUFFICES ASSUME QueueAssumption PROVE Spec => []QueueInv  OBVIOUS
<1>1. Init => QueueInv
  BY QueueInit
<1>2. QueueInv /\ [Next]_vars => QueueInv'
  BY TypesStep, FlagStep, WakeStep DEF QueueInv, FlagInv
<1>3. QED BY <1>1, <1>2, PTL DEF Spec

\* One notify_one per item is enough for pop(): a consumer that stays blocked has for
\* each item in the queue another one on its way.
THEOREM OneNotifyPerItem == ASSUME QueueAssumption PROVE Spec => []EachItemWakesOne
<1>1. QED BY QueueInvariant, PTL DEF QueueInv

\* Once the flag is set and wakeAllThreads() is over, no wait with a predicate is
\* blocked, and none gets blocked again.
THEOREM WakeAllReachesAll == ASSUME QueueAssumption PROVE Spec => []FlagReachesAll
<1>1. QueueInv => FlagReachesAll
  BY DEF QueueInv, NobodyUnaware, FlagReachesAll, Blocked
<1>2. QED BY <1>1, QueueInvariant, PTL

\* A wait with a predicate that did not time out ends with an item there or with the
\* condition true, whatever woke it.
THEOREM PredicateHolds == ASSUME QueueAssumption PROVE Spec => PredicateWaitHolds
<1>1. ASSUME QueueInv, [Next]_vars, NEW c \in Consumer, usage = "predicate", Returns(c), inTime[c]
      PROVE  queue # <<>> \/ flag
  <2>1. pc[c] # "idle" /\ pc'[c] = "idle"
    BY <1>1 DEF Returns
  <2>2. \A p \in Producer : ~Emplace(p) /\ ~PushFull(p) /\ ~RemoveIf(p)
    <3>1. \A p \in Producer : ~Emplace(p)
      BY <1>1, <2>1, Emplaces DEF QueueInv
    <3>2. \A p \in Producer : ~PushFull(p) /\ ~RemoveIf(p)
      BY <1>1, <2>1 DEF PushFull, RemoveIf, QueueInv, TypeOK, CallTypes, QueueAssumption
    <3>3. QED BY <3>1, <3>2
  <2>3. \A x \in Consumer : x # c =>
          ~(TryPop(x) \/ Wait(x) \/ CallStep(x) \/ Timeout(x) \/ SpuriousWake(x))
    BY <1>1, <2>1 DEF TryPop, Wait, CallStep, Timeout, SpuriousWake, Evaluate, Block, Resume,
                      ResumePop, ResumeWait, ResumePredicate, Take, Goto, QueueInv, TypeOK,
                      CallTypes
  <2>4. ~SetFlag /\ ~WakeAllThreads /\ ~UNCHANGED vars
    BY <1>1, <2>1 DEF SetFlag, WakeAllThreads, NotifyAll, vars, QueueInv, TypeOK, CallTypes
  <2>5. Evaluate(c) \/ ResumePredicate(c)
    <3>1. TryPop(c) \/ Wait(c) \/ CallStep(c) \/ Timeout(c) \/ SpuriousWake(c)
      BY <1>1, <2>2, <2>3, <2>4 DEF Next, ProducerStep, Push, PushAgain
    <3>2. ~(TryPop(c) \/ Wait(c) \/ Block(c) \/ Timeout(c) \/ SpuriousWake(c))
      BY <1>1, <2>1 DEF TryPop, Wait, Block, Timeout, SpuriousWake, Goto, QueueInv,
                            TypeOK, CallTypes
    <3>3. QED BY <1>1, <3>1, <3>2 DEF CallStep, Resume, ResumePop, ResumeWait
  <2>6. CASE Evaluate(c)
    BY <1>1, <2>1, <2>6 DEF Evaluate, Goto, QueueInv, TypeOK, CallTypes
  <2>7. CASE ResumePredicate(c)
    BY <1>1, <2>1, <2>7 DEF ResumePredicate, Goto, QueueInv, TypeOK, CallTypes
  <2>8. QED BY <2>5, <2>6, <2>7
<1>2. QueueInv /\ [Next]_vars =>
        [\A c \in Consumer : usage = "predicate" /\ Returns(c) /\ inTime[c] =>
           queue # <<>> \/ flag]_vars
  BY <1>1
<1>3. QED BY <1>2, QueueInvariant, PTL DEF Spec, PredicateWaitHolds
=============================================================================

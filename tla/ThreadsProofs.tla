---------------------------- MODULE ThreadsProofs -----------------------------
(* The texts of the thread exercises, for every size of the team, every length *)
(* of a text and any number of wake-ups without a signal.                      *)
EXTENDS ThreadsProperties, TLAPS

\* Where a thread stands that has the mutex, or believes so; and where before it has ever
\* printed.
Inside == {"test", "print", "unlock"}
Before == {"none", "barrier", "arrived", "lock", "asleep", "woken", "test", "waiting", "relock"}
After  == {"broadcast", "done"}
OfMain == {"create", "init", "barrier", "arrived", "join", "returned"}

TypeInv ==
    /\ task \in Tasks
    /\ pc \in [Actors -> Before \cup Inside \cup After \cup OfMain]
    /\ out \in Seq(Team)
    /\ late \in BOOLEAN

\* The guarded programs, unless the mutex was initialised over its owner's head.
Guarded == task # "task1" /\ ~late

\* Who is inside has taken the word, and is alone.
MutexInv ==
    Guarded => /\ \A t \in Team : pc[t] \in Inside => word # 0
               /\ \A t, u \in Team : pc[t] \in Inside /\ pc[u] \in Inside => t = u

\* A thread that prints has printed nothing yet, or was the last to print.
FreshInv == Guarded => \A t \in Team : pc[t] \in Before => \A n \in DOMAIN out : out[n] # t
TailInv  == Guarded => \A t \in Team : pc[t] = "print" =>
                         \A n \in DOMAIN out : out[n] = t => out[Len(out)] = t

\* In task4 nobody but Thr#9 prints before the flag, which says that Thr#9 has printed.
FlagInv ==
    task = "task4" => /\ flag => out # <<>>
                      /\ \A t \in Team : pc[t] = "print" => t = Last \/ flag

IInv == TypeInv /\ MutexInv /\ FreshInv /\ TailInv /\ FlagInv /\ TextsWhole

-----------------------------------------------------------------------------
LEMMA Initially == Init => IInv
<1> SUFFICES ASSUME Init PROVE IInv
  OBVIOUS
<1>1. TypeInv
  <2>1. out \in Seq(Team)
    BY DEF Init
  <2>2. pc \in [Actors -> {"create", "none"}]
    BY DEF Init
  <2>3. late = FALSE /\ task \in Tasks
    BY DEF Init
  <2> QED
    BY <2>1, <2>2, <2>3 DEF TypeInv, Before, OfMain
<1>2. \A t \in Team : pc[t] = "none"
  BY ThreadsAssumption DEF Init, Team, Actors, Main
<1> QED
  BY <1>1, <1>2 DEF Init, IInv, MutexInv, FreshInv, TailInv, FlagInv, TextsWhole, Inside

\* A thread is not main.
LEMMA TeamIsNotMain == \A t \in Team : t \in Actors /\ t # Main
BY ThreadsAssumption DEF Team, Actors, Main

-----------------------------------------------------------------------------
(* A step that prints nothing: where each thread may stand afterwards.         *)
Quiet == UNCHANGED <<task, out, flag>>

LEMMA QuietStep ==
    ASSUME IInv, Quiet, TypeInv', late => late', MutexInv',
           \A t \in Team : pc'[t] \in Before => pc[t] \in Before,
           \A t \in Team : Guarded' /\ pc'[t] = "print" /\ pc[t] # "print" => pc[t] \in Before,
           \A t \in Team : task = "task4" /\ pc'[t] = "print" /\ pc[t] # "print" => t = Last \/ flag
    PROVE  IInv'
<1> USE DEF Quiet
<1>1. Team' = Team /\ (Guarded' => Guarded)
  BY DEF Team, Guarded
<1>2. FreshInv'
  BY <1>1 DEF IInv, FreshInv
<1>3. TailInv'
  <2> SUFFICES ASSUME Guarded', NEW t \in Team, pc'[t] = "print", NEW n \in DOMAIN out, out[n] = t
               PROVE  out[Len(out)] = t
    BY <1>1 DEF TailInv
  <2>1. CASE pc[t] = "print"
    BY <1>1, <2>1 DEF IInv, TailInv
  <2>2. CASE pc[t] # "print"
    BY <1>1, <2>2 DEF IInv, FreshInv
  <2> QED
    BY <2>1, <2>2
<1>4. FlagInv'
  BY <1>1 DEF IInv, FlagInv
<1>5. TextsWhole'
  BY <1>1 DEF IInv, TextsWhole, Guarded, Last
<1> QED
  BY <1>2, <1>3, <1>4, <1>5 DEF IInv

\* One actor moves, and nobody else.
LEMMA TypeStep ==
    ASSUME TypeInv, NEW a, NEW place \in Before \cup Inside \cup After \cup OfMain,
           Goto(a, place), UNCHANGED <<task, out, late>>
    PROVE  TypeInv' /\ \A b \in Actors : pc'[b] = IF b = a THEN place ELSE pc[b]
<1>1. Actors' = Actors /\ Team' = Team
  BY DEF Actors, Team
<1> QED
  BY <1>1 DEF TypeInv, Goto

-----------------------------------------------------------------------------
LEMMA LockStep == ASSUME IInv, NEW t \in Team, Lock(t) PROVE IInv'
<1> USE DEF Inside, Before
<1>1. Quiet /\ UNCHANGED late /\ pc[t] \in {"lock", "woken", "relock"} /\ t \in Actors
  BY TeamIsNotMain DEF Lock, Quiet
<1>2. Team' = Team /\ Guarded' = Guarded /\ \A u \in Team : u \in Actors
  BY <1>1, TeamIsNotMain DEF Quiet, Team, Guarded
<1>3. CASE word = 0
  <2>1. Goto(t, Locked) /\ word' # 0
    BY <1>3 DEF Lock, lock
  <2>2. TypeInv' /\ \A b \in Actors : pc'[b] = IF b = t THEN Locked ELSE pc[b]
    BY <1>1, <2>1, TypeStep DEF IInv, Quiet, Locked
  <2>3. Locked = IF task = "task4" THEN "test" ELSE "print"
    BY DEF Locked
  <2>4. MutexInv'
    BY <1>2, <1>3, <2>1, <2>2 DEF IInv, MutexInv
  <2> QED
    BY <1>1, <1>2, <2>2, <2>3, <2>4, QuietStep
<1>4. CASE word # 0
  <2>1. Goto(t, "asleep") /\ word' # 0
    BY <1>4 DEF Lock, lock
  <2>2. TypeInv' /\ \A b \in Actors : pc'[b] = IF b = t THEN "asleep" ELSE pc[b]
    BY <1>1, <2>1, TypeStep DEF IInv, Quiet
  <2>4. MutexInv'
    BY <1>2, <2>1, <2>2 DEF IInv, MutexInv
  <2> QED
    BY <1>1, <1>2, <2>2, <2>4, QuietStep
<1> QED
  BY <1>3, <1>4

\* What unlock leaves: its caller is outside, a sleeper may be awake.
LEMMA UnlockLeaves ==
    ASSUME TypeInv, NEW t \in Team, NEW place \in Before \cup After, unlock(t, place),
           pc[t] \in Inside, UNCHANGED <<task, out, late>>
    PROVE  /\ TypeInv'
           /\ pc'[t] = place
           /\ \A u \in Team \ {t} : pc'[u] = pc[u] \/ (pc[u] = "asleep" /\ pc'[u] = "woken")
<1> USE DEF Inside, Before, After
<1>1. Actors' = Actors /\ Team' = Team /\ \A u \in Team : u \in Actors
  BY TeamIsNotMain DEF Actors, Team
<1>2. \/ Goto(t, place)
      \/ \E s \in Team : At(s, "asleep") /\ pc' = [pc EXCEPT ![t] = place, ![s] = "woken"]
  BY DEF unlock
<1>3. CASE Goto(t, place)
  BY <1>1, <1>3 DEF Goto, TypeInv
<1>4. ASSUME NEW s \in Team, At(s, "asleep"), pc' = [pc EXCEPT ![t] = place, ![s] = "woken"]
      PROVE  /\ TypeInv' /\ pc'[t] = place
             /\ \A u \in Team \ {t} : pc'[u] = pc[u] \/ (pc[u] = "asleep" /\ pc'[u] = "woken")
  <2>1. s # t
    BY <1>4 DEF At
  <2>2. \A b \in Actors : pc'[b] = IF b = t THEN place ELSE IF b = s THEN "woken" ELSE pc[b]
    BY <1>1, <1>4, <2>1 DEF TypeInv
  <2>3. pc' \in [Actors -> Before \cup Inside \cup After \cup OfMain]
    BY <1>4 DEF TypeInv
  <2> QED
    BY <1>1, <1>4, <2>1, <2>2, <2>3 DEF TypeInv, At
<1> QED
  BY <1>2, <1>3, <1>4

\* The caller of unlock was the only one inside.
LEMMA UnlockStep ==
    ASSUME IInv, NEW t \in Team, NEW place \in (Before \cup After) \ Inside, unlock(t, place),
           pc[t] \in Inside, place \in Before => pc[t] \in Before, UNCHANGED late, Quiet
    PROVE  IInv'
<1>1. /\ TypeInv' /\ pc'[t] = place
      /\ \A u \in Team \ {t} : pc'[u] = pc[u] \/ (pc[u] = "asleep" /\ pc'[u] = "woken")
  BY UnlockLeaves DEF IInv, Quiet
<1>2. Team' = Team /\ Guarded' = Guarded
  BY DEF Quiet, Team, Guarded
<1>3. \A u \in Team : pc'[u] \in Inside => pc[u] \in Inside /\ u # t
  BY <1>1 DEF Inside, Before, After
<1>4. MutexInv'
  BY <1>2, <1>3 DEF IInv, MutexInv
<1>5. \A u \in Team : pc'[u] \in Before => pc[u] \in Before
  BY <1>1 DEF Before
<1>6. \A u \in Team : pc'[u] = "print" => pc[u] = "print"
  BY <1>1 DEF Before, After
<1> QED
  BY <1>1, <1>4, <1>5, <1>6, QuietStep

LEMMA TestStep == ASSUME IInv, NEW t \in Team, Test(t) PROVE IInv'
<1> USE DEF Inside, Before
<1>1. Quiet /\ UNCHANGED late /\ pc[t] = "test" /\ t \in Actors
  BY TeamIsNotMain DEF Test, Quiet, At
<1>2. Team' = Team /\ Guarded' = Guarded /\ \A u \in Team : u \in Actors
  BY <1>1, TeamIsNotMain DEF Quiet, Team, Guarded
<1>3. CASE MayPrint(t)
  <2>1. Goto(t, "print") /\ UNCHANGED word
    BY <1>3 DEF Test
  <2>2. TypeInv' /\ \A b \in Actors : pc'[b] = IF b = t THEN "print" ELSE pc[b]
    BY <1>1, <2>1, TypeStep DEF IInv, Quiet
  <2>3. MutexInv'
    BY <1>1, <1>2, <2>1, <2>2 DEF IInv, MutexInv
  <2> QED
    BY <1>1, <1>2, <1>3, <2>2, <2>3, QuietStep DEF MayPrint
<1>4. CASE ~MayPrint(t)
  BY <1>1, <1>4, UnlockStep DEF Test
<1> QED
  BY <1>3, <1>4

LEMMA SpuriousStep == ASSUME IInv, NEW t \in Team, SpuriousWakeup(t) PROVE IInv'
<1> USE DEF Inside, Before
<1>1. Quiet /\ UNCHANGED <<late, word>> /\ pc[t] = "waiting" /\ Goto(t, "relock")
  BY DEF SpuriousWakeup, Quiet, At
<1>2. Team' = Team /\ Guarded' = Guarded /\ \A u \in Team : u \in Actors
  BY <1>1, TeamIsNotMain DEF Quiet, Team, Guarded
<1>3. TypeInv' /\ \A b \in Actors : pc'[b] = IF b = t THEN "relock" ELSE pc[b]
  BY <1>1, TypeStep DEF IInv, Quiet
<1>4. MutexInv'
  BY <1>1, <1>2, <1>3 DEF IInv, MutexInv
<1> QED
  BY <1>1, <1>2, <1>3, <1>4, QuietStep

-----------------------------------------------------------------------------
(* printf: the one step that lengthens stdout. *)
LEMMA PrintStep == ASSUME IInv, NEW t \in Team, printf(t) PROVE IInv'
<1> USE DEF Inside, Before
<1> DEFINE n == Len(out)
<1>1. /\ pc[t] = "print" /\ t \in Actors
      /\ UNCHANGED <<task, word, late>>
      /\ out' = Append(out, t)
  BY TeamIsNotMain DEF printf, At
<1>2. /\ Team' = Team /\ Actors' = Actors /\ Guarded' = Guarded
      /\ \A u \in Team : u \in Actors
  BY <1>1, TeamIsNotMain DEF Team, Actors, Guarded
<1>3. /\ n \in Nat /\ DOMAIN out = 1..n /\ Len(out') = n + 1 /\ DOMAIN out' = 1..(n + 1)
      /\ \A m \in 1..n : out'[m] = out[m]
      /\ out'[n + 1] = t
      /\ out' \in Seq(Team)
  BY <1>1 DEF IInv, TypeInv
<1> HIDE DEF n
<1>4. /\ flag => flag'
      /\ flag' => flag \/ t = Last
  <2>1. CASE left'[t] > 0
    BY <2>1 DEF printf
  <2>2. CASE ~(left'[t] > 0)
    BY <2>2 DEF printf
  <2> QED
    BY <2>1, <2>2
<1>5. \A b \in Actors : pc'[b] = pc[b] \/ (b = t /\ pc'[b] \in {"unlock", "done"})
  <2>1. CASE left'[t] > 0
    BY <2>1 DEF printf
  <2>2. CASE ~(left'[t] > 0)
    BY <2>2 DEF printf, Goto, Printed, IInv, TypeInv
  <2> QED
    BY <2>1, <2>2
<1>6. TypeInv'
  <2>1. CASE left'[t] > 0
    BY <1>1, <1>2, <1>3, <2>1 DEF printf, IInv, TypeInv
  <2>2. CASE ~(left'[t] > 0)
    <3>1. Goto(t, Printed)
      BY <2>2 DEF printf
    <3>2. Printed \in Inside \cup After
      BY DEF Printed, After
    <3> QED
      BY <1>1, <1>2, <1>3, <3>1, <3>2 DEF Goto, IInv, TypeInv
  <2> QED
    BY <2>1, <2>2
<1>7. MutexInv'
  BY <1>1, <1>2, <1>5 DEF IInv, MutexInv, Guarded
<1>8. FreshInv'
  BY <1>1, <1>2, <1>3, <1>5 DEF IInv, FreshInv, Guarded
<1>9. TailInv'
  <2> SUFFICES ASSUME Guarded, NEW u \in Team, pc'[u] = "print" PROVE out'[n + 1] = u
    BY <1>2, <1>3 DEF TailInv
  <2>1. pc[u] = "print"
    BY <1>2, <1>5
  <2> QED
    BY <1>1, <1>3, <2>1 DEF IInv, MutexInv
<1>10. FlagInv'
  BY <1>1, <1>2, <1>3, <1>4, <1>5 DEF IInv, FlagInv, Last
<1>11. TextsWhole'
  <2>1. ASSUME Guarded, NEW m \in 1..(n + 1), NEW r \in 1..(n + 1), m < r, out'[m] = out'[r],
               NEW q \in m..r
        PROVE  out'[q] = out'[m]
    <3>1. CASE r # n + 1
      BY <1>3, <2>1, <3>1 DEF IInv, TextsWhole, Guarded
    <3>2. CASE r = n + 1 /\ q = n + 1
      BY <1>3, <2>1, <3>2
    <3>3. CASE r = n + 1 /\ q # n + 1
      <4>1. /\ m \in 1..n /\ n \in 1..n /\ q \in m..n /\ out[m] = t
        BY <1>3, <2>1, <3>3
      <4>2. out[n] = t
        BY <1>1, <1>3, <2>1, <4>1 DEF IInv, TailInv, n
      <4>3. out[q] = out[m]
        BY <1>3, <2>1, <4>1, <4>2 DEF IInv, TextsWhole, Guarded
      <4> QED
        BY <1>3, <4>1, <4>3
    <3> QED
      BY <3>1, <3>2, <3>3
  <2>2. task = "task4" => out'[1] = Last
    <3> SUFFICES ASSUME task = "task4" PROVE out'[1] = Last
      OBVIOUS
    <3>1. CASE out = <<>>
      <4>1. t = Last
        BY <1>1, <3>1 DEF IInv, FlagInv
      <4> QED
        BY <1>3, <3>1, <4>1 DEF n
    <3>2. CASE out # <<>>
      <4>1. 1 \in 1..n
        BY <1>3, <3>2 DEF n, IInv, TypeInv
      <4> QED
        BY <1>3, <3>2, <4>1 DEF IInv, TextsWhole
    <3> QED
      BY <3>1, <3>2
  <2> QED
    BY <1>1, <1>3, <2>1, <2>2 DEF TextsWhole, Guarded, Last
<1> QED
  BY <1>6, <1>7, <1>8, <1>9, <1>10, <1>11 DEF IInv

-----------------------------------------------------------------------------
LEMMA UnlockActionStep == ASSUME IInv, NEW t \in Team, Unlock(t) PROVE IInv'
<1>1. /\ Quiet /\ UNCHANGED late /\ pc[t] = "unlock"
      /\ unlock(t, IF task = "task4" /\ t = Last THEN "broadcast" ELSE "done")
  BY DEF Unlock, Quiet, At
<1> QED
  BY <1>1, UnlockStep DEF Inside, Before, After

\* Steps after which a thread stands only where it stood, or where it has not printed yet.
LEMMA MoveStep ==
    ASSUME IInv, Quiet, TypeInv', late => late',
           UNCHANGED word \/ late' \/ word = 0,
           \A t \in Team : \/ pc'[t] = pc[t]
                           \/ pc[t] \in Before /\ pc'[t] \in Before \ {"test"}
                           \/ pc'[t] \in After
                           \/ task = "task1"
                              /\ pc[t] \in Before /\ pc'[t] = "print"
    PROVE  IInv'
<1> USE DEF Before, Inside, After
<1>1. Team' = Team /\ (Guarded' => Guarded)
  BY DEF Quiet, Team, Guarded
<1>2. \A t \in Team : Guarded' /\ pc'[t] \in Inside => pc'[t] = pc[t]
  BY DEF Guarded, Quiet
<1>3. MutexInv'
  BY <1>1, <1>2 DEF IInv, MutexInv, Guarded
<1> QED
  BY <1>1, <1>2, <1>3, QuietStep DEF IInv

LEMMA BroadcastStep == ASSUME IInv, NEW t \in Team, Broadcast(t) PROVE IInv'
<1> USE DEF Before, Inside, After
<1>1. /\ Quiet /\ UNCHANGED <<late, word>> /\ pc[t] = "broadcast"
      /\ pc' = [a \in Actors |-> IF a = t THEN "done" ELSE IF a \in Woken THEN "relock" ELSE pc[a]]
  BY DEF Broadcast, Quiet, At
<1>2. TypeInv'
  BY <1>1 DEF IInv, TypeInv, Quiet, Actors, Team
<1>3. \A u \in Team : \/ pc'[u] = pc[u] \/ pc'[u] \in After
                      \/ pc[u] \in Before /\ pc'[u] \in Before \ {"test"}
  BY <1>1, TeamIsNotMain DEF Woken, At
<1> QED
  BY <1>1, <1>2, <1>3, MoveStep

LEMMA CreateStep == ASSUME IInv, pthread_create PROVE IInv'
<1> USE DEF Before, Inside, After
<1>1. Quiet /\ UNCHANGED <<late, word>>
  BY DEF pthread_create, Quiet
<1>2. PICK t \in Team :
        /\ \A s \in Team : At(s, "none") <=> s >= t
        /\ pc' = [pc EXCEPT ![t] = Start,
                           ![Main] = IF t + 1 \in Team      THEN "create"
                                     ELSE IF task = "task2" THEN "init"
                                     ELSE IF task = "task3" THEN "barrier"
                                     ELSE "join"]
  BY DEF pthread_create
<1>3. pc[t] = "none"
  BY <1>2, ThreadsAssumption DEF At, Team
<1>4. /\ Start \in {"print", "barrier", "lock"}
      /\ Start = "print" => task = "task1"
  BY DEF Start
<1>5. TypeInv'
  BY <1>1, <1>2, <1>4 DEF IInv, TypeInv, Quiet, Actors, Team, OfMain
<1>6. \A u \in Team : pc'[u] = IF u = t THEN Start ELSE pc[u]
  BY <1>2, TeamIsNotMain DEF IInv, TypeInv
<1>7. \A u \in Team : \/ pc'[u] = pc[u]
                      \/ pc[u] \in Before /\ pc'[u] \in Before \ {"test"}
                      \/ task = "task1" /\ pc[u] \in Before /\ pc'[u] = "print"
  BY <1>3, <1>4, <1>6
<1> QED
  BY <1>1, <1>5, <1>7, MoveStep

\* The word is set free under an owner only if late remembers it.
LEMMA MutexInitStep == ASSUME IInv, pthread_mutex_init PROVE IInv'
<1>1. Quiet /\ Goto(Main, "join") /\ late' = (late \/ word # 0) /\ word' = 0
  BY DEF pthread_mutex_init, Quiet
<1>2. \A b \in Actors : pc'[b] = IF b = Main THEN "join" ELSE pc[b]
  BY <1>1 DEF Goto, IInv, TypeInv
<1>3. Actors' = Actors /\ Team' = Team /\ late' \in BOOLEAN
  BY <1>1 DEF Actors, Team, Quiet, IInv, TypeInv
<1>4. TypeInv'
  BY <1>1, <1>3 DEF Goto, IInv, TypeInv, Quiet, OfMain
<1>5. \A t \in Team : pc'[t] = pc[t]
  BY <1>2, TeamIsNotMain
<1>6. UNCHANGED word \/ late' \/ word = 0
  BY <1>1
<1>7. late => late'
  BY <1>1
<1> QED
  BY <1>1, <1>4, <1>5, <1>6, <1>7, MoveStep

LEMMA BarrierStep == ASSUME IInv, NEW a \in Actors, pthread_barrier_wait(a) PROVE IInv'
<1> USE DEF Before, Inside, After
<1>1. Quiet /\ UNCHANGED <<late, word>> /\ pc[a] = "barrier"
  BY DEF pthread_barrier_wait, Quiet, At
<1>2. CASE {b \in Actors \ {a} : ~At(b, "arrived")} = {}
  <2>1. pc' = [b \in Actors |-> IF b = Main THEN "join" ELSE "lock"]
    BY <1>2 DEF pthread_barrier_wait
  <2>2. TypeInv'
    BY <1>1, <2>1 DEF IInv, TypeInv, Quiet, Actors, Team, OfMain
  <2>3. \A t \in Team : pc[t] \in Before /\ pc'[t] \in Before \ {"test"}
    BY <1>1, <1>2, <2>1, TeamIsNotMain DEF At
  <2> QED
    BY <1>1, <2>2, <2>3, MoveStep
<1>3. CASE {b \in Actors \ {a} : ~At(b, "arrived")} # {}
  <2>1. Goto(a, "arrived")
    BY <1>3 DEF pthread_barrier_wait
  <2>2. TypeInv' /\ \A b \in Actors : pc'[b] = IF b = a THEN "arrived" ELSE pc[b]
    BY <1>1, <2>1, TypeStep DEF IInv, Quiet
  <2>3. \A t \in Team : pc'[t] = pc[t] \/ (pc[t] \in Before /\ pc'[t] \in Before \ {"test"})
    BY <1>1, <2>2, TeamIsNotMain
  <2> QED
    BY <1>1, <2>2, <2>3, MoveStep
<1> QED
  BY <1>2, <1>3

LEMMA JoinStep == ASSUME IInv, pthread_join PROVE IInv'
<1>1. Quiet /\ UNCHANGED <<late, word>> /\ Goto(Main, "returned")
  BY DEF pthread_join, Quiet
<1>2. TypeInv' /\ \A b \in Actors : pc'[b] = IF b = Main THEN "returned" ELSE pc[b]
  BY <1>1, TypeStep DEF IInv, Quiet, OfMain
<1>3. \A t \in Team : pc'[t] = pc[t]
  BY <1>2, TeamIsNotMain
<1> QED
  BY <1>1, <1>2, <1>3, MoveStep

LEMMA Preserved == IInv /\ [Next]_vars => IInv'
<1> SUFFICES ASSUME IInv, [Next]_vars PROVE IInv'
  OBVIOUS
<1>1. CASE UNCHANGED vars
  BY <1>1 DEF vars, IInv, TypeInv, MutexInv, FreshInv, TailInv, FlagInv, TextsWhole, Guarded,
              Team, Actors, At
<1>2. CASE MainThread
  BY <1>2, CreateStep, MutexInitStep, BarrierStep, JoinStep DEF MainThread, Actors
<1>3. ASSUME NEW t \in Team, Thread(t) PROVE IInv'
  BY <1>3, LockStep, TestStep, PrintStep, UnlockActionStep, BroadcastStep, BarrierStep,
     TeamIsNotMain DEF Thread
<1> QED
  BY <1>1, <1>2, <1>3, SpuriousStep DEF Next

\* Texts come out whole under the mutex of task2, task3 and task4, and Thr#9 prints first in
\* task4, whatever the size of the team; in task2 as long as the late pthread_mutex_init
\* (task2/main.c:55) has not freed a mutex that was taken.
THEOREM TextsAreWhole == Spec => []TextsWhole
<1>1. IInv => TextsWhole
  BY DEF IInv
<1> QED
  BY <1>1, Initially, Preserved, PTL DEF Spec
=============================================================================

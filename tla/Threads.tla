------------------------------- MODULE Threads --------------------------------
(* The thread exercises (practice 1-1, task1 to task4): main creates a team of *)
(* threads that print a text each, without any order, under a mutex that main  *)
(* initialises late, behind a barrier, or after the last thread has printed.   *)
(* The mutex of the C library is a word (0 free, 1 taken, 2 taken and perhaps  *)
(* waited for) on which threads sleep.                                         *)
EXTENDS Naturals, Sequences

CONSTANTS
    MAXTHREAD,      \* threads of task1 and task4; task2 and task3 have two
    Prints,         \* printf calls of a text
    MaxSpurious     \* bound: waits that end without a signal

ASSUME ThreadsAssumption == MAXTHREAD \in Nat /\ MAXTHREAD >= 2 /\ Prints \in Nat \ {0}

Tasks == {"task1", "task2", "task3", "task4"}

VARIABLES
    task,           \* which program runs
    pc,             \* [actors -> where it is]
    word,           \* the mutex
    flag,           \* task4: Thr#9 has left its critical section
    left,           \* [threads -> printf calls left]
    spurious,       \* waits that have ended without a signal
    out,            \* stdout, as the sequence of who printed
    late            \* history: task2 initialised the mutex when threads had come to it
vars == <<task, pc, word, flag, left, spurious, out, late>>

Main    == MAXTHREAD
Team    == IF task \in {"task2", "task3"} THEN {0, 1} ELSE 0 .. MAXTHREAD - 1
Last    == MAXTHREAD - 1
Actors  == Team \cup {Main}
At(a, place) == pc[a] = place
Goto(a, place) == pc' = [pc EXCEPT ![a] = place]

Init ==
    /\ task \in Tasks
    /\ pc = [a \in Actors |-> IF a = Main THEN "create" ELSE "none"]
    /\ word = 0 /\ flag = FALSE
    /\ left = [t \in Team |-> Prints] /\ spurious = 0
    /\ out = <<>> /\ late = FALSE

-----------------------------------------------------------------------------
(* The mutex *)

\* Who comes first to a free word takes it; who has slept leaves it marked as waited for.
lock(t, then) ==
    IF word = 0 THEN /\ word' = (IF pc[t] = "lock" THEN 1 ELSE 2)
                     /\ Goto(t, then)
    ELSE word' = 2 /\ Goto(t, "asleep")

\* Frees the word and wakes one sleeper if it may have any.
unlock(t, then) ==
    /\ word' = 0
    /\ LET asleep == {s \in Team : At(s, "asleep")} IN
         IF word = 2 /\ asleep # {}
           THEN \E s \in asleep : pc' = [pc EXCEPT ![t] = then, ![s] = "woken"]
           ELSE Goto(t, then)

-----------------------------------------------------------------------------
(* A thread *)

Start == IF task = "task1" THEN "print" ELSE IF task = "task3" THEN "barrier" ELSE "lock"
Locked == IF task = "task4" THEN "test" ELSE "print"
Printed == IF task = "task1" THEN "done" ELSE "unlock"

Lock(t) ==
    /\ pc[t] \in {"lock", "woken", "relock"}
    /\ lock(t, Locked)
    /\ UNCHANGED <<task, flag, left, spurious, out, late>>

\* (mutant) the threads test nothing.
MayPrint_Always(t) == TRUE

\* Thr#9 has left its critical section, or this is Thr#9.
MayPrint(t) == t = Last \/ flag

Test(t) ==
    /\ At(t, "test")
    /\ IF MayPrint(t) THEN Goto(t, "print") /\ UNCHANGED word
       ELSE unlock(t, "waiting")            \* pthread_cond_wait
    /\ UNCHANGED <<task, flag, left, spurious, out, late>>

\* POSIX lets a wait end without a signal.
SpuriousWakeup(t) ==
    /\ At(t, "waiting") /\ spurious < MaxSpurious
    /\ Goto(t, "relock") /\ spurious' = spurious + 1
    /\ UNCHANGED <<task, word, flag, left, out, late>>

printf(t) ==
    /\ At(t, "print")
    /\ out' = Append(out, t)
    /\ left' = [left EXCEPT ![t] = @ - 1]
    /\ IF left'[t] > 0 THEN UNCHANGED <<pc, flag>>
       ELSE /\ Goto(t, Printed)
            /\ flag' = (flag \/ (task = "task4" /\ t = Last))
    /\ UNCHANGED <<task, word, spurious, late>>

Unlock(t) ==
    /\ At(t, "unlock")
    /\ unlock(t, IF task = "task4" /\ t = Last THEN "broadcast" ELSE "done")
    /\ UNCHANGED <<task, flag, left, spurious, out, late>>

\* (mutant) one thread is woken.
Woken_One == {s \in Team : At(s, "waiting") /\ \A q \in Team : At(q, "waiting") => s =< q}

Woken == {s \in Team : At(s, "waiting")}

Broadcast(t) ==
    /\ At(t, "broadcast")
    /\ pc' = [a \in Actors |-> IF a = t THEN "done" ELSE IF a \in Woken THEN "relock" ELSE pc[a]]
    /\ UNCHANGED <<task, word, flag, left, spurious, out, late>>

-----------------------------------------------------------------------------
(* main *)

\* The threads are created in the order of their numbers.
pthread_create ==
    /\ At(Main, "create")
    /\ \E t \in Team :
         /\ \A s \in Team : At(s, "none") <=> s >= t
         /\ pc' = [pc EXCEPT ![t] = Start,
                            ![Main] = IF t + 1 \in Team      THEN "create"
                                      ELSE IF task = "task2" THEN "init"
                                      ELSE IF task = "task3" THEN "barrier"
                                      ELSE "join"]
    /\ UNCHANGED <<task, word, flag, left, spurious, out, late>>

\* task2 initialises the mutex when the threads may have it.
pthread_mutex_init ==
    /\ At(Main, "init") /\ Goto(Main, "join")
    /\ word' = 0
    /\ late' = (late \/ word # 0)
    /\ UNCHANGED <<task, flag, left, spurious, out>>

\* The barrier of three: who comes last lets all go on.
pthread_barrier_wait(a) ==
    /\ At(a, "barrier")
    /\ IF {b \in Actors \ {a} : ~At(b, "arrived")} = {}
         THEN pc' = [b \in Actors |-> IF b = Main THEN "join" ELSE "lock"]
         ELSE Goto(a, "arrived")
    /\ UNCHANGED <<task, word, flag, left, spurious, out, late>>

pthread_join ==
    /\ At(Main, "join") /\ \A t \in Team : At(t, "done")
    /\ Goto(Main, "returned")
    /\ UNCHANGED <<task, word, flag, left, spurious, out, late>>

-----------------------------------------------------------------------------
Thread(t) == Lock(t) \/ Test(t) \/ printf(t) \/ Unlock(t) \/ Broadcast(t)
             \/ pthread_barrier_wait(t)
MainThread == pthread_create \/ pthread_mutex_init \/ pthread_barrier_wait(Main) \/ pthread_join
Next == MainThread \/ \E t \in Team : Thread(t) \/ SpuriousWakeup(t)

\* The kernel runs every thread that can run.
Spec == /\ Init /\ [][Next]_vars
        /\ WF_vars(MainThread) /\ \A t \in 0 .. MAXTHREAD - 1 : WF_vars(t \in Team /\ Thread(t))
=============================================================================

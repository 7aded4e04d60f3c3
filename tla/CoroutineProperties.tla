------------------------ MODULE CoroutineProperties ------------------------
(***************************************************************************)
(* What the coroutine library promises its callers, and what its comments  *)
(* claim about its own bookkeeping.                                        *)
(***************************************************************************)
EXTENDS Coroutine

\* The routine that is inside _co_func_wrapper, past the return of its body.
Finishing(t) == cpu[t].pc \in {"fin_ret", "fin_walk", "fin_exit"}

\* Every variable keeps to its domain.
TypeOK ==
    /\ scheduler \in BOOLEAN /\ crashed \in BOOLEAN
    /\ tinfo \in Seq(Threads \cup {Uninit}) /\ tdata \in Nat /\ tfreed \in Nat
    /\ clen \in 0 .. MaxCo
    /\ cinfoW \subseteq Threads /\ cinfoR \subseteq Threads /\ tinfoW \subseteq Threads
    /\ tid \in [Cid -> Threads \cup {Uninit}]
    /\ status \in [Cid -> {0, RUNNING, FINISHED}]
    /\ ret \in [Cid -> Int]
    /\ parent \in [Cid -> Routine \cup {Uninit}]
    /\ stack \in [Cid -> Cid] /\ freed \subseteq Cid
    /\ colock \in [Cid -> SUBSET Threads]
    /\ running \in [Threads -> Routine]
    /\ cur \in [Threads -> Routine]
    /\ cpu \in [Threads -> Frame]
    /\ uc \in [Routine -> Frame]

\* meta->running names the routine that is on the processor; only at the end of
\* _co_func_wrapper, past coroutine.c:174, it already names the parent.
RunningIsCurrent ==
    ~crashed => \A t \in Threads :
        running[t] = IF cpu[t].pc = "fin_exit" THEN parent[cur[t]] ELSE cur[t]

\* A thread executes, and meta->running names, only coroutines of that thread whose
\* stack is still theirs: started, not finished (coroutine.c:60-62 and 236, 296). Claimed
\* of bodies that outlive their children (Structured): coroutine.c:174 hands the thread of
\* others back to a parent that has finished.
OnlyLiveRoutinesRun ==
    ~crashed => \A t \in Threads :
        /\ cur[t] \in Cid /\ ~Finishing(t) =>
             cur[t] \in Started /\ tid[cur[t]] = t /\ status[cur[t]] = RUNNING
        /\ running[t] \in Cid /\ ~Finishing(t) => status[running[t]] = RUNNING
        /\ cpu[t].pc = "fin_exit" /\ running[t] \in Cid => status[running[t]] = RUNNING

\* No context is saved, and no caller's code runs, while the library holds a lock for
\* the thread: a lock held across swapcontext would stop every other thread.
NoLockAcrossSwitch ==
    \A t \in Threads :
        cpu[t].pc \in {"user", "yield_meta", "yield_scan", "wait_read", "answered", "start_swap"} =>
            /\ t \notin cinfoW \cup cinfoR \cup tinfoW
            /\ \A c \in Cid : t \notin colock[c]

\* a starts c, or starts a routine that ..., through the parents (a among its own)
Ancestor(a, c) ==
    \A S \in SUBSET Cid :
        a \in S /\ (\A d \in Started : parent[d] \in S => d \in S) => c \in S

\* What a function answers is true when it answers: co_wait only for a finished
\* coroutine, co_getret its return value and never the -1 it starts with,
\* co_waitall only when all coroutines it saw have finished, co_getid the
\* routine that asks, co_status by the rules of coroutine.c:320-323: of a cid that was
\* given out its status to those who may ask, of any other number UNAUTHORIZED. The number
\* of coroutines itself, the cid to come next, is excepted: the test of coroutine.c:333
\* lets it pass, against the first rule, and the answer may be anything.
AnswersAreTrue ==
    ~crashed => \A t \in Threads :
        LET f == cpu[t] IN
        f.pc = "answered" =>
            CASE f.op = "wait" -> status[f.arg] = FINISHED
              [] f.op = "getret" -> status[f.arg] = FINISHED /\ f.val = ret[f.arg] /\ f.val \in Rets
              [] f.op = "waitall" -> \A c \in Cid : c < f.val => status[c] = FINISHED
              [] f.op = "getid" -> f.val = IF cur[t] = t THEN -1 ELSE cur[t]
              [] f.op = "status" ->
                   /\ f.arg \in Started =>
                        f.val = IF tid[f.arg] = t /\ (cur[t] = t \/ Ancestor(cur[t], f.arg))
                                THEN status[f.arg] ELSE UNAUTHORIZED
                   /\ f.arg \notin 0 .. clen => f.val = UNAUTHORIZED
              [] OTHER -> TRUE

\* A thread that looks for its meta under a lock finds all entries complete, and no
\* thread ever gets two of them.
OneMetaPerThread ==
    /\ tinfoW = {} => \A i \in DOMAIN tinfo : tinfo[i] # Uninit
    /\ \A i, j \in DOMAIN tinfo : tinfo[i] = tinfo[j] => i = j

\* The assertion of coroutine.c:173, and what co_getid counts on: a walk without a
\* lock meets the thread's own meta before any entry whose tid is not set yet.
WalkFindsOwnMeta ==
    /\ OneMetaPerThread
    /\ ~crashed => \A t \in Threads :
         cpu[t].pc \in {"getid_walk", "fin_walk"} =>
             \E i \in DOMAIN tinfo :
                 tinfo[i] = t /\ \A j \in DOMAIN tinfo : j < i => tinfo[j] # Uninit

\* The scheduler is created once: no step forgets a coroutine or a thread.
NothingForgotten == [][/\ scheduler => scheduler'
                       /\ clen' \in {clen, clen + 1}
                       /\ Len(tinfo') >= Len(tinfo)
                       /\ \A c \in Started : tid'[c] = tid[c]]_vars

\* A coroutine finishes once: its status never leaves FINISHED, and when its wrapper has
\* given the lock back (coroutine.c:176) nobody takes it for writing again and the return
\* value stays, so that co_getret, which reads it under that lock, returns one value to all.
FinishedIsFinal ==
    [][\A c \in Cid : status[c] = FINISHED =>
          /\ status'[c] = FINISHED
          /\ colock[c] = {} => colock'[c] = {} /\ ret'[c] = ret[c]]_vars

\* The unlocked walk of _tinfo never reads a block that co_array_add has freed
\* (coroutine.c:150 says that it needs no lock).
WalksLiveBlock ==
    \A t \in Threads : cpu[t].pc \in {"getid_walk", "fin_walk"} => cpu[t].val >= tfreed

\* Main's co_wait or co_getret for a coroutine of its own thread comes back; and while
\* main waits, co_yield's order lets every runnable coroutine of the thread run.
MainWaitReturns ==
    \A t \in Threads :
        LET back == (cpu[t].pc = "answered" /\ cur[t] = t) \/ crashed IN
        /\ (cpu[t].pc = "wait_read" /\ cur[t] = t) ~> back
        /\ \A c \in Cid :
             (/\ cpu[t].pc = "yield_meta" /\ cpu[t].op \in {"wait", "getret"} /\ cur[t] = t
              /\ status[c] = RUNNING /\ tid[c] = t)
                 ~> (cur[t] = c \/ back)

=============================================================================

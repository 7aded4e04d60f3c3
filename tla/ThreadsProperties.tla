--------------------------- MODULE ThreadsProperties --------------------------
(* What the thread exercises are to print, and that they end.                  *)
EXTENDS Threads

\* Under the mutex a thread prints its text in one piece, whoever slept, was woken or came
\* in between; in task4 Thr#9 prints first ("ensures that Thr#9 executes before Thr#0 ~
\* Thr#8"). In task2 that is so unless main initialised the mutex over its owner's head.
TextsWhole ==
    /\ task # "task1" /\ ~late =>
         \A m, n \in DOMAIN out : m < n /\ out[m] = out[n] => \A q \in m..n : out[q] = out[m]
    /\ task = "task4" /\ out # <<>> => out[1] = Last

\* Every thread ends and main returns: no wake-up is lost between the test of the flag, the
\* unlock and the broadcast, and none at the mutex but for the late initialisation of task2.
MainReturns == <>(At(Main, "returned") \/ late)
=============================================================================

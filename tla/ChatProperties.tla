--------------------------- MODULE ChatProperties ---------------------------
(* What a process of the chat keeps true while its threads run its handlers.  *)
EXTENDS Chat, SequencesExt

\* A message that was forwarded: its ttl was not yet at its end.
Live == [id : Ids, ttl : Nat \ {0}]

\* Types; and what a list of the chat holds still has a ttl, and the lists keep
\* within their bounds (group.h, broadcast; message.h, MessageCache).
TypeOK ==
  /\ members \subseteq Sessions
  /\ recent \in Seq(Live) /\ Len(recent) =< MaxRecent
  /\ cache \in Seq(Live) /\ Len(cache) =< MaxCache
  /\ {gmutex, cmutex} \subseteq Threads \cup {None}
  /\ state \in [Sessions -> {"new", "open", "freed"}]
  /\ \A s \in Sessions : {pending[s], out[s]} \subseteq Seq(Live)
  /\ wbuff \in [Sessions -> Live \cup {None}]
  /\ {reading, writing} \subseteq [Sessions -> BOOLEAN]
  /\ {accepting, creading, cwriting, eof, crashed} \subseteq BOOLEAN
  /\ {cpending, up, shown, ccache} \subseteq Seq(Live) /\ cwbuff \in Live \cup {None}
  /\ conn \in {"connecting", "open", "closed"}
  /\ posts \in Seq(Live \cup {None})
  /\ typed \subseteq OwnMsgs /\ nreads \in 0..MaxReads
  /\ pc \in [Threads -> {"idle", "check", "fan", "recent", "again", "join", "replay", "run",
                         "write", "written", "leave", "lock", "push", "cwrite", "cwritten",
                         "cread"}]
  /\ on \in [Threads -> Sessions \cup {None, "post", "client"}]
  /\ msg \in [Threads -> Messages \cup {None}]
  /\ left \in [Threads -> SUBSET Sessions] /\ dst \in [Threads -> Sessions \cup {None}]
  /\ back \in [Threads -> {"idle", "fan", "replay"}]
  /\ \A t \in Threads : rest[t] \in Seq(Live)

-----------------------------------------------------------------------------
(* The write of a connection *)

\* The threads that are between the unlock and do_write, or at the end of one.
Writers(s)  == {t \in Threads : (pc[t] = "write" /\ dst[t] = s) \/ (pc[t] = "written" /\ on[t] = s)}
CWriters    == {t \in Threads : pc[t] \in {"cwrite", "cwritten"}}
Failing(s)  == s \notin members \/ \E t \in Threads : pc[t] = "leave" /\ on[t] = s

\* The mutex is released before do_write, and pending alone tells that a write
\* is in progress: still a connection has at most one write at a time, it has
\* one whenever something is pending, and wbuff is not overwritten meanwhile
\* (server.h, send and do_write; client.h the same).
OneWriteAtATime ==
  ~crashed =>
    /\ \A s \in Sessions :
         /\ Cardinality(Writers(s)) + (IF writing[s] THEN 1 ELSE 0) =< 1
         /\ (writing[s] \/ Writers(s) # {}) => pending[s] # <<>> /\ wbuff[s] = Head(pending[s])
         /\ pending[s] # <<>> => writing[s] \/ Writers(s) # {} \/ Failing(s)
    /\ Cardinality(CWriters) + (IF cwriting THEN 1 ELSE 0) =< 1
    /\ (cwriting \/ CWriters # {}) => cpending # <<>> /\ cwbuff = Head(cpending)
    /\ cpending # <<>> => cwriting \/ CWriters # {} \/ conn = "closed"

\* What a session has been given to send: what its peer got, then what waits.
Given(s) ==
  out[s] \o (IF \E t \in Threads : pc[t] = "written" /\ on[t] = s
             THEN Tail(pending[s]) ELSE pending[s])

\* A session is a queue: nothing that it was given to send is lost, sent twice
\* or overtaken, whichever threads give it (server.h, send and on_write).
SessionIsFifo == [][\A s \in Sessions : IsPrefix(Given(s), Given(s)')]_vars

-----------------------------------------------------------------------------
(* A message goes everywhere once *)

\* The copies of a message in a list; in posts, None is not a message.
Times(id, list) == Cardinality({k \in DOMAIN list : list[k] # None /\ list[k].id = id})

\* No session is given a message twice: not by two handlers that broadcast it
\* at once, not by the replay of a join that meets a broadcast (group.h); nor one
\* whose ttl has come to its end (TypeOK).
SentOnce == TypeOK /\ \A s \in Sessions, id \in Ids : Times(id, Given(s)) =< 1

\* The message on its way to the next process: posted, in on_post, waiting, sent.
Upstream(id) ==
  Times(id, posts)
  + Cardinality({t \in Threads : on[t] = "post" /\ msg[t].id = id})
  + Times(id, cpending) + Times(id, up)
  - (IF \E t \in Threads : pc[t] = "cwritten" /\ cpending[1].id = id THEN 1 ELSE 0)

\* client.send posts on_post, on_post broadcasts, and broadcast calls client.send:
\* the group's cache ends the circle.  A peer's message goes upstream at most
\* once, one typed here at most twice, and then with different ttl (client.h, group.h).
UpstreamBounded ==
  /\ \A id \in PeerMsgs : Upstream(id) =< 1
  /\ \A id \in OwnMsgs : Upstream(id) =< 2

-----------------------------------------------------------------------------
(* Progress *)

\* A handler comes to its end: the threads never wait for each other's mutexes
\* in a circle, nor for a mutex that nobody releases (group.h, client.h).
HandlersReturn == \A t \in Threads : pc[t] # "idle" ~> (pc[t] = "idle" \/ crashed)

\* What a session was given is sent in the end, unless the session is destroyed; and
\* what is posted for the next process, unless the connection is closed.
QueuedIsSent ==
  \A id \in Ids :
    /\ \A s \in Sessions :
         Times(id, Given(s)) > 0 ~> (Times(id, out[s]) > 0 \/ Failing(s) \/ crashed)
    /\ Upstream(id) > 0 ~> (Times(id, up) > 0 \/ conn = "closed" \/ crashed)

=============================================================================

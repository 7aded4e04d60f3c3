------------------------------- MODULE ChatNet --------------------------------
(* Processes of the chat (practice-4), each with one thread of its io_context, *)
(* so that a handler is one step.  A process is the session of the one it      *)
(* connects to; who connects to whom is any graph in which each process has at *)
(* most one target, circles among them.                                        *)
(*                                                                             *)
(* A connection is two queues: what a session or a client holds back, writes   *)
(* and has on the wire arrives in order (Chat checks that for the threads of a *)
(* process).  A message is a number, for its (addr, id), and its ttl.          *)
EXTENDS Naturals, Sequences

CONSTANTS
  Procs,
  Nets,       \* networks: [target, late, ttl, cache, recent]
  MaxSaid,    \* bound: messages typed
  None

ASSUME NetAssumption ==
  \A n \in Nets : /\ n.target \in [Procs -> Procs \cup {None}]
                  /\ {n.ttl, n.cache, n.recent} \subseteq Nat
ASSUME NoneAssumption == None \notin Procs
ASSUME SaidAssumption == MaxSaid \in Nat

VARIABLES
  net,        \* one of Nets, fixed
  open,       \* the processes whose connection is there at both ends
  cache, recent,    \* Group
  ccache, posts,    \* Client; posts: its on_post handlers in the io_context
  up, down,   \* [Procs -> messages to its target, and from it]
  said,       \* history: the messages typed, each with what its author had seen
  shown       \* history: [Procs -> numbers displayed]
group  == <<cache, recent>>
queues == <<posts, up, down>>
vars   == <<net, open, group, ccache, queues, said, shown>>

HasClient(p) == net.target[p] # None
members(p) == {c \in open : net.target[c] = p}
Known(s) == {s[k] : k \in DOMAIN s}

Init ==
  /\ net \in Nets
  /\ open = {p \in Procs \ net.late : HasClient(p)}
  /\ cache = [p \in Procs |-> <<>>] /\ recent = [p \in Procs |-> <<>>]
  /\ ccache = [p \in Procs |-> <<>>] /\ posts = [p \in Procs |-> <<>>]
  /\ up = [p \in Procs |-> <<>>] /\ down = [p \in Procs |-> <<>>]
  /\ said = <<>> /\ shown = [p \in Procs |-> <<>>]

\* Mutant: the newest are at the front, and the oldest are dropped from the end.
Keep_Front(list, x, max) ==
  LET l == <<x>> \o list IN IF Len(l) > max THEN SubSeq(l, 1, max) ELSE l

\* push_back, then pop_front while there are more than max.
Keep(list, x, max) ==
  LET l == Append(list, x)
  IN IF Len(l) > max THEN SubSeq(l, Len(l) - max + 1, Len(l)) ELSE l

Fewer(m) == [m EXCEPT !.ttl = @ - 1]

-----------------------------------------------------------------------------
Passes(p, m) == m.ttl - 1 > 0 /\ m.id \notin Known(cache[p])

\* Group::broadcast; ps and ds are the queues without the message.
broadcast(p, m, ps, ds) ==
  IF Passes(p, m)
  THEN /\ cache' = [cache EXCEPT ![p] = Keep(@, m.id, net.cache)]
       /\ down' = [c \in Procs |-> IF c \in members(p) THEN Append(ds[c], Fewer(m)) ELSE ds[c]]
       /\ posts' = IF HasClient(p) THEN [ps EXCEPT ![p] = Append(@, Fewer(m))] ELSE ps
       /\ recent' = [recent EXCEPT ![p] = Keep(@, Fewer(m), net.recent)]
  ELSE down' = ds /\ posts' = ps /\ UNCHANGED group

\* main: a line is typed.
Type(p) ==
  /\ HasClient(p) /\ Len(said) < MaxSaid
  /\ said' = Append(said, [by |-> p,
                           after |-> Known(shown[p]) \cup {n \in DOMAIN said : said[n].by = p}])
  /\ posts' = [posts EXCEPT ![p] = Append(@, [id |-> Len(said) + 1, ttl |-> net.ttl])]
  /\ UNCHANGED <<net, open, group, ccache, up, down, shown>>

\* Mutant: join does not replay.
Connect_NoReplay(p) ==
  /\ HasClient(p) /\ p \notin open
  /\ open' = open \cup {p}
  /\ UNCHANGED <<net, group, ccache, posts, up, down, said, shown>>

\* on_connect at one end, on_accept and join with its replay at the other.
Connect(p) ==
  /\ HasClient(p) /\ p \notin open
  /\ open' = open \cup {p}
  /\ down' = [down EXCEPT ![p] = recent[net.target[p]]]
  /\ UNCHANGED <<net, group, ccache, posts, up, said, shown>>

\* on_post of Client::send.
OnPost(p) ==
  /\ posts[p] # <<>>
  /\ LET m == Head(posts[p]) IN
       /\ broadcast(p, m, [posts EXCEPT ![p] = Tail(@)], down)
       /\ up' = [up EXCEPT ![p] = Append(@, m)]
  /\ UNCHANGED <<net, open, ccache, said, shown>>

\* on_read of the session of p at its target.
OnRead(p) ==
  /\ p \in open /\ up[p] # <<>>
  /\ broadcast(net.target[p], Head(up[p]), posts, down)
  /\ up' = [up EXCEPT ![p] = Tail(@)]
  /\ UNCHANGED <<net, open, ccache, said, shown>>

\* on_read of the client of p.
OnCRead(p) ==
  /\ down[p] # <<>>
  /\ LET m    == Head(down[p])
         rest == [down EXCEPT ![p] = Tail(@)]
     IN
     IF m.ttl > 0 /\ m.id \notin Known(ccache[p])
     THEN /\ ccache' = [ccache EXCEPT ![p] = Keep(@, m.id, net.cache)]
          /\ shown' = [shown EXCEPT ![p] = Append(@, m.id)]
          /\ IF m.ttl - 1 > 0 THEN broadcast(p, Fewer(m), posts, rest)
             ELSE down' = rest /\ UNCHANGED <<posts, group>>
     ELSE down' = rest /\ UNCHANGED <<ccache, shown, posts, group>>
  /\ UNCHANGED <<net, open, up, said>>

Handler(p) == OnPost(p) \/ OnCRead(p) \/ \E c \in Procs : net.target[c] = p /\ OnRead(c)
Next == \E p \in Procs : Type(p) \/ Connect(p) \/ Handler(p)

\* The thread of each process runs, and connections come about.
Spec == /\ Init /\ [][Next]_vars
        /\ \A p \in Procs : WF_vars(Handler(p)) /\ WF_vars(Connect(p))
=============================================================================

---------------------------- MODULE ServerManager ----------------------------
(***************************************************************************)
(* AsyncLLMServerManager: each agent loop worker has one, which spreads    *)
(* new requests over the servers and sends every later turn of a request   *)
(* to the server that has its prefix in cache.                             *)
(***************************************************************************)
EXTENDS Naturals, Sequences

CONSTANTS
  Workers,    \* the agent loop workers
  Servers,    \* 1 .. n, in the order that breaks ties in the heap
  CacheSize   \* max_cache_size

VARIABLES
  load,       \* counters of weighted_serveres: requests ever placed on a server
  sessions    \* request_id_to_server, from the least to the most recently used

Init ==
  /\ load = [w \in Workers |-> [v \in Servers |-> 0]]
  /\ sessions = [w \in Workers |-> <<>>]

\* The root of the heap.
LeastLoaded(w) ==
  CHOOSE v \in Servers :
    \A u \in Servers : load[w][v] < load[w][u] \/ (load[w][v] = load[w][u] /\ v <= u)

Known(w, request) == \E i \in DOMAIN sessions[w] : sessions[w][i].request = request

\* Where the cache has it.
Place(w, request) == CHOOSE i \in DOMAIN sessions[w] : sessions[w][i].request = request

\* An access makes the k-th entry the most recent.
Renew(q, k) ==
  [i \in DOMAIN q |-> IF i < k THEN q[i] ELSE IF i < Len(q) THEN q[i + 1] ELSE q[k]]

\* The least recently used entry goes when the cache is full.
Evict(q) == IF Len(q) >= CacheSize THEN Tail(q) ELSE q

\* _choose_server answers `server'.
Choose(w, request, server) ==
  /\ IF Known(w, request)
     THEN /\ server = sessions[w][Place(w, request)].server
          /\ sessions' = [sessions EXCEPT ![w] = Renew(@, Place(w, request))]
          /\ UNCHANGED load
     ELSE /\ server = LeastLoaded(w)
          /\ load' = [load EXCEPT ![w][server] = @ + 1]
          /\ sessions' = [sessions EXCEPT
               ![w] = Append(Evict(@), [request |-> request, server |-> server])]
=============================================================================

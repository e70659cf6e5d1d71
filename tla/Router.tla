------------------------------- MODULE Router -------------------------------
(***************************************************************************)
(* The router (server/src/api/router): the tree of routes that init_router *)
(* builds with add_node, search_node, and dispatch.  The tree is read only *)
(* once the workers run, but search_node cuts its copy of the path with    *)
(* strtok, which keeps its position in ONE static pointer for all threads. *)
(* An action is what a call does between two touches of shared memory:     *)
(* strtok loads the pointer, looks at the characters, and stores.          *)
(*                                                                         *)
(* A path is the sequence of what stands between its slashes, "" where     *)
(* two meet or nothing follows the last.                                   *)
(***************************************************************************)
EXTENDS Integers, Sequences, FiniteSets, FiniteSetsExt

CONSTANTS
  Calls,     \* calls of dispatch in a behaviour, each by some worker
  Requests,  \* the requests they may be given
  Parts,     \* what may stand between two slashes of a path
  Garbage,   \* a name found in freed memory that no route has
  NoCall     \* whose buffer strtok's pointer is left in by init_router

Methods == {"GET", "POST", "PATCH", "DELETE"}

-----------------------------------------------------------------------------
(* The tree.                                                               *)

\* Mutant: a handler for the service product_get beside the one for restock.
RoutesWithProduct == <<
  [path |-> <<"stock">>, internal |-> FALSE, fn |-> [GET |-> "handle_get_stock"]],
  [path |-> <<"stock", ":slot_id">>, internal |-> FALSE,
   fn |-> [GET |-> "handle_get_product", PATCH |-> "handle_post_restock"]] >>

\* init_router's calls of register_route, in order: the name split at its
\* slashes, and the handler_t.
Routes == <<
  [path |-> <<"stock">>, internal |-> FALSE, fn |-> [GET |-> "handle_get_stock"]],
  [path |-> <<"stock", ":slot_id">>, internal |-> FALSE,
   fn |-> [PATCH |-> "handle_post_restock"]],
  [path |-> <<"balance">>, internal |-> FALSE,
   fn |-> [GET |-> "handle_get_balance", POST |-> "handle_post_deposit",
           DELETE |-> "handle_delete_balance"]],
  [path |-> <<"orders">>, internal |-> FALSE, fn |-> [POST |-> "handle_post_purchase"]],
  [path |-> <<"items", ":item_id">>, internal |-> FALSE,
   fn |-> [PATCH |-> "handle_post_update_price"]],
  [path |-> <<"debug", "slow">>, internal |-> FALSE, fn |-> [GET |-> "handle_get_slow"]],
  [path |-> <<"users", "lookup">>, internal |-> TRUE,
   fn |-> [POST |-> "handle_lookup_user"]] >>

\* The names that begin with the wildcard character.
Wild == {":slot_id", ":item_id"}

\* A node is the sequence of names that leads to it.  What the calls of
\* add_node leave behind: a node for every prefix of every route, ...
Nodes == UNION {{SubSeq(Routes[k].path, 1, n) : n \in 0..Len(Routes[k].path)} :
                k \in DOMAIN Routes}

\* ... the payload of the last route that ends there, 0 for NULL, ...
Payload(n) == LET ends == {k \in DOMAIN Routes : Routes[k].path = n} IN
              IF ends = {} THEN 0 ELSE Max(ends)

\* ... and children in the order in which routes first needed them, so that the
\* first wildcard child is the one of the earliest route through it.
WildRoutes(n) == {k \in DOMAIN Routes :
                    /\ Len(Routes[k].path) > Len(n)
                    /\ SubSeq(Routes[k].path, 1, Len(n)) = n
                    /\ Routes[k].path[Len(n) + 1] \in Wild}

ASSUME RouterAssumption ==
  /\ NoCall \notin Calls
  /\ \A k \in DOMAIN Routes : \A n \in DOMAIN Routes[k].path : Routes[k].path[n] # Garbage
  /\ \A r \in Requests : /\ r.method \in Methods /\ r.internal \in BOOLEAN
                         /\ r.path \in Seq(Parts)

\* search_node's NULL: no child of that name.
Missing == <<Garbage>>

\* One turn of search_node's loop: find_child, then the wildcard.
Child(n, name) ==
  IF Append(n, name) \in Nodes THEN Append(n, name)
  ELSE IF WildRoutes(n) # {}
       THEN SubSeq(Routes[Min(WildRoutes(n))].path, 1, Len(n) + 1)
       ELSE Missing

\* dispatch, for the handler that the search found.
Answer(n, r) ==
  LET k == Payload(n) IN
  IF k = 0 THEN "404"
  ELSE IF Routes[k].internal /\ ~r.internal THEN "403"
  ELSE IF r.method \notin DOMAIN Routes[k].fn THEN "405"
  ELSE Routes[k].fn[r.method]

-----------------------------------------------------------------------------
(* The calls.                                                              *)

VARIABLES
  pc,        \* where each call is
  req,       \* its request; name_ is a copy of its path
  olds,      \* strtok's static pointer
  cut,       \* for each name_, the parts that a '\0' has been written after,
             \* and 0 when one has been written inside a part
  s,         \* the pointer a call is working on
  tok,       \* prefix: the part of the buffer of s that strtok found, 0 for NULL
  node,      \* parent
  answer,    \* the handler function called, or the status sent instead
  disturbed  \* history: another call has stored while this one searched

vars == <<pc, req, olds, cut, s, tok, node, answer, disturbed>>

\* A pointer into the name_ of call buf: behind the slash (now '\0') that
\* follows part `at', or, when nul, at the '\0' that follows it.
Pointer == [buf : Calls \cup {NoCall}, at : Nat, nul : BOOLEAN]

Statuses == {"404", "403", "405"}
HandlerFns == UNION {{Routes[k].fn[m] : m \in DOMAIN Routes[k].fn} : k \in DOMAIN Routes}
Searching == {"load", "scan", "store", "descend", "found"}

TypeOK ==
  /\ pc \in [Calls -> {"idle", "done"} \cup Searching]
  /\ req \in [Calls -> Requests]
  /\ olds \in Pointer
  /\ cut \in [Calls -> SUBSET Nat]
  /\ s \in [Calls -> Pointer]
  /\ tok \in [Calls -> Nat]
  /\ node \in [Calls -> Nodes \cup {Missing}]
  /\ answer \in [Calls -> Statuses \cup HandlerFns \cup {""}]
  /\ disturbed \in [Calls -> BOOLEAN]

Init ==
  /\ pc = [c \in Calls |-> "idle"]
  /\ req \in [Calls -> Requests]
  /\ olds = [buf |-> NoCall, at |-> 0, nul |-> TRUE]
  /\ cut = [c \in Calls |-> {}]
  /\ s = [c \in Calls |-> [buf |-> c, at |-> 0, nul |-> FALSE]]
  /\ tok = [c \in Calls |-> 0]
  /\ node = [c \in Calls |-> <<>>]
  /\ answer = [c \in Calls |-> ""]
  /\ disturbed = [c \in Calls |-> FALSE]

\* strdup, and strtok(name_, delim) with the pointer it is given.
Start(c) ==
  /\ pc[c] = "idle"
  /\ pc' = [pc EXCEPT ![c] = "scan"]
  /\ UNCHANGED <<req, olds, cut, s, tok, node, answer, disturbed>>

\* strtok(NULL, delim) takes the static pointer.
Load(c) ==
  /\ pc[c] = "load"
  /\ s' = [s EXCEPT ![c] = olds]
  /\ pc' = [pc EXCEPT ![c] = "scan"]
  /\ UNCHANGED <<req, olds, cut, tok, node, answer, disturbed>>

\* The buffer a pointer points into has been freed.
Dangling(p) == p.buf \notin Calls \/ pc[p.buf] = "done"

\* What strtok finds from p: the part, 0 for NULL, and the pointer to keep.
\* Freed memory may hold anything, and a stray '\0' may end a path early.
Look(p) ==
  LET path  == req[p.buf].path
      later == {i \in DOMAIN path : i > p.at /\ path[i] # ""}
      i     == Min(later)
      none  == [tok |-> 0, next |-> [p EXCEPT !.nul = TRUE]]
  IN  IF Dangling(p) THEN {[tok |-> t, next |-> p] : t \in {0, 1}}
      ELSE IF p.nul \/ later = {} THEN {none}
      ELSE {[tok |-> i, next |-> [buf |-> p.buf, at |-> i,
                                  nul |-> i = Len(path) \/ i \in cut[p.buf]]]}
           \cup {f \in {none} : 0 \in cut[p.buf]}

Scan(c) ==
  /\ pc[c] = "scan"
  /\ \E f \in Look(s[c]) : tok' = [tok EXCEPT ![c] = f.tok] /\ s' = [s EXCEPT ![c] = f.next]
  /\ pc' = [pc EXCEPT ![c] = "store"]
  /\ UNCHANGED <<req, olds, cut, node, answer, disturbed>>

\* Where strtok's '\0' may land: after the part it returns, or, through a
\* dangling pointer, nowhere or in a copy that has been given the memory since.
Cuts(c) ==
  LET p == s[c] IN
  IF tok[c] = 0 \/ (~Dangling(p) /\ p.nul) THEN {cut}
  ELSE IF ~Dangling(p) THEN {[cut EXCEPT ![p.buf] = @ \cup {p.at}]}
  ELSE {cut} \cup {[cut EXCEPT ![d] = @ \cup {i}] :
                   d \in {d \in Calls : pc[d] \in Searching}, i \in {0, 1, 2}}

\* strtok writes its '\0' and its static pointer, and returns.
Store(c) ==
  /\ pc[c] = "store"
  /\ cut' \in Cuts(c)
  /\ olds' = s[c]
  /\ disturbed' = [d \in Calls |-> disturbed[d] \/ (d # c /\ pc[d] \in Searching)]
  /\ pc' = [pc EXCEPT ![c] = "descend"]
  /\ UNCHANGED <<req, s, tok, node, answer>>

\* The names that prefix may be seen to point at.
Names(c) == IF Dangling(s[c])
            THEN UNION {{Routes[k].path[n] : n \in DOMAIN Routes[k].path} :
                        k \in DOMAIN Routes} \cup {Garbage}
            ELSE {req[s[c].buf].path[tok[c]]} \cup {n \in {Garbage} : 0 \in cut[s[c].buf]}

\* Mutant: a name without a child ends the loop in place of the search: the
\* payload of the node reached so far is returned.
DescendBreaks(c) ==
  /\ pc[c] = "descend"
  /\ \/ /\ tok[c] = 0
        /\ pc' = [pc EXCEPT ![c] = "found"]
        /\ UNCHANGED node
     \/ /\ tok[c] # 0
        /\ \E name \in Names(c) : LET n == Child(node[c], name) IN
             /\ node' = [node EXCEPT ![c] = IF n = Missing THEN @ ELSE n]
             /\ pc' = [pc EXCEPT ![c] = IF n = Missing THEN "found" ELSE "load"]
  /\ UNCHANGED <<req, olds, cut, s, tok, answer, disturbed>>

\* The body of the loop, or its end when prefix is NULL.
Descend(c) ==
  /\ pc[c] = "descend"
  /\ \/ /\ tok[c] = 0
        /\ pc' = [pc EXCEPT ![c] = "found"]
        /\ UNCHANGED node
     \/ /\ tok[c] # 0
        /\ \E name \in Names(c) : node' = [node EXCEPT ![c] = Child(node[c], name)]
        /\ pc' = [pc EXCEPT ![c] = IF node'[c] = Missing THEN "found" ELSE "load"]
  /\ UNCHANGED <<req, olds, cut, s, tok, answer, disturbed>>

\* free(name_), and what dispatch does with the payload.
Dispatch(c) ==
  /\ pc[c] = "found"
  /\ answer' = [answer EXCEPT ![c] = Answer(node[c], req[c])]
  /\ pc' = [pc EXCEPT ![c] = "done"]
  /\ UNCHANGED <<req, olds, cut, s, tok, node, disturbed>>

Step(c) == Start(c) \/ Load(c) \/ Scan(c) \/ Store(c) \/ Descend(c) \/ Dispatch(c)

Next == \E c \in Calls : Step(c)

Spec == Init /\ [][Next]_vars

-----------------------------------------------------------------------------
(* What the router promises.                                               *)

\* The parts of a path that are not empty.
Filled(r) == {i \in DOMAIN r.path : r.path[i] # ""}

\* The routes that a path matches part by part, whatever the tree looks like:
\* the n-th part that is not empty stands for the n-th name of the route.
Matching(r) ==
  {k \in DOMAIN Routes :
     /\ Cardinality(Filled(r)) = Len(Routes[k].path)
     /\ \A i \in Filled(r) :
          Routes[k].path[Cardinality(Filled(r) \cap 1..i)] \in Wild \cup {r.path[i]}}

\* What the route table says should happen to a request.
Declared(r) ==
  IF Matching(r) = {} THEN "404"
  ELSE LET h == Routes[CHOOSE k \in Matching(r) : TRUE] IN
       IF h.internal /\ ~r.internal THEN "403"
       ELSE IF r.method \in DOMAIN h.fn THEN h.fn[r.method] ELSE "405"

\* Unless another worker's strtok stores during its search, a request gets
\* what the route table declares for it: search_node over the tree of add_node,
\* with empty parts skipped and wildcards as fallback, computes the match, and
\* no pointer that earlier searches left behind reaches a later one.
RoutedAsDeclared ==
  \A c \in Calls : pc[c] = "done" /\ ~disturbed[c] => answer[c] = Declared(req[c])

\* Whatever searches do to each other, freed buffers included, a request that
\* has a handler is run by that handler or refused: never by another one.
OwnHandlerOrNone ==
  \A c \in Calls : pc[c] = "done" /\ Declared(req[c]) \notin Statuses
                     => answer[c] \in Statuses \cup {Declared(req[c])}

\* An unknown path gets 404, a known path without that verb 405, and the others
\* reach their handler (readme, "HTTP and routing").
EveryRequestRouted == \A c \in Calls : pc[c] = "done" => answer[c] = Declared(req[c])
=============================================================================

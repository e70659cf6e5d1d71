---------------------------- MODULE RouterProofs ----------------------------
(***************************************************************************)
(* Proof that, for any number of concurrent searches and any requests, no  *)
(* request is run by another request's handler, although the searches      *)
(* share strtok's pointer and may read freed memory.  The argument: the    *)
(* FIRST name of a search is always its own, because strtok is given the   *)
(* pointer there and nobody else has one into the copy yet; every later    *)
(* step stays below that name; and no two routes that begin with the same  *)
(* name have a handler for the same method.                                *)
(*                                                                         *)
(* And proof that a search whose path and pointer no other search touched  *)
(* computes the declared match, for any path: it stands where the names    *)
(* read so far lead, and every route that matches the request continues    *)
(* from there.                                                             *)
(***************************************************************************)
EXTENDS Router, FiniteSetTheorems, SequenceTheorems, WellFoundedInduction, TLAPS

\* The first part of the request that is not empty.
First(r) == Min(Filled(r))

\* What holds of the search of call c.
CallInv(c) ==
  /\ node[c] = <<>> /\ pc[c] \in {"idle", "scan", "store", "descend"} => s[c].buf = c
  /\ node[c] = <<>> /\ pc[c] \in {"idle", "scan"} => s[c].at = 0
  /\ node[c] = <<>> /\ pc[c] \in {"store", "descend"} /\ tok[c] # 0
       => Filled(req[c]) # {} /\ tok[c] = First(req[c])
  /\ pc[c] = "load" => node[c] # <<>>
  /\ pc[c] \notin {"found", "done"} => node[c] # Missing
  /\ node[c] \notin {<<>>, Missing}
       => Filled(req[c]) # {} /\ node[c][1] = req[c].path[First(req[c])]
  /\ pc[c] = "done" => answer[c] = Answer(node[c], req[c])

IndInv == TypeOK /\ \A c \in Calls : CallInv(c)

-----------------------------------------------------------------------------
(* The table of routes.                                                    *)

\* The table row by row.
LEMMA RoutePaths ==
  /\ Routes[1].path = <<"stock">>
  /\ Routes[2].path = <<"stock", ":slot_id">>
  /\ Routes[3].path = <<"balance">>
  /\ Routes[4].path = <<"orders">>
  /\ Routes[5].path = <<"items", ":item_id">>
  /\ Routes[6].path = <<"debug", "slow">>
  /\ Routes[7].path = <<"users", "lookup">>
  BY DEF Routes

\* Sequences of one and of two names.
LEMMA OneOrTwo ==
  ASSUME NEW S, NEW x \in S, NEW y \in S
  PROVE  /\ <<x>> \in Seq(S) /\ Len(<<x>>) = 1 /\ <<x>>[1] = x
         /\ <<x, y>> \in Seq(S) /\ Len(<<x, y>>) = 2 /\ <<x, y>>[1] = x
  OBVIOUS

\* The names of routes.
RouteNames == {"stock", "balance", "orders", "items", "debug", "users", "slow", "lookup"}
                \cup Wild

\* Every route has names, and begins with one that is not a wildcard.
LEMMA RouteShape ==
  /\ DOMAIN Routes = 1..7
  /\ \A k \in DOMAIN Routes : /\ Routes[k].path \in Seq(RouteNames)
                              /\ Len(Routes[k].path) \in {1, 2}
                              /\ Routes[k].path[1] \notin Wild
<1>1. DOMAIN Routes = 1..7 BY DEF Routes
<1> DEFINE Good(p) == p \in Seq(RouteNames) /\ Len(p) \in {1, 2} /\ p[1] \notin Wild
<1>2. ASSUME NEW x \in RouteNames, NEW y \in RouteNames, x \notin Wild
      PROVE  Good(<<x>>) /\ Good(<<x, y>>)
  BY <1>2, OneOrTwo
<1>3. \A x \in {"stock", "balance", "orders", "items", "debug", "users"} :
        x \in RouteNames /\ x \notin Wild
  BY DEF Wild, RouteNames
<1>4. \A x \in {"slow", "lookup", ":slot_id", ":item_id"} : x \in RouteNames
  BY DEF Wild, RouteNames
<1> HIDE DEF Good
<1>5. ASSUME NEW k \in 1..7 PROVE Good(Routes[k].path)
  <2>1. Good(<<"stock">>) BY <1>2, <1>3, <1>4
  <2>2. Good(<<"stock", ":slot_id">>) BY <1>2, <1>3, <1>4
  <2>3. Good(<<"balance">>) BY <1>2, <1>3, <1>4
  <2>4. Good(<<"orders">>) BY <1>2, <1>3, <1>4
  <2>5. Good(<<"items", ":item_id">>) BY <1>2, <1>3, <1>4
  <2>6. Good(<<"debug", "slow">>) BY <1>2, <1>3, <1>4
  <2>7. Good(<<"users", "lookup">>) BY <1>2, <1>3, <1>4
  <2>8. k = 1 \/ k = 2 \/ k = 3 \/ k = 4 \/ k = 5 \/ k = 6 \/ k = 7 OBVIOUS
  <2>9. QED BY <2>1, <2>2, <2>3, <2>4, <2>5, <2>6, <2>7, <2>8, RoutePaths
<1>6. QED BY <1>1, <1>5 DEF Good

\* Only /stock and /stock/:slot_id begin with the same name.
LEMMA FirstNames ==
  ASSUME NEW j \in DOMAIN Routes, NEW k \in DOMAIN Routes,
         Routes[j].path[1] = Routes[k].path[1]
  PROVE  j = k \/ {j, k} = {1, 2}
<1>1. /\ Routes[1].path[1] = "stock" /\ Routes[2].path[1] = "stock"
      /\ Routes[3].path[1] = "balance" /\ Routes[4].path[1] = "orders"
      /\ Routes[5].path[1] = "items" /\ Routes[6].path[1] = "debug"
      /\ Routes[7].path[1] = "users"
  BY RoutePaths
<1>2. j \in 1..7 /\ k \in 1..7 BY RouteShape
<1>3. QED BY <1>1, <1>2

\* Two routes that begin alike share no method.
LEMMA OneFunction ==
  ASSUME NEW j \in DOMAIN Routes, NEW k \in DOMAIN Routes,
         Routes[j].path[1] = Routes[k].path[1],
         NEW m, m \in DOMAIN Routes[j].fn, m \in DOMAIN Routes[k].fn
  PROVE  j = k
<1>1. DOMAIN Routes[1].fn = {"GET"} /\ DOMAIN Routes[2].fn = {"PATCH"}
  BY DEF Routes
<1>2. CASE {j, k} = {1, 2}
  <2>1. (j = 1 \/ j = 2) /\ (k = 1 \/ k = 2) BY <1>2
  <2>2. QED BY <1>1, <2>1
<1>3. QED BY <1>2, FirstNames

\* No two routes are the same.
LEMMA OneRoute ==
  ASSUME NEW j \in DOMAIN Routes, NEW k \in DOMAIN Routes,
         Routes[j].path = Routes[k].path
  PROVE  j = k
<1>1. Len(Routes[1].path) = 1 /\ Len(Routes[2].path) = 2 BY RoutePaths
<1>2. CASE {j, k} = {1, 2}
  <2>1. (j = 1 \/ j = 2) /\ (k = 1 \/ k = 2) BY <1>2
  <2>2. QED BY <1>1, <2>1
<1>3. QED BY <1>2, FirstNames

\* The payload of a node is the route that ends there.
LEMMA PayloadRoute ==
  ASSUME NEW n
  PROVE  \/ Payload(n) = 0
         \/ Payload(n) \in DOMAIN Routes /\ Routes[Payload(n)].path = n
<1> DEFINE ends == {k \in DOMAIN Routes : Routes[k].path = n}
<1>1. CASE ends = {} BY <1>1 DEF Payload
<1>2. CASE ends # {}
  <2>1. PICK k \in DOMAIN Routes : Routes[k].path = n BY <1>2
  <2>2. ends = {k} BY <2>1, OneRoute
  <2>3. k \in 1..7 BY RouteShape
  <2>4. Max({k}) = k BY <2>3 DEF Max
  <2>5. Payload(n) = k BY <1>2, <2>2, <2>4 DEF Payload
  <2>6. QED BY <2>1, <2>5
<1>3. QED BY <1>1, <1>2

\* A set of numbers has a least one.
LEMMA MinNat ==
  ASSUME NEW S, S \subseteq Nat, S # {}
  PROVE  Min(S) \in S /\ \A y \in S : Min(S) <= y
<1>1. PICK x \in S : \A y \in S : ~(<<y, x>> \in OpToRel(<, Nat))
  BY NatLessThanWellFounded, WFMin
<1>2. ASSUME NEW y \in S PROVE x <= y
  <2>1. x \in Nat /\ y \in Nat OBVIOUS
  <2>2. ~(y < x) BY <1>1, <2>1 DEF OpToRel
  <2>3. QED BY <2>1, <2>2
<1>3. QED BY <1>2 DEF Min

-----------------------------------------------------------------------------
(* The tree.                                                               *)

\* A node is a prefix of a route.
LEMMA NodeShape ==
  ASSUME NEW n
  PROVE  n \in Nodes <=> \E k \in DOMAIN Routes : \E i \in 0..Len(Routes[k].path) :
                           n = SubSeq(Routes[k].path, 1, i)
  BY DEF Nodes

\* Prefixes of routes.
LEMMA Prefix ==
  ASSUME NEW k \in DOMAIN Routes, NEW i \in 0..Len(Routes[k].path)
  PROVE  LET n == SubSeq(Routes[k].path, 1, i) IN
         /\ n \in Seq(RouteNames) /\ Len(n) = i
         /\ i = 0 => n = <<>>
         /\ i # 0 => n # <<>> /\ n[1] = Routes[k].path[1]
<1> DEFINE p == Routes[k].path
           n == SubSeq(p, 1, i)
<1>1. p \in Seq(RouteNames) BY RouteShape
<1> HIDE DEF p
<1>2. i \in Nat /\ i <= Len(p) /\ Len(p) \in Nat BY <1>1 DEF p
<1>3. n \in Seq(RouteNames) /\ Len(n) = i BY <1>1, <1>2
<1>4. i # 0 => n[1] = p[1] BY <1>1, <1>2
<1>5. i = 0 => n = <<>> BY <1>3
<1>6. i # 0 => n # <<>> BY <1>3
<1>7. QED BY <1>3, <1>4, <1>5, <1>6 DEF p

\* The root and NULL.
LEMMA RootAndMissing == <<>> \in Nodes /\ Missing \notin Nodes /\ Missing # <<>>
<1>1. <<>> \in Nodes
  <2>1. 1 \in DOMAIN Routes /\ Len(Routes[1].path) \in {1, 2} BY RouteShape
  <2>2. 0 \in 0..Len(Routes[1].path) BY <2>1
  <2>3. SubSeq(Routes[1].path, 1, 0) = <<>> BY <2>1, <2>2, Prefix
  <2>4. QED BY <2>1, <2>2, <2>3, NodeShape
<1>2. Missing # <<>> BY DEF Missing
<1>3. ASSUME Missing \in Nodes PROVE FALSE
  <2>1. PICK k \in DOMAIN Routes : \E i \in 0..Len(Routes[k].path) :
          Missing = SubSeq(Routes[k].path, 1, i)
    BY <1>3, NodeShape
  <2>2. Missing[1] = Routes[k].path[1] BY <1>2, <2>1, Prefix
  <2>3. Missing[1] = Garbage BY DEF Missing
  <2>4. 1 \in DOMAIN Routes[k].path BY RouteShape
  <2>5. QED BY <2>2, <2>3, <2>4, RouterAssumption
<1>4. QED BY <1>1, <1>2, <1>3

\* Below the root there is no wildcard: a search begins with a name as it is.
LEMMA ChildOfRoot ==
  ASSUME NEW name
  PROVE  /\ Child(<<>>, name) \in Nodes \cup {Missing}
         /\ Child(<<>>, name) # <<>>
         /\ Child(<<>>, name) # Missing
              => Child(<<>>, name)[1] = name /\ name # Garbage
<1>1. WildRoutes(<<>>) = {}
  BY RouteShape DEF WildRoutes
<1>2. Append(<<>>, name) = <<name>> OBVIOUS
<1>3. Child(<<>>, name) = IF <<name>> \in Nodes THEN <<name>> ELSE Missing
  BY <1>1, <1>2 DEF Child
<1>4. QED BY <1>3, RootAndMissing DEF Missing

\* Deeper down a search stays under the name it began with.
LEMMA ChildBelow ==
  ASSUME NEW n \in Nodes, n # <<>>, NEW name
  PROVE  \/ Child(n, name) = Missing
         \/ /\ Child(n, name) \in Nodes /\ Child(n, name) # <<>>
            /\ Child(n, name)[1] = n[1]
<1>1. PICK j \in DOMAIN Routes : \E i \in 0..Len(Routes[j].path) :
        n = SubSeq(Routes[j].path, 1, i)
  BY NodeShape
<1>2. n \in Seq(RouteNames) /\ Len(n) # 0
  BY <1>1, Prefix
<1>3. CASE Append(n, name) \in Nodes
  <2>1. Child(n, name) = Append(n, name) BY <1>3 DEF Child
  <2>2. n \in Seq(RouteNames \cup {name}) /\ Len(n) \in Nat \ {0} BY <1>2
  <2>3. Append(n, name) # <<>> /\ Append(n, name)[1] = n[1] BY <2>2
  <2>4. QED BY <1>3, <2>1, <2>3
<1>4. CASE Append(n, name) \notin Nodes /\ WildRoutes(n) # {}
  <2> DEFINE k == Min(WildRoutes(n))
  <2>1. WildRoutes(n) \subseteq 1..7 BY RouteShape DEF WildRoutes
  <2>2. k \in WildRoutes(n) BY <1>4, <2>1, MinNat
  <2>3. Child(n, name) = SubSeq(Routes[k].path, 1, Len(n) + 1)
    BY <1>4 DEF Child
  <2> HIDE DEF k
  <2>4. /\ k \in DOMAIN Routes /\ Len(Routes[k].path) > Len(n)
        /\ SubSeq(Routes[k].path, 1, Len(n)) = n
    BY <2>2 DEF WildRoutes
  <2>5. Len(Routes[k].path) \in Nat /\ Len(n) \in Nat \ {0} BY <1>2, <2>4, RouteShape
  <2>6. Len(n) \in 0..Len(Routes[k].path) /\ Len(n) + 1 \in 0..Len(Routes[k].path)
    BY <2>4, <2>5
  <2>7. n[1] = Routes[k].path[1] BY <2>4, <2>5, <2>6, Prefix
  <2>8. /\ SubSeq(Routes[k].path, 1, Len(n) + 1) # <<>>
        /\ SubSeq(Routes[k].path, 1, Len(n) + 1)[1] = Routes[k].path[1]
    <3> DEFINE m == Len(n) + 1
    <3>1. m \in 0..Len(Routes[k].path) /\ m # 0 BY <2>5, <2>6
    <3> HIDE DEF m
    <3>2. SubSeq(Routes[k].path, 1, m) # <<>> /\ SubSeq(Routes[k].path, 1, m)[1] = Routes[k].path[1]
      BY <2>4, <3>1, Prefix
    <3>3. QED BY <3>2 DEF m
  <2>9. SubSeq(Routes[k].path, 1, Len(n) + 1) \in Nodes BY <2>4, <2>6, NodeShape
  <2>10. QED BY <2>3, <2>7, <2>8, <2>9
<1>5. CASE Append(n, name) \notin Nodes /\ WildRoutes(n) = {} BY <1>5 DEF Child
<1>6. QED BY <1>3, <1>4, <1>5

\* dispatch answers with a status or calls a function of the table.
LEMMA AnswerType ==
  ASSUME NEW n, NEW r
  PROVE  Answer(n, r) \in Statuses \cup HandlerFns
  BY PayloadRoute DEF Answer, Statuses, HandlerFns

-----------------------------------------------------------------------------
(* The searches.                                                           *)

\* The places of a path.
LEMMA PathShape ==
  ASSUME NEW r \in Requests
  PROVE  DOMAIN r.path \subseteq Nat \ {0}
<1>1. r.path \in Seq(Parts) BY RouterAssumption
<1>2. Len(r.path) \in Nat /\ DOMAIN r.path = 1..Len(r.path) BY <1>1
<1> DEFINE n == Len(r.path)
<1> HIDE DEF n
<1>3. n \in Nat => 1..n \subseteq Nat \ {0} OBVIOUS
<1>4. QED BY <1>2, <1>3 DEF n

\* The first part of a request, where it has one.
LEMMA FirstPart ==
  ASSUME NEW r \in Requests
  PROVE  /\ Filled(r) \subseteq Nat \ {0}
         /\ Filled(r) # {} => First(r) \in Filled(r) /\ \A i \in Filled(r) : First(r) <= i
<1>1. Filled(r) \subseteq Nat \ {0} BY PathShape DEF Filled
<1>2. Filled(r) # {} => First(r) \in Filled(r) /\ \A i \in Filled(r) : First(r) <= i
  BY <1>1, MinNat DEF First
<1>3. QED BY <1>1, <1>2

\* What strtok may find from a pointer p into a copy that is not freed.
LEMMA LookLive ==
  ASSUME NEW p \in Pointer, ~Dangling(p), NEW f \in Look(p)
  PROVE  LET path  == req[p.buf].path
             later == {i \in DOMAIN path : i > p.at /\ path[i] # ""}
         IN  \/ f.tok = 0 /\ f.next = [p EXCEPT !.nul = TRUE]
             \/ /\ later # {} /\ f.tok = Min(later)
                /\ \E b \in BOOLEAN : f.next = [buf |-> p.buf, at |-> Min(later), nul |-> b]
<1> DEFINE path  == req[p.buf].path
           later == {i \in DOMAIN path : i > p.at /\ path[i] # ""}
           b     == Min(later) = Len(path) \/ Min(later) \in cut[p.buf]
           none  == [tok |-> 0, next |-> [p EXCEPT !.nul = TRUE]]
           found == [tok |-> Min(later), next |-> [buf |-> p.buf, at |-> Min(later), nul |-> b]]
<1>1. Look(p) = IF p.nul \/ later = {} THEN {none}
                ELSE {found} \cup {g \in {none} : 0 \in cut[p.buf]}
  BY Zenon DEF Look
<1>2. b \in BOOLEAN OBVIOUS
<1>3. f = none \/ (later # {} /\ f = found)
  <2> HIDE DEF none, found, later
  <2>1. QED BY <1>1
<1> HIDE DEF later, b, path
<1>4. none.tok = 0 /\ none.next = [p EXCEPT !.nul = TRUE] OBVIOUS
<1>5. found.tok = Min(later) /\ found.next = [buf |-> p.buf, at |-> Min(later), nul |-> b]
  OBVIOUS
<1> HIDE DEF none, found
<1>6. \/ f.tok = 0 /\ f.next = [p EXCEPT !.nul = TRUE]
      \/ /\ later # {} /\ f.tok = Min(later)
         /\ \E x \in BOOLEAN : f.next = [buf |-> p.buf, at |-> Min(later), nul |-> x]
  BY <1>2, <1>3, <1>4, <1>5
<1>7. QED BY <1>6 DEF later, path

\* What strtok finds has the right type, in the buffer it was pointed at.
LEMMA LookType ==
  ASSUME TypeOK, NEW p \in Pointer, NEW f \in Look(p)
  PROVE  f.tok \in Nat /\ f.next \in Pointer /\ f.next.buf = p.buf
<1> DEFINE path  == req[p.buf].path
           later == {i \in DOMAIN path : i > p.at /\ path[i] # ""}
<1>1. CASE Dangling(p) BY <1>1 DEF Look, Pointer
<1>2. CASE ~Dangling(p)
  <2>1. req[p.buf] \in Requests BY <1>2 DEF Dangling, TypeOK
  <2>2. later \subseteq Nat BY <2>1, PathShape
  <2>3. later # {} => Min(later) \in Nat BY <2>2, MinNat
  <2>4. \/ f.tok = 0 /\ f.next = [p EXCEPT !.nul = TRUE]
        \/ /\ later # {} /\ f.tok = Min(later)
           /\ \E b \in BOOLEAN : f.next = [buf |-> p.buf, at |-> Min(later), nul |-> b]
    BY <1>2, LookLive
  <2> HIDE DEF later
  <2>5. [p EXCEPT !.nul = TRUE] \in Pointer /\ [p EXCEPT !.nul = TRUE].buf = p.buf
    BY DEF Pointer
  <2>6. CASE f.tok = 0 /\ f.next = [p EXCEPT !.nul = TRUE]
    BY <2>5, <2>6
  <2>7. CASE /\ later # {} /\ f.tok = Min(later)
             /\ \E b \in BOOLEAN : f.next = [buf |-> p.buf, at |-> Min(later), nul |-> b]
    <3>1. p.buf \in Calls \cup {NoCall} BY DEF Pointer
    <3>2. \A b \in BOOLEAN : [buf |-> p.buf, at |-> Min(later), nul |-> b] \in Pointer
      BY <2>3, <2>7, <3>1 DEF Pointer
    <3>3. QED BY <2>3, <2>7, <3>2
  <2>8. QED BY <2>4, <2>6, <2>7
<1>3. QED BY <1>1, <1>2

\* The first look of a search is at its own first part.
LEMMA FirstLook ==
  ASSUME TypeOK, NEW c \in Calls, pc[c] = "scan", s[c].buf = c, s[c].at = 0,
         NEW f \in Look(s[c]), f.tok # 0
  PROVE  Filled(req[c]) # {} /\ f.tok = First(req[c])
<1>1. ~Dangling(s[c]) BY DEF Dangling
<1>2. req[c] \in Requests /\ s[c] \in Pointer BY DEF TypeOK
<1>3. DOMAIN req[c].path \subseteq Nat \ {0} BY <1>2, PathShape
<1>4. Filled(req[c]) = {i \in DOMAIN req[c].path : i > 0 /\ req[c].path[i] # ""}
  <2>1. \A i \in DOMAIN req[c].path : i > 0 BY <1>3
  <2>2. QED BY <2>1, Zenon DEF Filled
<1>5. Filled(req[c]) = {i \in DOMAIN req[s[c].buf].path :
                          i > s[c].at /\ req[s[c].buf].path[i] # ""}
  BY <1>4
<1>6. QED BY <1>1, <1>2, <1>5, LookLive DEF First

\* The invariant holds at first.
LEMMA InitInv == Init => IndInv
<1> SUFFICES ASSUME Init PROVE IndInv
  OBVIOUS
<1>1. TypeOK
  BY RootAndMissing DEF Init, TypeOK, Pointer
<1>2. ASSUME NEW c \in Calls PROVE CallInv(c)
  BY RootAndMissing DEF Init, CallInv
<1>3. QED BY <1>1, <1>2 DEF IndInv

\* A call is not affected by what does not touch its own variables.
LEMMA Untouched ==
  ASSUME NEW d \in Calls, CallInv(d), req' = req, pc'[d] = pc[d], s'[d] = s[d],
         tok'[d] = tok[d], node'[d] = node[d], answer'[d] = answer[d]
  PROVE  CallInv(d)'
  BY DEF CallInv

\* So a step of call c has to be looked at from c's side only.
LEMMA OneCall ==
  ASSUME IndInv, NEW c \in Calls, TypeOK', req' = req, CallInv(c)',
         \A d \in Calls \ {c} : /\ pc'[d] = pc[d] /\ s'[d] = s[d] /\ tok'[d] = tok[d]
                                /\ node'[d] = node[d] /\ answer'[d] = answer[d]
  PROVE  IndInv'
  BY Untouched DEF IndInv

\* router_route copies the path and calls search: IndInv is kept.
LEMMA StartInv == ASSUME IndInv, NEW c \in Calls, Start(c) PROVE IndInv'
<1> USE DEF Start
<1>1. TypeOK' BY DEF IndInv, TypeOK, Searching
<1>2. CallInv(c)' BY DEF IndInv, TypeOK, CallInv
<1>3. QED BY <1>1, <1>2, OneCall DEF IndInv, TypeOK

\* strtok(NULL) reads the pointer that the searches share: IndInv is kept.
LEMMA LoadInv == ASSUME IndInv, NEW c \in Calls, Load(c) PROVE IndInv'
<1> USE DEF Load
<1>1. TypeOK' BY DEF IndInv, TypeOK, Searching
<1>2. CallInv(c)' BY DEF IndInv, TypeOK, CallInv
<1>3. QED BY <1>1, <1>2, OneCall DEF IndInv, TypeOK

\* strtok looks for the next name, through what may be freed memory: IndInv is kept.
LEMMA ScanInv == ASSUME IndInv, NEW c \in Calls, Scan(c) PROVE IndInv'
<1>1. TypeOK /\ CallInv(c) /\ s[c] \in Pointer BY DEF IndInv, TypeOK
<1>2. PICK f \in Look(s[c]) : tok' = [tok EXCEPT ![c] = f.tok] /\ s' = [s EXCEPT ![c] = f.next]
  BY DEF Scan
<1>3. f.tok \in Nat /\ f.next \in Pointer /\ f.next.buf = s[c].buf
  BY <1>1, LookType
<1>4. /\ pc[c] = "scan" /\ pc' = [pc EXCEPT ![c] = "store"]
      /\ UNCHANGED <<req, olds, cut, node, answer, disturbed>>
  BY DEF Scan
<1>5. TypeOK' BY <1>1, <1>2, <1>3, <1>4 DEF TypeOK, Searching
<1>6. tok'[c] = f.tok /\ s'[c] = f.next /\ pc'[c] = "store"
  BY <1>1, <1>2, <1>4 DEF TypeOK
<1>7. node[c] = <<>> => s'[c].buf = c
  BY <1>1, <1>3, <1>4, <1>6 DEF CallInv
<1>8. node[c] = <<>> /\ f.tok # 0 => Filled(req[c]) # {} /\ f.tok = First(req[c])
  <2>1. node[c] = <<>> => s[c].buf = c /\ s[c].at = 0 BY <1>1, <1>4 DEF CallInv
  <2>2. QED BY <1>1, <1>4, <2>1, FirstLook
<1>9. CallInv(c)' BY <1>1, <1>4, <1>6, <1>7, <1>8 DEF CallInv
<1>10. QED BY <1>1, <1>2, <1>4, <1>5, <1>9, OneCall DEF TypeOK

\* strtok's '\0' leaves cut a set of places for every call.
LEMMA CutsType ==
  ASSUME TypeOK, NEW c \in Calls, NEW x \in Cuts(c)
  PROVE  x \in [Calls -> SUBSET Nat]
<1>1. s[c] \in Pointer /\ s[c].at \in Nat /\ cut \in [Calls -> SUBSET Nat]
  BY DEF TypeOK, Pointer
<1>2. ASSUME NEW d \in Calls, NEW i \in Nat
      PROVE  [cut EXCEPT ![d] = @ \cup {i}] \in [Calls -> SUBSET Nat]
  BY <1>1
<1>3. \/ x = cut
      \/ ~Dangling(s[c]) /\ x = [cut EXCEPT ![s[c].buf] = @ \cup {s[c].at}]
      \/ \E d \in Calls : \E i \in {0, 1, 2} : x = [cut EXCEPT ![d] = @ \cup {i}]
  <2>1. CASE tok[c] = 0 \/ (~Dangling(s[c]) /\ s[c].nul) BY <2>1 DEF Cuts
  <2>2. CASE tok[c] # 0 /\ ~Dangling(s[c]) /\ ~s[c].nul BY <2>2 DEF Cuts
  <2>3. CASE tok[c] # 0 /\ Dangling(s[c]) BY <2>3 DEF Cuts
  <2>4. QED BY <2>1, <2>2, <2>3
<1>4. ~Dangling(s[c]) => s[c].buf \in Calls BY DEF Dangling
<1>5. QED BY <1>1, <1>2, <1>3, <1>4

\* strtok ends the name and saves the pointer for everyone: IndInv is kept.
LEMMA StoreInv == ASSUME IndInv, NEW c \in Calls, Store(c) PROVE IndInv'
<1>1. TypeOK /\ CallInv(c) BY DEF IndInv
<1>2. /\ pc[c] = "store" /\ pc' = [pc EXCEPT ![c] = "descend"]
      /\ olds' = s[c] /\ UNCHANGED <<req, s, tok, node, answer>>
  BY DEF Store
<1>3. cut' \in [Calls -> SUBSET Nat] BY <1>1, CutsType DEF Store
<1>4. disturbed' \in [Calls -> BOOLEAN] BY <1>1 DEF Store, TypeOK
<1>5. TypeOK' BY <1>1, <1>2, <1>3, <1>4 DEF TypeOK, Searching
<1>6. CallInv(c)' BY <1>1, <1>2 DEF CallInv, TypeOK
<1>7. QED BY <1>1, <1>2, <1>5, <1>6, OneCall DEF TypeOK

\* search goes down to the child of that name: IndInv is kept.
LEMMA DescendInv == ASSUME IndInv, NEW c \in Calls, Descend(c) PROVE IndInv'
<1>1. TypeOK /\ CallInv(c) BY DEF IndInv
<1>2. pc[c] = "descend" /\ UNCHANGED <<req, olds, cut, s, tok, answer, disturbed>>
  BY DEF Descend
<1>3. CASE tok[c] = 0
  <2>1. pc' = [pc EXCEPT ![c] = "found"] /\ UNCHANGED node BY <1>3 DEF Descend
  <2>2. TypeOK' BY <1>1, <1>2, <2>1 DEF TypeOK, Searching
  <2>3. CallInv(c)' BY <1>1, <1>2, <2>1 DEF TypeOK, CallInv
  <2>4. QED BY <1>1, <1>2, <2>1, <2>2, <2>3, OneCall DEF TypeOK
<1>4. CASE tok[c] # 0
  <2>1. PICK name \in Names(c) : node' = [node EXCEPT ![c] = Child(node[c], name)]
    BY <1>4 DEF Descend
  <2>2. pc' = [pc EXCEPT ![c] = IF node'[c] = Missing THEN "found" ELSE "load"]
    BY <1>4 DEF Descend
  <2> DEFINE n == Child(node[c], name)
             GoodNode == /\ n \in Nodes \cup {Missing} /\ n # <<>>
                         /\ n # Missing => /\ Filled(req[c]) # {}
                                           /\ n[1] = req[c].path[First(req[c])]
  <2>3. node[c] \in Nodes BY <1>1, <1>2 DEF TypeOK, CallInv
  <2>4. ASSUME node[c] = <<>> PROVE GoodNode
    <3>1. s[c].buf = c /\ Filled(req[c]) # {} /\ tok[c] = First(req[c])
      BY <1>1, <1>2, <1>4, <2>4 DEF CallInv
    <3>2. ~Dangling(s[c]) BY <1>2, <3>1 DEF Dangling
    <3>3. name = req[c].path[First(req[c])] \/ name = Garbage
      BY <3>1, <3>2 DEF Names
    <3>4. /\ n \in Nodes \cup {Missing} /\ n # <<>>
          /\ n # Missing => n[1] = name /\ name # Garbage
      BY <2>4, ChildOfRoot
    <3>5. QED BY <3>1, <3>3, <3>4
  <2>5. ASSUME node[c] # <<>> PROVE GoodNode
    <3>1. node[c] # Missing BY <1>1, <1>2 DEF CallInv
    <3>2. Filled(req[c]) # {} /\ node[c][1] = req[c].path[First(req[c])]
      BY <1>1, <2>5, <3>1 DEF CallInv
    <3>3. n = Missing \/ (n \in Nodes /\ n # <<>> /\ n[1] = node[c][1])
      BY <2>3, <2>5, ChildBelow
    <3>4. QED BY <3>2, <3>3, RootAndMissing
  <2>6. GoodNode BY <2>4, <2>5
  <2> HIDE DEF n
  <2>7. node'[c] = n BY <1>1, <2>1 DEF TypeOK, n
  <2>8. /\ pc'[c] \in {"found", "load"} /\ (pc'[c] = "load" => n # Missing)
    BY <1>1, <2>2, <2>7 DEF TypeOK
  <2>9. TypeOK'
    <3>1. node' \in [Calls -> Nodes \cup {Missing}] BY <1>1, <2>1, <2>6 DEF TypeOK, n
    <3>2. pc' \in [Calls -> {"idle", "done"} \cup Searching]
      BY <1>1, <2>2 DEF TypeOK, Searching
    <3>3. QED BY <1>1, <1>2, <3>1, <3>2 DEF TypeOK
  <2>10. CallInv(c)' BY <1>2, <2>6, <2>7, <2>8 DEF CallInv
  <2>11. QED BY <1>1, <1>2, <2>1, <2>2, <2>9, <2>10, OneCall DEF TypeOK
<1>5. QED BY <1>3, <1>4

\* router_route calls the handler that was found: IndInv is kept.
LEMMA DispatchInv == ASSUME IndInv, NEW c \in Calls, Dispatch(c) PROVE IndInv'
<1>1. TypeOK /\ CallInv(c) BY DEF IndInv
<1>2. /\ pc[c] = "found" /\ pc' = [pc EXCEPT ![c] = "done"]
      /\ answer' = [answer EXCEPT ![c] = Answer(node[c], req[c])]
      /\ UNCHANGED <<req, olds, cut, s, tok, node, disturbed>>
  BY DEF Dispatch
<1>3. TypeOK' BY <1>1, <1>2, AnswerType DEF TypeOK
<1>4. CallInv(c)' BY <1>1, <1>2 DEF TypeOK, CallInv
<1>5. QED BY <1>1, <1>2, <1>3, <1>4, OneCall DEF TypeOK

\* Every step keeps the invariant.
LEMMA NextInv == IndInv /\ [Next]_vars => IndInv'
<1> SUFFICES ASSUME IndInv, [Next]_vars PROVE IndInv'
  OBVIOUS
<1>1. ASSUME NEW c \in Calls, Step(c) PROVE IndInv'
  BY <1>1, StartInv, LoadInv, ScanInv, StoreInv, DescendInv, DispatchInv DEF Step
<1>2. CASE UNCHANGED vars
  <2>1. TypeOK' BY <1>2 DEF vars, IndInv, TypeOK, Pointer
  <2>2. ASSUME NEW c \in Calls PROVE CallInv(c)'
    BY <1>2, Untouched DEF vars, IndInv
  <2>3. QED BY <2>1, <2>2 DEF IndInv
<1>3. QED BY <1>1, <1>2 DEF Next

-----------------------------------------------------------------------------
(* Searches that nobody disturbs.                                          *)

\* The parts of r behind place j that strtok has still to find.
Beyond(r, j) == {i \in Filled(r) : i > j}

\* n is where the parts of r up to place j lead: it has a name for each of them,
\* and every route that r matches passes through it.
Follows(r, j, n) ==
  /\ n \in Nodes /\ Len(n) = Cardinality(Filled(r) \cap 1..j)
  /\ \A i \in Filled(r) \cap 1..j : n[Cardinality(Filled(r) \cap 1..i)] \in Wild \cup {r.path[i]}
  /\ \A k \in Matching(r) : SubSeq(Routes[k].path, 1, Len(n)) = n

\* The pointer of c and the places cut into its copy are its own.
OwnPointer(c) ==
  /\ s[c].buf = c /\ cut[c] \subseteq 1..s[c].at
  /\ s[c].nul => Beyond(req[c], s[c].at) = {}

\* What holds of the search of c as long as nobody has disturbed it.
OwnSearch(c) ==
  /\ pc[c] \notin {"found", "done"} => OwnPointer(c)
  /\ pc[c] \in {"idle", "scan", "load"} => Follows(req[c], s[c].at, node[c])
  /\ pc[c] \in {"store", "descend"} /\ tok[c] = 0 =>
       Beyond(req[c], s[c].at) = {} /\ Follows(req[c], s[c].at, node[c])
  /\ pc[c] \in {"store", "descend"} /\ tok[c] # 0 =>
       /\ tok[c] = s[c].at /\ s[c].at \in Filled(req[c])
       /\ Follows(req[c], s[c].at - 1, node[c])
  /\ pc[c] \in {"descend", "load"} => olds = s[c]
  /\ pc[c] \in {"found", "done"} => Answer(node[c], req[c]) = Declared(req[c])

\* Nobody has a pointer into a copy that has not been made.
Unshared == \A c \in Calls : pc[c] = "idle" => /\ olds.buf # c
                                              /\ \A d \in Calls \ {c} : s[d].buf # c

RouteInv == IndInv /\ Unshared /\ \A c \in Calls : ~disturbed[c] => OwnSearch(c)

\* Under a node with a wildcard child there is no other child.
LEMMA OnlyWild ==
  ASSUME NEW j \in DOMAIN Routes, NEW k \in DOMAIN Routes, NEW m \in Nat,
         Len(Routes[j].path) > m, Len(Routes[k].path) > m,
         SubSeq(Routes[j].path, 1, m) = SubSeq(Routes[k].path, 1, m),
         Routes[k].path[m + 1] \in Wild
  PROVE  j = k
<1>1. /\ Len(Routes[k].path) \in {1, 2} /\ Len(Routes[j].path) \in {1, 2}
      /\ Routes[k].path[1] \notin Wild
  BY RouteShape
<1>2. m = 1 /\ Len(Routes[k].path) = 2 /\ Len(Routes[j].path) = 2
  <2>1. m + 1 # 1
    BY <1>1
  <2>2. \A a, b \in {1, 2} : a > m /\ b > m => m = 1 /\ a = 2 /\ b = 2
    BY <2>1
  <2> QED
    BY <1>1, <2>2
<1>3. 1 \in 0..Len(Routes[j].path) /\ 1 \in 0..Len(Routes[k].path)
  BY <1>2
<1>4. /\ SubSeq(Routes[j].path, 1, 1)[1] = Routes[j].path[1]
      /\ SubSeq(Routes[k].path, 1, 1)[1] = Routes[k].path[1]
  BY <1>3, Prefix
<1>5. Routes[j].path[1] = Routes[k].path[1]
  BY <1>2, <1>4
<1>6. Len(Routes[1].path) = 1
  BY RoutePaths
<1> QED
  BY <1>2, <1>5, <1>6, FirstNames

\* The payload where a route ends is that route.
LEMMA PayloadIs == ASSUME NEW k \in DOMAIN Routes PROVE Payload(Routes[k].path) = k
<1> DEFINE n == Routes[k].path
           ends == {j \in DOMAIN Routes : Routes[j].path = n}
<1>1. ends = {k}
  BY OneRoute
<1>2. Max({k}) = k
  <2>1. k \in 1..7
    BY RouteShape
  <2> QED
    BY <2>1 DEF Max
<1>3. Payload(n) = IF ends = {} THEN 0 ELSE Max(ends)
  BY DEF Payload
<1> HIDE DEF ends
<1> QED
  BY <1>1, <1>2, <1>3

\* How many parts there are up to a place.
LEMMA FilledUpto ==
  ASSUME NEW r \in Requests, NEW j \in Nat
  PROVE  /\ IsFiniteSet(Filled(r)) /\ Cardinality(Filled(r)) \in Nat
         /\ Cardinality(Filled(r) \cap 1..j) \in Nat
         /\ Cardinality(Filled(r) \cap 1..j) <= Cardinality(Filled(r))
         /\ Filled(r) \subseteq 1..Len(r.path) /\ Len(r.path) \in Nat
         /\ Beyond(r, j) = {} => Filled(r) \cap 1..j = Filled(r)
<1>1. r.path \in Seq(Parts)
  BY RouterAssumption
<1>2. Len(r.path) \in Nat /\ Filled(r) \subseteq 1..Len(r.path)
  <2>1. Len(r.path) \in Nat /\ DOMAIN r.path = 1..Len(r.path)
    BY <1>1
  <2>2. Filled(r) \subseteq DOMAIN r.path
    BY Zenon DEF Filled
  <2> QED
    BY <2>1, <2>2
<1> DEFINE F == Filled(r)
           m == Len(r.path)
<1>3. IsFiniteSet(1..m)
  BY <1>2, FS_Interval
<1> HIDE DEF m, F
<1>4. IsFiniteSet(F)
  BY <1>2, <1>3, FS_Subset DEF m, F
<1>5. IsFiniteSet(F \cap 1..j) /\ Cardinality(F \cap 1..j) <= Cardinality(F)
  BY <1>4, FS_Subset
<1>6. Cardinality(F) \in Nat /\ Cardinality(F \cap 1..j) \in Nat
  BY <1>4, <1>5, FS_CardinalityType
<1>7. Beyond(r, j) = {} => F \cap 1..j = F
  <2>1. \A i \in F : i \in Nat \ {0}
    BY <1>2 DEF F
  <2> QED
    BY <2>1 DEF Beyond, F
<1> QED
  BY <1>2, <1>4, <1>5, <1>6, <1>7 DEF F

\* One part more.
LEMMA FilledStep ==
  ASSUME NEW r \in Requests, NEW i \in Filled(r)
  PROVE  /\ i \in Nat \ {0} /\ i - 1 \in Nat
         /\ Cardinality(Filled(r) \cap 1..i) = Cardinality(Filled(r) \cap 1..(i - 1)) + 1
         /\ \A h \in Filled(r) \cap 1..(i - 1) :
              Cardinality(Filled(r) \cap 1..h) \in 1..Cardinality(Filled(r) \cap 1..(i - 1))
<1> DEFINE F == Filled(r)
<1>1. F \subseteq Nat \ {0}
  BY FirstPart
<1>2. i \in Nat \ {0} /\ i - 1 \in Nat
  BY <1>1
<1>3. IsFiniteSet(F)
  BY <1>2, FilledUpto
<1> HIDE DEF F
<1>4. \A j \in Nat : IsFiniteSet(F \cap 1..j) /\ Cardinality(F \cap 1..j) \in Nat
  BY <1>3, FS_Subset, FS_CardinalityType
<1>5. F \cap 1..i = (F \cap 1..(i - 1)) \cup {i} /\ i \notin F \cap 1..(i - 1)
  <2>1. 1..i = 1..(i - 1) \cup {i}
    BY <1>2
  <2> QED
    BY <1>2, <2>1 DEF F
<1>6. Cardinality(F \cap 1..i) = Cardinality(F \cap 1..(i - 1)) + 1
  BY <1>2, <1>4, <1>5, FS_AddElement
<1>7. ASSUME NEW h \in F \cap 1..(i - 1)
      PROVE  Cardinality(F \cap 1..h) \in 1..Cardinality(F \cap 1..(i - 1))
  <2>1. h \in Nat \ {0} /\ h <= i - 1
    BY <1>1, <1>2
  <2>2. F \cap 1..h \subseteq F \cap 1..(i - 1)
    BY <1>2, <2>1
  <2>3. Cardinality(F \cap 1..h) <= Cardinality(F \cap 1..(i - 1))
    BY <1>2, <1>4, <2>2, FS_Subset
  <2>4. h \in F \cap 1..h
    BY <2>1
  <2>5. Cardinality(F \cap 1..h) # 0
    BY <1>4, <2>1, <2>4, FS_EmptySet
  <2> QED
    BY <1>2, <1>4, <2>1, <2>3, <2>5
<1> QED
  BY <1>2, <1>6, <1>7 DEF F

\* The names of a route up to one of its nodes.
LEMMA Through ==
  ASSUME NEW k \in DOMAIN Routes, NEW n, NEW L \in Nat, Len(n) = L, Len(Routes[k].path) > L,
         SubSeq(Routes[k].path, 1, L) = n, n \in Nodes
  PROVE  /\ SubSeq(Routes[k].path, 1, L + 1) \in Nodes
         /\ SubSeq(Routes[k].path, 1, L + 1) = Append(n, Routes[k].path[L + 1])
         /\ Len(SubSeq(Routes[k].path, 1, L + 1)) = L + 1
         /\ \A i \in 1..L : SubSeq(Routes[k].path, 1, L + 1)[i] = n[i]
         /\ SubSeq(Routes[k].path, 1, L + 1)[L + 1] = Routes[k].path[L + 1]
<1> DEFINE p == Routes[k].path
           q == SubSeq(p, 1, L + 1)
<1>1. p \in Seq(RouteNames)
  BY RouteShape
<1> HIDE DEF p
<1>2. L + 1 \in 0..Len(p) /\ Len(p) \in Nat /\ Len(p) > L
  BY <1>1 DEF p
<1>3. q \in Nodes
  <2>1. \E i \in 0..Len(p) : q = SubSeq(p, 1, i)
    BY <1>2
  <2> QED
    BY <2>1, NodeShape DEF p
<1>4. q \in Seq(RouteNames) /\ Len(q) = L + 1 /\ \A i \in 1..(L + 1) : q[i] = p[i]
  BY <1>1, <1>2
<1>5. n \in Seq(RouteNames) /\ \A i \in 1..L : n[i] = p[i]
  BY <1>1, <1>2 DEF p
<1>6. q = Append(n, p[L + 1])
  <2>1. p[L + 1] \in RouteNames
    BY <1>1, <1>2
  <2>2. Append(n, p[L + 1]) \in Seq(RouteNames) /\ Len(Append(n, p[L + 1])) = L + 1
        /\ Append(n, p[L + 1])[L + 1] = p[L + 1]
        /\ \A i \in 1..L : Append(n, p[L + 1])[i] = n[i]
    BY <1>5, <2>1
  <2>3. \A i \in 1..(L + 1) : i \in 1..L \/ i = L + 1
    OBVIOUS
  <2>4. \A i \in 1..(L + 1) : Append(n, p[L + 1])[i] = q[i]
    BY <1>4, <1>5, <2>2, <2>3
  <2> HIDE DEF q
  <2> QED
    BY <1>4, <2>2, <2>4, SeqEqual
<1> QED
  BY <1>3, <1>4, <1>5, <1>6 DEF p

\* One turn of the loop of search_node: it goes on with the routes that match, or
\* no route matches.
LEMMA FollowsChild ==
  ASSUME NEW r \in Requests, NEW i \in Filled(r), NEW n, Follows(r, i - 1, n)
  PROVE  IF Child(n, r.path[i]) = Missing THEN Matching(r) = {}
                                          ELSE Follows(r, i, Child(n, r.path[i]))
<1> DEFINE name == r.path[i]
           L == Len(n)
           F == Filled(r)
           Count(h) == Cardinality(F \cap 1..h)
           c == Child(n, name)
<1>1. n \in Nodes /\ L = Count(i - 1)
  BY DEF Follows
<1>2. /\ i \in Nat \ {0} /\ i - 1 \in Nat /\ Count(i) = L + 1
      /\ \A h \in F \cap 1..(i - 1) : Count(h) \in 1..L
  BY <1>1, FilledStep
<1>3. L \in Nat /\ L + 1 <= Cardinality(F) /\ Cardinality(F) \in Nat
  BY <1>1, <1>2, FilledUpto
<1>4. ASSUME NEW k \in Matching(r)
      PROVE  /\ k \in DOMAIN Routes /\ Len(Routes[k].path) > L
             /\ Routes[k].path[L + 1] \in Wild \cup {name}
             /\ SubSeq(Routes[k].path, 1, L) = n
  <2>1. /\ k \in DOMAIN Routes /\ Cardinality(F) = Len(Routes[k].path)
        /\ \A h \in F : Routes[k].path[Count(h)] \in Wild \cup {r.path[h]}
    BY DEF Matching
  <2>2. Routes[k].path[L + 1] \in Wild \cup {name}
    BY <1>2, <2>1
  <2>3. SubSeq(Routes[k].path, 1, L) = n
    BY DEF Follows
  <2> QED
    BY <1>3, <2>1, <2>2, <2>3
<1>5. \A h \in F \cap 1..i : h = i \/ h \in F \cap 1..(i - 1)
  BY <1>2
<1>6. \A h \in F \cap 1..(i - 1) : n[Count(h)] \in Wild \cup {r.path[h]}
  BY DEF Follows
<1>a. Len(n) = L
  OBVIOUS
<1> HIDE DEF L, F, Count, name
<1>b. ASSUME NEW k \in Matching(r)
      PROVE  /\ SubSeq(Routes[k].path, 1, L + 1) = Append(n, Routes[k].path[L + 1])
             /\ Append(n, Routes[k].path[L + 1]) \in Nodes
  <2>1. /\ k \in DOMAIN Routes /\ Len(Routes[k].path) > L /\ SubSeq(Routes[k].path, 1, L) = n
    BY <1>4
  <2>2. n \in Nodes /\ L \in Nat
    BY <1>1, <1>3
  <2>3. /\ SubSeq(Routes[k].path, 1, L + 1) \in Nodes
        /\ SubSeq(Routes[k].path, 1, L + 1) = Append(n, Routes[k].path[L + 1])
    BY <1>a, <2>1, <2>2, Through
  <2> QED
    BY <2>3
<1>7. ASSUME NEW q, q \in Nodes, Len(q) = L + 1, \A h \in 1..L : q[h] = n[h],
             q[L + 1] \in Wild \cup {name},
             \A k \in Matching(r) : SubSeq(Routes[k].path, 1, L + 1) = q
      PROVE  Follows(r, i, q)
  <2>1. ASSUME NEW h \in F \cap 1..i PROVE q[Count(h)] \in Wild \cup {r.path[h]}
    <3>1. CASE h = i
      BY <1>2, <1>7, <3>1 DEF name
    <3>2. CASE h \in F \cap 1..(i - 1)
      BY <1>2, <1>6, <1>7, <3>2
    <3> QED
      BY <1>5, <3>1, <3>2
  <2> QED
    BY <1>2, <1>7, <2>1 DEF Follows, F, Count
<1>8. CASE Append(n, name) \in Nodes
  <2>1. c = Append(n, name) /\ c # Missing
    BY <1>8, RootAndMissing DEF Child
  <2>2. PICK j \in DOMAIN Routes : \E m \in 0..Len(Routes[j].path) :
          Append(n, name) = SubSeq(Routes[j].path, 1, m)
    BY <1>8, NodeShape
  <2>3. PICK m \in 0..Len(Routes[j].path) : Append(n, name) = SubSeq(Routes[j].path, 1, m)
    BY <2>2
  <2>4. PICK k0 \in DOMAIN Routes : \E m0 \in 0..Len(Routes[k0].path) : n = SubSeq(Routes[k0].path, 1, m0)
    BY <1>1, NodeShape
  <2>5. n \in Seq(RouteNames)
    BY <2>4, Prefix
  <2>6. /\ Append(n, name) \in Seq(RouteNames \cup {name}) /\ Len(Append(n, name)) = L + 1
        /\ Append(n, name)[L + 1] = name /\ \A h \in 1..L : Append(n, name)[h] = n[h]
    BY <2>5 DEF L
  <2>7. Len(SubSeq(Routes[j].path, 1, m)) = m
    BY Prefix
  <2>8. m = L + 1 /\ Len(Routes[j].path) > L /\ Len(Routes[j].path) \in Nat
    BY <1>3, <2>3, <2>6, <2>7, RouteShape
  <2>9. SubSeq(Routes[j].path, 1, L) = n
    <3> DEFINE p == Routes[j].path
    <3>1. p \in Seq(RouteNames) /\ Len(p) > L /\ Append(n, name) = SubSeq(p, 1, L + 1)
      BY <2>3, <2>8, RouteShape
    <3> HIDE DEF p
    <3>2. \A h \in 1..L : SubSeq(p, 1, L + 1)[h] = p[h]
      BY <1>3, <3>1
    <3>3. SubSeq(p, 1, L) \in Seq(RouteNames) /\ Len(SubSeq(p, 1, L)) = L
          /\ \A h \in 1..L : SubSeq(p, 1, L)[h] = p[h]
      BY <1>3, <3>1
    <3>4. \A h \in 1..L : SubSeq(p, 1, L)[h] = n[h]
      BY <2>6, <3>1, <3>2, <3>3
    <3>5. Len(n) = L
      BY DEF L
    <3>6. SubSeq(p, 1, L) = n
      BY <2>5, <3>3, <3>4, <3>5, SeqEqual
    <3> QED
      BY <3>6 DEF p
  <2>10. ASSUME NEW k \in Matching(r) PROVE SubSeq(Routes[k].path, 1, L + 1) = c
    <3>1. /\ k \in DOMAIN Routes /\ Len(Routes[k].path) > L
          /\ Routes[k].path[L + 1] \in Wild \cup {name}
          /\ SubSeq(Routes[k].path, 1, L) = n
      BY <1>4
    <3>2. CASE Routes[k].path[L + 1] = name
      <4>1. SubSeq(Routes[k].path, 1, L + 1) = Append(n, Routes[k].path[L + 1])
        BY <1>b
      <4> QED
        BY <2>1, <3>2, <4>1
    <3>3. CASE Routes[k].path[L + 1] \in Wild
      <4>1. j = k
        BY <1>3, <2>8, <2>9, <3>1, <3>3, OnlyWild
      <4> QED
        BY <2>1, <2>3, <2>8, <4>1
    <3> QED
      BY <3>1, <3>2, <3>3
  <2>11. Follows(r, i, c)
    BY <1>7, <1>8, <2>1, <2>6, <2>10
  <2> QED
    BY <2>1, <2>11 DEF name
<1>9. CASE Append(n, name) \notin Nodes
  <2>1. ASSUME NEW k \in Matching(r) PROVE k \in WildRoutes(n)
    <3>1. /\ k \in DOMAIN Routes /\ Len(Routes[k].path) > L
          /\ Routes[k].path[L + 1] \in Wild \cup {name}
          /\ SubSeq(Routes[k].path, 1, L) = n
      BY <1>4
    <3>2. Append(n, Routes[k].path[L + 1]) \in Nodes
      BY <1>b
    <3> QED
      BY <1>9, <3>1, <3>2 DEF WildRoutes, L
  <2>2. CASE WildRoutes(n) = {}
    <3>1. c = Missing
      BY <1>9, <2>2 DEF Child
    <3> QED
      BY <2>1, <2>2, <3>1 DEF name
  <2>3. CASE WildRoutes(n) # {}
    <3> DEFINE w == Min(WildRoutes(n))
    <3>1. WildRoutes(n) \subseteq Nat
      BY RouteShape DEF WildRoutes
    <3>2. w \in WildRoutes(n)
      BY <2>3, <3>1, MinNat
    <3>3. c = SubSeq(Routes[w].path, 1, L + 1)
      BY <1>9, <2>3 DEF Child, L
    <3> HIDE DEF w
    <3>4. /\ w \in DOMAIN Routes /\ Len(Routes[w].path) > L
          /\ SubSeq(Routes[w].path, 1, L) = n /\ Routes[w].path[L + 1] \in Wild
      BY <3>2 DEF WildRoutes, L
    <3>5. /\ c \in Nodes /\ Len(c) = L + 1 /\ \A h \in 1..L : c[h] = n[h]
          /\ c[L + 1] = Routes[w].path[L + 1]
      BY <1>1, <1>3, <1>a, <3>3, <3>4, Through
    <3>6. ASSUME NEW k \in Matching(r) PROVE SubSeq(Routes[k].path, 1, L + 1) = c
      <4>1. /\ k \in DOMAIN Routes /\ Len(Routes[k].path) > L /\ SubSeq(Routes[k].path, 1, L) = n
        BY <1>4
      <4>2. k = w
        BY <1>3, <3>4, <4>1, OnlyWild
      <4> QED
        BY <3>3, <4>2
    <3> HIDE DEF c
    <3>7. Follows(r, i, c) /\ c # Missing
      BY <1>7, <3>4, <3>5, <3>6, RootAndMissing
    <3> QED
      BY <3>7 DEF c, name
  <2> QED
    BY <2>2, <2>3
<1> QED
  BY <1>8, <1>9

\* At the end of the path dispatch finds the route that matches, if there is one.
LEMMA FollowsAll ==
  ASSUME NEW r \in Requests, NEW j \in Nat, Beyond(r, j) = {}, NEW n, Follows(r, j, n)
  PROVE  Answer(n, r) = Declared(r)
<1> DEFINE F == Filled(r)
<1>1. F \cap 1..j = F
  BY FilledUpto
<1>2. Len(n) = Cardinality(F) /\ \A i \in F : n[Cardinality(F \cap 1..i)] \in Wild \cup {r.path[i]}
  BY <1>1 DEF Follows
<1>3. ASSUME NEW k \in Matching(r) PROVE k \in DOMAIN Routes /\ Routes[k].path = n
  <2>1. k \in DOMAIN Routes /\ Cardinality(F) = Len(Routes[k].path)
        /\ SubSeq(Routes[k].path, 1, Len(n)) = n
    BY DEF Matching, Follows
  <2>2. SubSeq(Routes[k].path, 1, Len(Routes[k].path)) = Routes[k].path
    BY <2>1, RouteShape
  <2> QED
    BY <1>2, <2>1, <2>2
<1>4. ASSUME NEW k \in DOMAIN Routes, Routes[k].path = n PROVE Matching(r) = {k}
  <2>1. k \in Matching(r)
    BY <1>2, <1>4 DEF Matching
  <2> QED
    BY <1>3, <1>4, <2>1, OneRoute
<1>5. CASE Matching(r) = {}
  <2>1. Payload(n) = 0
    BY <1>4, <1>5, PayloadRoute
  <2> QED
    BY <1>5, <2>1 DEF Answer, Declared
<1>6. CASE Matching(r) # {}
  <2>1. PICK k \in Matching(r) : TRUE
    BY <1>6
  <2>2. k \in DOMAIN Routes /\ Routes[k].path = n /\ Matching(r) = {k}
    BY <1>3, <1>4
  <2>3. (CHOOSE x \in Matching(r) : TRUE) = k
    BY <2>2
  <2>4. Payload(n) = k /\ k # 0
    BY <2>2, PayloadIs, RouteShape
  <2> QED
    BY <1>6, <2>3, <2>4 DEF Answer, Declared
<1> QED
  BY <1>5, <1>6

\* Where the search found nothing, dispatch says so.
LEMMA AnswerMissing ==
  ASSUME NEW r, Matching(r) = {}
  PROVE  Answer(Missing, r) = Declared(r)
<1>1. Payload(Missing) = 0
  <2> SUFFICES ASSUME Payload(Missing) # 0 PROVE FALSE
    OBVIOUS
  <2> DEFINE k == Payload(Missing)
  <2>1. k \in DOMAIN Routes /\ Routes[k].path = Missing
    BY PayloadRoute
  <2> HIDE DEF k
  <2>2. 1 \in DOMAIN Routes[k].path
    BY <2>1, RouteShape
  <2>3. Routes[k].path[1] # Garbage
    BY <2>1, <2>2, RouterAssumption
  <2> QED
    BY <2>1, <2>3 DEF Missing
<1> QED
  BY <1>1 DEF Answer, Declared

\* A search begins at the root.
LEMMA FollowsRoot == ASSUME NEW r PROVE Follows(r, 0, <<>>)
<1>1. Filled(r) \cap 1..0 = {}
  OBVIOUS
<1>2. Cardinality(Filled(r) \cap 1..0) = 0 /\ Len(<<>>) = 0
  BY <1>1, FS_EmptySet
<1>3. ASSUME NEW k \in Matching(r) PROVE SubSeq(Routes[k].path, 1, Len(<<>>)) = <<>>
  <2>1. k \in DOMAIN Routes
    BY DEF Matching
  <2>2. 0 \in 0..Len(Routes[k].path)
    BY <2>1, RouteShape
  <2> QED
    BY <1>2, <2>1, <2>2, Prefix
<1> QED
  BY <1>1, <1>2, <1>3, RootAndMissing DEF Follows

\* Empty parts lead nowhere.
LEMMA FollowsSkip ==
  ASSUME NEW r \in Requests, NEW j \in Nat, NEW i \in Beyond(r, j), \A h \in Beyond(r, j) : i <= h,
         NEW n, Follows(r, j, n)
  PROVE  Follows(r, i - 1, n)
<1>1. Filled(r) \subseteq Nat \ {0}
  BY FirstPart
<1>2. Filled(r) \cap 1..j = Filled(r) \cap 1..(i - 1)
  <2>1. i \in Nat /\ i > j
    BY <1>1 DEF Beyond
  <2>2. ASSUME NEW h \in Filled(r) PROVE h \in 1..j <=> h \in 1..(i - 1)
    <3>1. h \in Nat \ {0} /\ (h > j => i <= h)
      BY <1>1 DEF Beyond
    <3> QED
      BY <2>1, <3>1
  <2> QED
    BY <2>2
<1> QED
  BY <1>2 DEF Follows

\* What strtok finds in a copy that only its own search has touched.
LEMMA LookOwn ==
  ASSUME TypeOK, NEW c \in Calls, pc[c] = "scan", OwnPointer(c), NEW f \in Look(s[c])
  PROVE  \/ f.tok = 0 /\ f.next = [s[c] EXCEPT !.nul = TRUE] /\ Beyond(req[c], s[c].at) = {}
         \/ \E b \in BOOLEAN :
              /\ f.next = [buf |-> c, at |-> f.tok, nul |-> b]
              /\ f.tok \in Beyond(req[c], s[c].at) /\ \A h \in Beyond(req[c], s[c].at) : f.tok <= h
              /\ b => Beyond(req[c], f.tok) = {}
<1> DEFINE p == s[c]
           path == req[c].path
           later == {i \in DOMAIN path : i > p.at /\ path[i] # ""}
           i == Min(later)
           b == i = Len(path) \/ i \in cut[c]
           none == [tok |-> 0, next |-> [p EXCEPT !.nul = TRUE]]
           found == [tok |-> i, next |-> [buf |-> p.buf, at |-> i, nul |-> b]]
<1>1. p.buf = c /\ ~Dangling(p) /\ p.at \in Nat /\ req[c] \in Requests
  BY DEF OwnPointer, Dangling, TypeOK, Pointer
<1>2. cut[c] \subseteq 1..p.at /\ (p.nul => Beyond(req[c], p.at) = {})
  BY DEF OwnPointer
<1>3. later = Beyond(req[c], p.at)
  BY Zenon DEF Beyond, Filled
<1>4. Look(p) = IF p.nul \/ later = {} THEN {none}
                ELSE {found} \cup {g \in {none} : 0 \in cut[c]}
  BY <1>1, Zenon DEF Look
<1>5. 0 \notin cut[c]
  BY <1>1, <1>2
<1>6. b \in BOOLEAN
  OBVIOUS
<1>7. later # {} => i \in later /\ \A h \in later : i <= h
  <2>1. later \subseteq Nat
    BY <1>1, PathShape
  <2> QED
    BY <2>1, MinNat
<1>8. later # {} /\ b => Beyond(req[c], i) = {}
  <2> SUFFICES ASSUME later # {}, b PROVE Beyond(req[c], i) = {}
    OBVIOUS
  <2>1. i \in later /\ i > p.at /\ i \in Nat
    <3>1. i \in later
      BY <1>7
    <3> QED
      BY <1>1, <3>1, PathShape
  <2>2. i \notin cut[c]
    <3> HIDE DEF i, p, later
    <3>1. \A x \in 1..p.at : x <= p.at
      BY <1>1
    <3>2. ~(i <= p.at)
      BY <1>1, <2>1
    <3> QED
      BY <1>2, <3>1, <3>2
  <2>3. i = Len(path)
    BY <2>2
  <2>4. Filled(req[c]) \subseteq 1..Len(path) /\ Len(path) \in Nat
    BY <1>1, FilledUpto
  <2> HIDE DEF i, path, later
  <2>5. \A h \in 1..Len(path) : ~(h > i)
    BY <2>3, <2>4
  <2> QED
    BY <2>4, <2>5 DEF Beyond
<1>9. f = none \/ (later # {} /\ f = found)
  <2> HIDE DEF none, found, later
  <2> QED
    BY <1>4
<1>10. f = none => Beyond(req[c], p.at) = {}
  <2>1. CASE p.nul \/ later = {}
    BY <1>2, <1>3, <2>1
  <2>2. CASE ~(p.nul \/ later = {})
    <3>1. f = found
      <4> HIDE DEF none, found, later
      <4> QED
        BY <1>4, <1>5, <2>2
    <3>2. found.tok # none.tok
      <4>1. i \in DOMAIN path
        BY <1>7, <2>2
      <4>2. i # 0
        BY <1>1, <4>1, PathShape
      <4> QED
        BY <4>2
    <3> QED
      BY <3>1, <3>2
  <2> QED
    BY <2>1, <2>2
<1> HIDE DEF later, b, i
<1>11. none.tok = 0 /\ none.next = [p EXCEPT !.nul = TRUE]
  OBVIOUS
<1>12. found.tok = i /\ found.next = [buf |-> c, at |-> i, nul |-> b]
  BY <1>1
<1> HIDE DEF none, found
<1> QED
  BY <1>3, <1>6, <1>7, <1>8, <1>9, <1>10, <1>11, <1>12

\* What the others do to a search when they leave its variables alone.
LEMMA OwnUntouched ==
  ASSUME NEW d \in Calls, OwnSearch(d), req' = req, pc'[d] = pc[d], s'[d] = s[d],
         tok'[d] = tok[d], node'[d] = node[d], cut'[d] = cut[d],
         pc[d] \in {"descend", "load"} => olds' = olds
  PROVE  OwnSearch(d)'
<1>1. OwnPointer(d) => OwnPointer(d)'
  BY DEF OwnPointer, Beyond, Filled
<1>2. \A j, n : Follows(req[d], j, n)' <=> Follows(req[d], j, n)
  BY DEF Follows, Filled, Matching
<1> QED
  BY <1>1, <1>2 DEF OwnSearch

\* A step of c that writes no shared memory has to be looked at from c's side
\* only.
LEMMA OneSearch ==
  ASSUME RouteInv, NEW c \in Calls, IndInv', req' = req, UNCHANGED <<cut, olds, disturbed>>,
         \A d \in Calls \ {c} : pc'[d] = pc[d] /\ s'[d] = s[d] /\ tok'[d] = tok[d] /\ node'[d] = node[d],
         pc'[c] # "idle", s'[c].buf = s[c].buf \/ s'[c].buf = olds.buf,
         ~disturbed[c] => OwnSearch(c)'
  PROVE  RouteInv'
<1>1. Unshared'
  <2> SUFFICES ASSUME NEW b \in Calls, pc'[b] = "idle"
               PROVE  olds'.buf # b /\ \A d \in Calls \ {b} : s'[d].buf # b
    BY DEF Unshared
  <2>1. b # c /\ pc[b] = "idle"
    OBVIOUS
  <2>2. olds.buf # b /\ \A d \in Calls \ {b} : s[d].buf # b
    BY <2>1 DEF RouteInv, Unshared
  <2> QED
    BY <2>1, <2>2
<1>2. ASSUME NEW d \in Calls, ~disturbed'[d] PROVE OwnSearch(d)'
  <2>1. CASE d = c
    BY <1>2, <2>1
  <2>2. CASE d # c
    BY <1>2, <2>2, OwnUntouched DEF RouteInv
  <2> QED
    BY <2>1, <2>2
<1> QED
  BY <1>1, <1>2 DEF RouteInv

\* RouteInv is kept when a search starts.
LEMMA StartRoute == ASSUME RouteInv, NEW c \in Calls, Start(c) PROVE RouteInv'
<1>1. IndInv' /\ TypeOK
  BY StartInv DEF RouteInv, IndInv
<1>2. /\ pc[c] = "idle" /\ pc' = [pc EXCEPT ![c] = "scan"]
      /\ UNCHANGED <<req, olds, cut, s, tok, node, answer, disturbed>>
  BY DEF Start
<1>3. pc'[c] = "scan"
  BY <1>1, <1>2 DEF TypeOK
<1>4. ASSUME ~disturbed[c] PROVE OwnSearch(c)'
  <2>1. OwnPointer(c) /\ Follows(req[c], s[c].at, node[c])
    BY <1>2, <1>4 DEF RouteInv, OwnSearch
  <2>2. \A j, n : Follows(req[c], j, n)' <=> Follows(req[c], j, n)
    BY <1>2 DEF Follows, Filled, Matching
  <2>3. s'[c] = s[c] /\ OwnPointer(c)'
    BY <1>2, <2>1 DEF OwnPointer, Beyond, Filled
  <2>4. Follows(req[c], s[c].at, node[c])'
    BY <1>2, <2>1, <2>2, <2>3
  <2> QED
    BY <1>3, <2>3, <2>4 DEF OwnSearch
<1> QED
  BY <1>1, <1>2, <1>3, <1>4, OneSearch DEF TypeOK

\* RouteInv is kept when strtok reads the shared pointer: of an undisturbed search
\* it is its own.
LEMMA LoadRoute == ASSUME RouteInv, NEW c \in Calls, Load(c) PROVE RouteInv'
<1>1. IndInv' /\ TypeOK
  BY LoadInv DEF RouteInv, IndInv
<1>2. /\ pc[c] = "load" /\ pc' = [pc EXCEPT ![c] = "scan"] /\ s' = [s EXCEPT ![c] = olds]
      /\ UNCHANGED <<req, olds, cut, tok, node, answer, disturbed>>
  BY DEF Load
<1>3. pc'[c] = "scan" /\ s'[c] = olds
  BY <1>1, <1>2 DEF TypeOK
<1>4. ASSUME ~disturbed[c] PROVE OwnSearch(c)'
  <2>1. OwnPointer(c) /\ Follows(req[c], s[c].at, node[c]) /\ olds = s[c]
    BY <1>2, <1>4 DEF RouteInv, OwnSearch
  <2>2. \A j, n : Follows(req[c], j, n)' <=> Follows(req[c], j, n)
    BY <1>2 DEF Follows, Filled, Matching
  <2>3. s'[c] = s[c] /\ OwnPointer(c)'
    BY <1>2, <1>3, <2>1 DEF OwnPointer, Beyond, Filled
  <2>4. Follows(req[c], s[c].at, node[c])'
    BY <1>2, <2>1, <2>2, <2>3
  <2> QED
    BY <1>3, <2>3, <2>4 DEF OwnSearch
<1> QED
  BY <1>1, <1>2, <1>3, <1>4, OneSearch DEF TypeOK

\* RouteInv is kept when strtok finds the next name: an undisturbed search looks only
\* at its own path.
LEMMA ScanRoute == ASSUME RouteInv, NEW c \in Calls, Scan(c) PROVE RouteInv'
<1>1. IndInv' /\ TypeOK /\ s[c] \in Pointer /\ req[c] \in Requests
  BY ScanInv DEF RouteInv, IndInv, TypeOK
<1>2. /\ pc[c] = "scan" /\ pc' = [pc EXCEPT ![c] = "store"]
      /\ UNCHANGED <<req, olds, cut, node, answer, disturbed>>
  BY DEF Scan
<1>3. PICK f \in Look(s[c]) : tok' = [tok EXCEPT ![c] = f.tok] /\ s' = [s EXCEPT ![c] = f.next]
  BY DEF Scan
<1>4. pc'[c] = "store" /\ tok'[c] = f.tok /\ s'[c] = f.next
  BY <1>1, <1>2, <1>3 DEF TypeOK
<1>5. f.next.buf = s[c].buf
  BY <1>1, LookType
<1>6. ASSUME ~disturbed[c] PROVE OwnSearch(c)'
  <2>1. OwnPointer(c) /\ Follows(req[c], s[c].at, node[c])
    BY <1>2, <1>6 DEF RouteInv, OwnSearch
  <2>a. s[c].buf = c /\ cut[c] \subseteq 1..s[c].at /\ s[c].at \in Nat
    BY <1>1, <2>1 DEF OwnPointer, Pointer
  <2>b. \A j, n : Follows(req[c], j, n)' <=> Follows(req[c], j, n)
    BY <1>2 DEF Follows, Filled, Matching
  <2>c. \A j : Beyond(req[c], j)' = Beyond(req[c], j)
    BY <1>2 DEF Beyond, Filled
  <2>2. CASE f.tok = 0 /\ f.next = [s[c] EXCEPT !.nul = TRUE] /\ Beyond(req[c], s[c].at) = {}
    <3>1. s'[c].buf = c /\ s'[c].at = s[c].at /\ tok'[c] = 0
      BY <1>1, <1>4, <2>2, <2>a DEF Pointer
    <3>2. OwnPointer(c)'
      BY <1>2, <2>2, <2>a, <2>c, <3>1 DEF OwnPointer
    <3>3. Beyond(req[c], s[c].at)' = {} /\ Follows(req[c], s[c].at, node[c])'
      BY <1>2, <2>1, <2>2, <2>b, <2>c, <3>1
    <3> QED
      BY <1>4, <3>1, <3>2, <3>3 DEF OwnSearch
  <2>3. ASSUME NEW b \in BOOLEAN, f.next = [buf |-> c, at |-> f.tok, nul |-> b],
               f.tok \in Beyond(req[c], s[c].at), \A h \in Beyond(req[c], s[c].at) : f.tok <= h,
               b => Beyond(req[c], f.tok) = {}
        PROVE  OwnSearch(c)'
    <3>1. s'[c].buf = c /\ s'[c].at = f.tok /\ s'[c].nul = b /\ tok'[c] = f.tok
      BY <1>4, <2>3
    <3>2. f.tok \in Filled(req[c]) /\ f.tok > s[c].at /\ f.tok \in Nat \ {0}
      BY <1>1, <2>3, FirstPart DEF Beyond
    <3>3. Follows(req[c], f.tok - 1, node[c])
      BY <1>1, <2>1, <2>3, <2>a, FollowsSkip
    <3>4. cut'[c] \subseteq 1..f.tok
      BY <1>2, <2>a, <3>2
    <3>5. OwnPointer(c)'
      BY <2>3, <2>c, <3>1, <3>4 DEF OwnPointer
    <3>6. s'[c].at \in Filled(req[c])'
      BY <1>2, <3>1, <3>2 DEF Filled
    <3>7. Follows(req[c], s[c].at - 1, node[c])'
      BY <1>2, <2>b, <3>1, <3>3
    <3> QED
      BY <1>4, <3>1, <3>2, <3>5, <3>6, <3>7 DEF OwnSearch
  <2> QED
    BY <1>1, <1>2, <2>1, <2>2, <2>3, LookOwn
<1> QED
  BY <1>1, <1>2, <1>3, <1>4, <1>5, <1>6, OneSearch DEF TypeOK

\* RouteInv is kept when search goes down the tree: an undisturbed search stands
\* where the names so far lead.
LEMMA DescendRoute == ASSUME RouteInv, NEW c \in Calls, Descend(c) PROVE RouteInv'
<1>1. IndInv' /\ TypeOK /\ CallInv(c) /\ s[c] \in Pointer /\ req[c] \in Requests
  BY DescendInv DEF RouteInv, IndInv, TypeOK
<1>2. pc[c] = "descend" /\ UNCHANGED <<req, olds, cut, s, tok, answer, disturbed>>
  BY DEF Descend
<1>3. /\ \A d \in Calls \ {c} : pc'[d] = pc[d] /\ node'[d] = node[d]
      /\ pc'[c] \in {"found", "load"}
  BY <1>1 DEF Descend, TypeOK
<1>4. ASSUME ~disturbed[c] PROVE OwnSearch(c)'
  <2>1. OwnSearch(c) /\ OwnPointer(c) /\ olds = s[c]
    BY <1>2, <1>4 DEF RouteInv, OwnSearch
  <2>a. s[c].buf = c /\ cut[c] \subseteq 1..s[c].at /\ s[c].at \in Nat
    BY <1>1, <2>1 DEF OwnPointer, Pointer
  <2>b. \A j, n : Follows(req[c], j, n)' <=> Follows(req[c], j, n)
    BY <1>2 DEF Follows, Filled, Matching
  <2>c. OwnPointer(c)'
    BY <1>2, <2>1 DEF OwnPointer, Beyond, Filled
  <2>d. \A n : Answer(n, req[c])' = Answer(n, req[c]) /\ Declared(req[c])' = Declared(req[c])
    BY <1>2 DEF Answer, Payload, Declared, Matching, Filled
  <2>2. CASE tok[c] = 0
    <3>1. pc'[c] = "found" /\ node' = node
      BY <1>1, <2>2 DEF Descend, TypeOK
    <3>2. Beyond(req[c], s[c].at) = {} /\ Follows(req[c], s[c].at, node[c])
      BY <1>2, <2>1, <2>2 DEF OwnSearch
    <3>3. Answer(node[c], req[c]) = Declared(req[c])
      BY <1>1, <2>a, <3>2, FollowsAll
    <3>4. Answer(node[c], req[c])' = Declared(req[c])'
      BY <2>d, <3>1, <3>3
    <3> QED
      BY <3>1, <3>4 DEF OwnSearch
  <2>3. CASE tok[c] # 0
    <3> DEFINE i == s[c].at
               n == Child(node[c], req[c].path[i])
    <3>1. tok[c] = i /\ i \in Filled(req[c]) /\ Follows(req[c], i - 1, node[c])
      BY <1>2, <2>1, <2>3 DEF OwnSearch
    <3>2. Names(c) = {req[c].path[i]}
      <4>1. ~Dangling(s[c])
        BY <1>2, <2>a DEF Dangling
      <4>2. 0 \notin cut[c]
        BY <2>a
      <4> QED
        BY <2>a, <3>1, <4>1, <4>2 DEF Names
    <3>3. node'[c] = n
      BY <1>1, <2>3, <3>2 DEF Descend, TypeOK
    <3>4. pc'[c] = IF n = Missing THEN "found" ELSE "load"
      BY <1>1, <2>3, <3>3 DEF Descend, TypeOK
    <3>5. IF n = Missing THEN Matching(req[c]) = {} ELSE Follows(req[c], i, n)
      BY <1>1, <3>1, FollowsChild
    <3> HIDE DEF n
    <3>6. CASE n = Missing
      <4>1. Answer(n, req[c]) = Declared(req[c])
        BY <3>5, <3>6, AnswerMissing
      <4>2. Answer(node[c], req[c])' = Declared(req[c])'
        BY <2>d, <3>3, <4>1
      <4> QED
        BY <3>4, <3>6, <4>2 DEF OwnSearch
    <3>7. CASE n # Missing
      <4>1. Follows(req[c], s[c].at, node[c])'
        BY <1>2, <2>b, <3>3, <3>5, <3>7
      <4>2. olds' = s'[c]
        BY <1>2, <2>1
      <4> QED
        BY <2>c, <3>4, <3>7, <4>1, <4>2 DEF OwnSearch
    <3> QED
      BY <3>6, <3>7
  <2> QED
    BY <2>2, <2>3
<1> QED
  BY <1>1, <1>2, <1>3, <1>4, OneSearch

\* RouteInv is kept when the handler is called.
LEMMA DispatchRoute == ASSUME RouteInv, NEW c \in Calls, Dispatch(c) PROVE RouteInv'
<1>1. IndInv' /\ TypeOK
  BY DispatchInv DEF RouteInv, IndInv
<1>2. /\ pc[c] = "found" /\ pc' = [pc EXCEPT ![c] = "done"]
      /\ UNCHANGED <<req, olds, cut, s, tok, node, disturbed>>
  BY DEF Dispatch
<1>3. pc'[c] = "done"
  BY <1>1, <1>2 DEF TypeOK
<1>4. ASSUME ~disturbed[c] PROVE OwnSearch(c)'
  <2>1. Answer(node[c], req[c]) = Declared(req[c])
    BY <1>2, <1>4 DEF RouteInv, OwnSearch
  <2>2. \A n : Answer(n, req[c])' = Answer(n, req[c]) /\ Declared(req[c])' = Declared(req[c])
    BY <1>2 DEF Answer, Payload, Declared, Matching, Filled
  <2>3. Answer(node[c], req[c])' = Declared(req[c])'
    BY <1>2, <2>1, <2>2
  <2> QED
    BY <1>3, <2>3 DEF OwnSearch
<1> QED
  BY <1>1, <1>2, <1>3, <1>4, OneSearch DEF TypeOK

\* strtok of c writes into the copies of searches, which it disturbs, and into
\* its own.
LEMMA StoreRoute == ASSUME RouteInv, NEW c \in Calls, Store(c) PROVE RouteInv'
<1>1. IndInv' /\ TypeOK /\ s[c] \in Pointer /\ req[c] \in Requests
  BY StoreInv DEF RouteInv, IndInv, TypeOK
<1>2. /\ pc[c] = "store" /\ pc' = [pc EXCEPT ![c] = "descend"] /\ cut' \in Cuts(c)
      /\ olds' = s[c] /\ UNCHANGED <<req, s, tok, node, answer>>
      /\ disturbed' = [d \in Calls |-> disturbed[d] \/ (d # c /\ pc[d] \in Searching)]
  BY DEF Store
<1>3. pc'[c] = "descend" /\ \A d \in Calls \ {c} : pc'[d] = pc[d]
  BY <1>1, <1>2 DEF TypeOK
<1>4. Unshared'
  <2> SUFFICES ASSUME NEW b \in Calls, pc'[b] = "idle"
               PROVE  olds'.buf # b /\ \A d \in Calls \ {b} : s'[d].buf # b
    BY DEF Unshared
  <2>1. b # c /\ pc[b] = "idle"
    BY <1>3
  <2>2. \A d \in Calls \ {b} : s[d].buf # b
    BY <2>1 DEF RouteInv, Unshared
  <2> QED
    BY <1>2, <2>1, <2>2
<1>5. ASSUME NEW d \in Calls, ~disturbed'[d] PROVE OwnSearch(d)'
  <2>0. ~disturbed[d] /\ (d # c => pc[d] \notin Searching)
    BY <1>2, <1>5
  <2>1. OwnSearch(d)
    BY <2>0 DEF RouteInv
  <2>2. CASE d # c /\ pc[d] = "done"
    <3>1. Answer(node[d], req[d]) = Declared(req[d])
      BY <2>1, <2>2 DEF OwnSearch
    <3>2. \A n : Answer(n, req[d])' = Answer(n, req[d]) /\ Declared(req[d])' = Declared(req[d])
      BY <1>2 DEF Answer, Payload, Declared, Matching, Filled
    <3>3. Answer(node[d], req[d])' = Declared(req[d])'
      BY <1>2, <3>1, <3>2
    <3> QED
      BY <1>3, <2>2, <3>3 DEF OwnSearch
  <2>3. CASE d # c /\ pc[d] = "idle"
    <3>1. s[c].buf # d /\ d \notin {e \in Calls : pc[e] \in Searching}
      BY <2>3 DEF RouteInv, Unshared, Searching
    <3>2. cut'[d] = cut[d]
      <4>1. cut \in [Calls -> SUBSET Nat]
        BY <1>1 DEF TypeOK
      <4>2. \/ cut' = cut
            \/ cut' = [cut EXCEPT ![s[c].buf] = @ \cup {s[c].at}]
            \/ \E e \in {e \in Calls : pc[e] \in Searching} : \E i \in {0, 1, 2} :
                 cut' = [cut EXCEPT ![e] = @ \cup {i}]
        <5>1. CASE tok[c] = 0 \/ (~Dangling(s[c]) /\ s[c].nul)
          BY <1>2, <5>1 DEF Cuts
        <5>2. CASE tok[c] # 0 /\ ~Dangling(s[c]) /\ ~s[c].nul
          BY <1>2, <5>2 DEF Cuts
        <5>3. CASE tok[c] # 0 /\ Dangling(s[c])
          BY <1>2, <5>3 DEF Cuts
        <5> QED
          BY <5>1, <5>2, <5>3
      <4> QED
        BY <3>1, <4>1, <4>2
    <3>3. pc'[d] = pc[d] /\ pc[d] \notin {"descend", "load"}
      BY <1>3, <2>3
    <3> QED
      BY <1>2, <2>1, <3>2, <3>3, OwnUntouched
  <2>4. CASE d = c
    <3>1. s[c].buf = c /\ cut[c] \subseteq 1..s[c].at /\ s[c].at \in Nat
      BY <1>1, <1>2, <2>1, <2>4 DEF OwnSearch, OwnPointer, Pointer
    <3>2. cut'[c] \subseteq 1..s[c].at
      <4>1. ~Dangling(s[c]) /\ cut \in [Calls -> SUBSET Nat]
        BY <1>1, <1>2, <3>1 DEF Dangling, TypeOK
      <4>2. cut' = cut \/ (tok[c] # 0 /\ cut' = [cut EXCEPT ![c] = @ \cup {s[c].at}])
        BY <1>2, <3>1, <4>1 DEF Cuts
      <4>3. tok[c] # 0 => s[c].at \in Filled(req[c])
        BY <1>2, <2>1, <2>4 DEF OwnSearch
      <4>4. tok[c] # 0 => s[c].at \in 1..s[c].at
        BY <1>1, <3>1, <4>3, FirstPart
      <4> QED
        BY <3>1, <4>1, <4>2, <4>4
    <3>3. OwnPointer(c)'
      BY <1>2, <2>1, <2>4, <3>1, <3>2 DEF OwnSearch, OwnPointer, Beyond, Filled
    <3>4. \A j, n : Follows(req[c], j, n)' <=> Follows(req[c], j, n)
      BY <1>2 DEF Follows, Filled, Matching
    <3>5. \A j : Beyond(req[c], j)' = Beyond(req[c], j) /\ Filled(req[c])' = Filled(req[c])
      BY <1>2 DEF Beyond, Filled
    <3>6. tok'[c] = 0 => Beyond(req[c], s[c].at)' = {} /\ Follows(req[c], s[c].at, node[c])'
      BY <1>2, <2>1, <2>4, <3>4, <3>5 DEF OwnSearch
    <3>7. tok'[c] # 0 => /\ tok'[c] = s'[c].at /\ s'[c].at \in Filled(req[c])'
                         /\ Follows(req[c], s[c].at - 1, node[c])'
      BY <1>2, <2>1, <2>4, <3>4, <3>5 DEF OwnSearch
    <3> QED
      BY <1>2, <1>3, <2>4, <3>3, <3>6, <3>7 DEF OwnSearch
  <2>5. pc[d] \in {"idle", "done"} \cup Searching
    BY <1>1 DEF TypeOK
  <2> QED
    BY <2>0, <2>2, <2>3, <2>4, <2>5
<1> QED
  BY <1>1, <1>4, <1>5 DEF RouteInv

\* Every step keeps what holds of undisturbed searches.
LEMMA NextRoute == RouteInv /\ [Next]_vars => RouteInv'
<1> SUFFICES ASSUME RouteInv, [Next]_vars PROVE RouteInv'
  OBVIOUS
<1>1. ASSUME NEW c \in Calls, Step(c) PROVE RouteInv'
  BY <1>1, StartRoute, LoadRoute, ScanRoute, StoreRoute, DescendRoute, DispatchRoute DEF Step
<1>2. CASE UNCHANGED vars
  <2>1. IndInv'
    BY <1>2, NextInv DEF RouteInv
  <2>2. Unshared'
    BY <1>2 DEF vars, RouteInv, Unshared
  <2>3. ASSUME NEW c \in Calls, ~disturbed'[c] PROVE OwnSearch(c)'
    BY <1>2, <2>3, OwnUntouched DEF vars, RouteInv
  <2> QED
    BY <2>1, <2>2, <2>3 DEF RouteInv
<1> QED
  BY <1>1, <1>2 DEF Next

\* RouteInv holds before any search starts.
LEMMA InitRoute == Init => RouteInv
<1> SUFFICES ASSUME Init PROVE RouteInv
  OBVIOUS
<1>1. IndInv
  BY InitInv
<1>2. Unshared
  BY RouterAssumption DEF Init, Unshared
<1>3. ASSUME NEW c \in Calls PROVE OwnSearch(c)
  <2>1. pc[c] = "idle" /\ s[c] = [buf |-> c, at |-> 0, nul |-> FALSE] /\ cut[c] = {} /\ node[c] = <<>>
    BY DEF Init
  <2>2. OwnPointer(c)
    BY <2>1 DEF OwnPointer
  <2>3. Follows(req[c], s[c].at, node[c])
    BY <2>1, FollowsRoot
  <2> QED
    BY <2>1, <2>2, <2>3 DEF OwnSearch
<1> QED
  BY <1>1, <1>2, <1>3 DEF RouteInv
-----------------------------------------------------------------------------
(* The theorems.                                                           *)

\* A request for which the table has a handler begins with that route's first
\* name.
LEMMA DeclaredRoute ==
  ASSUME NEW r \in Requests, Declared(r) \notin Statuses
  PROVE  /\ Filled(r) # {}
         /\ \E k \in DOMAIN Routes : /\ Routes[k].path[1] = r.path[First(r)]
                                     /\ r.method \in DOMAIN Routes[k].fn
                                     /\ Declared(r) = Routes[k].fn[r.method]
<1> DEFINE k == CHOOSE k \in Matching(r) : TRUE
           F == Filled(r)
           f == First(r)
<1>1. Matching(r) # {} BY DEF Declared, Statuses
<1>2. k \in Matching(r) BY <1>1
<1>3. r.method \in DOMAIN Routes[k].fn /\ Declared(r) = Routes[k].fn[r.method]
  BY <1>1 DEF Declared, Statuses
<1> HIDE DEF k
<1>4. /\ k \in DOMAIN Routes /\ Cardinality(F) = Len(Routes[k].path)
      /\ \A i \in F : Routes[k].path[Cardinality(F \cap 1..i)] \in Wild \cup {r.path[i]}
  BY <1>2 DEF Matching
<1>5. F # {}
  <2>1. Len(Routes[k].path) \in {1, 2} BY <1>4, RouteShape
  <2>2. QED BY <1>4, <2>1, FS_EmptySet
<1>6. f \in F /\ f \in Nat \ {0} /\ \A i \in F : f <= i /\ i \in Nat
  BY <1>5, FirstPart
<1>7. F \cap 1..f = {f}
  <2> HIDE DEF F, f
  <2>1. \A i \in F \cap 1..f : i = f BY <1>6
  <2>2. f \in 1..f BY <1>6
  <2>3. QED BY <1>6, <2>1, <2>2
<1>8. Cardinality(F \cap 1..f) = 1 BY <1>7, FS_Singleton
<1>9. Routes[k].path[1] = r.path[f] BY <1>4, <1>6, <1>8, RouteShape
<1>10. QED BY <1>3, <1>4, <1>5, <1>9

\* In every reachable state each search is under the first name of its own path.
THEOREM RouterInvariance == Spec => []IndInv
  BY InitInv, NextInv, PTL DEF Spec

\* The variables of the searches keep their types.
THEOREM RouterTypes == Spec => []TypeOK
<1>1. IndInv => TypeOK BY DEF IndInv
<1>2. QED BY <1>1, RouterInvariance, PTL

\* search_node's race over strtok's pointer never makes dispatch run a request
\* with another request's handler: it is run by its own handler or refused.
THEOREM NeverAnothersHandler == Spec => []OwnHandlerOrNone
<1>1. IndInv => OwnHandlerOrNone
  <2> SUFFICES ASSUME IndInv, NEW c \in Calls, pc[c] = "done",
                      Declared(req[c]) \notin Statuses, answer[c] \notin Statuses
               PROVE  answer[c] = Declared(req[c])
    BY DEF OwnHandlerOrNone
  <2> DEFINE r == req[c]
             j == Payload(node[c])
  <2>1. r \in Requests BY DEF IndInv, TypeOK
  <2>2. answer[c] = Answer(node[c], r) BY DEF IndInv, CallInv
  <2>3. j # 0 /\ r.method \in DOMAIN Routes[j].fn /\ answer[c] = Routes[j].fn[r.method]
    BY <2>2 DEF Answer, Statuses
  <2>4. j \in DOMAIN Routes /\ Routes[j].path = node[c] BY <2>3, PayloadRoute
  <2>5. node[c] # <<>>
    <3>1. Len(node[c]) \in {1, 2} BY <2>4, RouteShape
    <3>2. Len(<<>>) = 0 OBVIOUS
    <3>3. QED BY <3>1, <3>2
  <2>6. node[c] # Missing
    <3>1. 1 \in DOMAIN Routes[j].path BY <2>4, RouteShape
    <3>2. Routes[j].path[1] # Garbage BY <2>4, <3>1, RouterAssumption
    <3>3. Missing[1] = Garbage BY DEF Missing
    <3>4. QED BY <2>4, <3>2, <3>3
  <2>7. node[c][1] = r.path[First(r)] BY <2>5, <2>6 DEF IndInv, CallInv
  <2>8. PICK k \in DOMAIN Routes : /\ Routes[k].path[1] = r.path[First(r)]
                                   /\ r.method \in DOMAIN Routes[k].fn
                                   /\ Declared(r) = Routes[k].fn[r.method]
    BY <2>1, DeclaredRoute
  <2>9. Routes[j].path[1] = Routes[k].path[1] BY <2>4, <2>7, <2>8
  <2>10. j = k BY <2>3, <2>4, <2>8, <2>9, OneFunction
  <2>11. QED BY <2>3, <2>8, <2>10
<1>2. QED BY <1>1, RouterInvariance, PTL

\* A search that no other worker's strtok disturbs computes what the table
\* declares: search_node over the tree of add_node, empty parts skipped and
\* wildcards as fallback, whatever earlier searches left in strtok's pointer.
THEOREM UndisturbedIsExact == Spec => []RoutedAsDeclared
<1>1. RouteInv => RoutedAsDeclared
  <2> SUFFICES ASSUME RouteInv, NEW c \in Calls, pc[c] = "done", ~disturbed[c]
               PROVE  answer[c] = Declared(req[c])
    BY DEF RoutedAsDeclared
  <2>1. answer[c] = Answer(node[c], req[c])
    BY DEF RouteInv, IndInv, CallInv
  <2>2. Answer(node[c], req[c]) = Declared(req[c])
    BY DEF RouteInv, OwnSearch
  <2> QED
    BY <2>1, <2>2
<1> QED
  BY <1>1, InitRoute, NextRoute, PTL DEF Spec
=============================================================================

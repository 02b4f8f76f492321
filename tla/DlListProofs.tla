------------------------------ MODULE DlListProofs ------------------------------
(* What DlList promises, for every set of nodes. *)
EXTENDS DlList, Induction, FunctionTheorems

(* The links alone allow a node that is its own neighbour, beside the chain: *)
(* the nodes also have an order that next follows.  behind holds the nodes    *)
(* behind each of the nodes S.                                                *)
Follows(behind, S, link) ==
  \A n \in S : /\ n \notin behind[n]
               /\ link[n] # NULL => link[n] \in behind[n]
               /\ \A m \in behind[n] : \A k \in behind[m] : k \in behind[n]

Ordered == \E behind \in [Nodes -> SUBSET Nodes] : Follows(behind, Nodes, next)

ListInv == ListTypeOK /\ Linked /\ Ordered

LEMMA InitInv == ListInit => ListInv
<1> SUFFICES ASSUME ListInit PROVE ListInv
  OBVIOUS
<1>1. Nodes = {}
  BY DEF ListInit, Nodes
<1>2. ListTypeOK /\ Linked
  BY <1>1, NodeAssumption DEF ListInit, ListTypeOK, Linked
<1>3. [n \in Nodes |-> {}] \in [Nodes -> SUBSET Nodes] /\ Follows([n \in Nodes |-> {}], Nodes, next)
  BY <1>1 DEF Follows
<1> QED BY <1>2, <1>3 DEF ListInv, Ordered

-------------------------------------------------------------------------------
(* A node that is put in at the end is the last, and the one that was knows. *)
LEMMA AppendInv ==
  ASSUME ListInv, NEW n \in Node \ Nodes, AppendNode(n)
  PROVE  ListInv'
<1>1. Nodes' = Nodes \union {n} /\ n # NULL /\ n \notin Nodes
  BY NodeAssumption DEF AppendNode, Nodes
<1>2. ListTypeOK'
  BY <1>1, NodeAssumption DEF ListInv, ListTypeOK, AppendNode, Others
<1>3. Linked'
  BY <1>1, NodeAssumption DEF ListInv, ListTypeOK, Linked, AppendNode
<1>4. Ordered'
  <2>1. PICK behind \in [Nodes -> SUBSET Nodes] : Follows(behind, Nodes, next)
    BY DEF ListInv, Ordered
  <2> DEFINE new == [m \in Nodes \union {n} |-> IF m = n THEN {} ELSE behind[m] \union {n}]
  <2>2. new \in [Nodes' -> SUBSET Nodes']
    BY <1>1, <2>1
  <2>3. ASSUME NEW m \in Nodes'
        PROVE  /\ m \notin new[m]
               /\ next'[m] # NULL => next'[m] \in new[m]
               /\ \A j \in new[m] : \A k \in new[j] : k \in new[m]
    <3>1. m \notin new[m]
      BY <1>1, <2>1, <2>3 DEF Follows
    <3>2. next'[m] # NULL => next'[m] \in new[m]
      BY <1>1, <2>1, <2>3, NodeAssumption DEF Follows, ListInv, ListTypeOK, Linked, AppendNode
    <3>3. ASSUME NEW j \in new[m], NEW k \in new[j]
          PROVE  k \in new[m]
      BY <1>1, <2>1, <2>3, <3>3 DEF Follows
    <3> QED BY <3>1, <3>2, <3>3
  <2>4. Follows(new, Nodes', next')
    BY <2>3 DEF Follows
  <2> QED BY <2>2, <2>4 DEF Ordered
<1> QED BY <1>2, <1>3, <1>4 DEF ListInv

(* The same at the front. *)
LEMMA PrependInv ==
  ASSUME ListInv, NEW n \in Node \ Nodes, PrependNode(n)
  PROVE  ListInv'
<1>1. Nodes' = Nodes \union {n} /\ n # NULL /\ n \notin Nodes
  BY NodeAssumption DEF PrependNode, Nodes
<1>2. ListTypeOK'
  BY <1>1, NodeAssumption DEF ListInv, ListTypeOK, PrependNode, Others
<1>3. Linked'
  BY <1>1, NodeAssumption DEF ListInv, ListTypeOK, Linked, PrependNode
<1>4. Ordered'
  <2>1. PICK behind \in [Nodes -> SUBSET Nodes] : Follows(behind, Nodes, next)
    BY DEF ListInv, Ordered
  <2> DEFINE new == [m \in Nodes \union {n} |-> IF m = n THEN Nodes ELSE behind[m]]
  <2>2. new \in [Nodes' -> SUBSET Nodes']
    BY <1>1, <2>1
  <2>3. ASSUME NEW m \in Nodes'
        PROVE  /\ m \notin new[m]
               /\ next'[m] # NULL => next'[m] \in new[m]
               /\ \A j \in new[m] : \A k \in new[j] : k \in new[m]
    <3>1. m \notin new[m]
      BY <1>1, <2>1, <2>3 DEF Follows
    <3>2. next'[m] # NULL => next'[m] \in new[m]
      BY <1>1, <2>1, <2>3, NodeAssumption DEF Follows, ListInv, ListTypeOK, Linked, PrependNode
    <3>3. ASSUME NEW j \in new[m], NEW k \in new[j]
          PROVE  k \in new[m]
      BY <1>1, <2>1, <2>3, <3>3 DEF Follows
    <3> QED BY <3>1, <3>2, <3>3
  <2>4. Follows(new, Nodes', next')
    BY <2>3 DEF Follows
  <2> QED BY <2>2, <2>4 DEF Ordered
<1> QED BY <1>2, <1>3, <1>4 DEF ListInv

(* Between two nodes, all four links that change agree. *)
LEMMA InsertBetweenInv ==
  ASSUME ListInv, NEW n \in Node \ Nodes, InsertBetween(n)
  PROVE  ListInv'
<1>1. Nodes' = Nodes \union {n} /\ n # NULL /\ n \notin Nodes /\ crnt \in Nodes
  BY NodeAssumption DEF InsertBetween, Nodes, ListInv, ListTypeOK
<1>2. ListTypeOK'
  BY <1>1, NodeAssumption DEF ListInv, ListTypeOK, InsertBetween, Others
<1>3. Linked'
  BY <1>1, NodeAssumption DEF ListInv, ListTypeOK, Linked, InsertBetween
<1>4. Ordered'
  <2>1. PICK behind \in [Nodes -> SUBSET Nodes] : Follows(behind, Nodes, next)
    BY DEF ListInv, Ordered
  <2> DEFINE new == [m \in Nodes \union {n} |->
                     IF m = n THEN behind[crnt]
                     ELSE IF m = crnt \/ crnt \in behind[m] THEN behind[m] \union {n}
                     ELSE behind[m]]
  <2>2. new \in [Nodes' -> SUBSET Nodes']
    BY <1>1, <2>1
  <2>3. ASSUME NEW m \in Nodes'
        PROVE  /\ m \notin new[m]
               /\ next'[m] # NULL => next'[m] \in new[m]
               /\ \A j \in new[m] : \A k \in new[j] : k \in new[m]
    <3>1. m \notin new[m]
      BY <1>1, <2>1, <2>3 DEF Follows
    <3>2. next'[m] # NULL => next'[m] \in new[m]
      BY <1>1, <2>1, <2>3, NodeAssumption DEF Follows, ListInv, ListTypeOK, Linked, InsertBetween
    <3>3. ASSUME NEW j \in new[m], NEW k \in new[j]
          PROVE  k \in new[m]
      BY <1>1, <2>1, <2>3, <3>3 DEF Follows
    <3> QED BY <3>1, <3>2, <3>3
  <2>4. Follows(new, Nodes', next')
    BY <2>3 DEF Follows
  <2> QED BY <2>2, <2>4 DEF Ordered
<1> QED BY <1>2, <1>3, <1>4 DEF ListInv

-------------------------------------------------------------------------------
(* The node in front of the last becomes the last. *)
LEMMA DeleteLastInv ==
  ASSUME ListInv, DeleteLast
  PROVE  ListInv'
<1>1. Nodes' = Nodes \ {crnt} /\ crnt \in Nodes /\ prev[crnt] \in Nodes \ {crnt}
  <2>1. Nodes' = Nodes \ {crnt} /\ crnt \in Nodes
    BY NodeAssumption DEF ListInv, ListTypeOK, DeleteLast, Nodes
  <2>2. next[crnt] # crnt /\ prev[crnt] # crnt
    <3>1. PICK behind \in [Nodes -> SUBSET Nodes] : Follows(behind, Nodes, next)
      BY DEF ListInv, Ordered
    <3>2. crnt \notin behind[crnt] /\ (next[crnt] # NULL => next[crnt] \in behind[crnt])
      BY <2>1, <3>1 DEF Follows
    <3>3. crnt # NULL /\ (prev[crnt] # NULL => next[prev[crnt]] = crnt)
      BY <2>1, NodeAssumption DEF ListInv, ListTypeOK, Linked
    <3> QED BY <3>2, <3>3
  <2> QED BY <2>1, <2>2 DEF ListInv, ListTypeOK, Linked, DeleteLast
<1>2. ListTypeOK'
  BY <1>1, NodeAssumption DEF ListInv, ListTypeOK, Linked, DeleteLast, Others
<1>3. Linked'
  BY <1>1, NodeAssumption DEF ListInv, ListTypeOK, Linked, DeleteLast
<1>4. Ordered'
  <2>1. PICK behind \in [Nodes -> SUBSET Nodes] : Follows(behind, Nodes, next)
    BY DEF ListInv, Ordered
  <2> DEFINE new == [m \in Nodes \ {crnt} |-> behind[m] \ {crnt}]
  <2>2. new \in [Nodes' -> SUBSET Nodes']
    BY <1>1, <2>1
  <2>3. ASSUME NEW m \in Nodes'
        PROVE  /\ m \notin new[m]
               /\ next'[m] # NULL => next'[m] \in new[m]
               /\ \A j \in new[m] : \A k \in new[j] : k \in new[m]
    <3>1. m \notin new[m]
      BY <1>1, <2>1, <2>3 DEF Follows
    <3>2. next'[m] # NULL => next'[m] \in new[m]
      BY <1>1, <2>1, <2>3, NodeAssumption DEF Follows, ListInv, ListTypeOK, Linked, DeleteLast
    <3>3. ASSUME NEW j \in new[m], NEW k \in new[j]
          PROVE  k \in new[m]
      BY <1>1, <2>1, <2>3, <3>3 DEF Follows
    <3> QED BY <3>1, <3>2, <3>3
  <2>4. Follows(new, Nodes', next')
    BY <2>3 DEF Follows
  <2> QED BY <2>2, <2>4 DEF Ordered
<1> QED BY <1>2, <1>3, <1>4 DEF ListInv

(* The node behind the first becomes the first. *)
LEMMA DeleteFirstInv ==
  ASSUME ListInv, DeleteFirst
  PROVE  ListInv'
<1>1. Nodes' = Nodes \ {crnt} /\ crnt \in Nodes /\ next[crnt] \in Nodes \ {crnt}
  <2>1. Nodes' = Nodes \ {crnt} /\ crnt \in Nodes
    BY NodeAssumption DEF ListInv, ListTypeOK, DeleteFirst, Nodes
  <2>2. next[crnt] # crnt /\ prev[crnt] # crnt
    <3>1. PICK behind \in [Nodes -> SUBSET Nodes] : Follows(behind, Nodes, next)
      BY DEF ListInv, Ordered
    <3>2. crnt \notin behind[crnt] /\ (next[crnt] # NULL => next[crnt] \in behind[crnt])
      BY <2>1, <3>1 DEF Follows
    <3>3. crnt # NULL /\ (prev[crnt] # NULL => next[prev[crnt]] = crnt)
      BY <2>1, NodeAssumption DEF ListInv, ListTypeOK, Linked
    <3> QED BY <3>2, <3>3
  <2> QED BY <2>1, <2>2 DEF ListInv, ListTypeOK, Linked, DeleteFirst
<1>2. ListTypeOK'
  BY <1>1, NodeAssumption DEF ListInv, ListTypeOK, Linked, DeleteFirst, Others
<1>3. Linked'
  BY <1>1, NodeAssumption DEF ListInv, ListTypeOK, Linked, DeleteFirst
<1>4. Ordered'
  <2>1. PICK behind \in [Nodes -> SUBSET Nodes] : Follows(behind, Nodes, next)
    BY DEF ListInv, Ordered
  <2> DEFINE new == [m \in Nodes \ {crnt} |-> behind[m] \ {crnt}]
  <2>2. new \in [Nodes' -> SUBSET Nodes']
    BY <1>1, <2>1
  <2>3. ASSUME NEW m \in Nodes'
        PROVE  /\ m \notin new[m]
               /\ next'[m] # NULL => next'[m] \in new[m]
               /\ \A j \in new[m] : \A k \in new[j] : k \in new[m]
    <3>1. m \notin new[m]
      BY <1>1, <2>1, <2>3 DEF Follows
    <3>2. next'[m] # NULL => next'[m] \in new[m]
      BY <1>1, <2>1, <2>3, NodeAssumption DEF Follows, ListInv, ListTypeOK, Linked, DeleteFirst
    <3>3. ASSUME NEW j \in new[m], NEW k \in new[j]
          PROVE  k \in new[m]
      BY <1>1, <2>1, <2>3, <3>3 DEF Follows
    <3> QED BY <3>1, <3>2, <3>3
  <2>4. Follows(new, Nodes', next')
    BY <2>3 DEF Follows
  <2> QED BY <2>2, <2>4 DEF Ordered
<1> QED BY <1>2, <1>3, <1>4 DEF ListInv

(* The neighbours of the deleted node become neighbours: they are not the node itself. *)
LEMMA DeleteBetweenInv ==
  ASSUME ListInv, DeleteBetween
  PROVE  ListInv'
<1>1. /\ Nodes' = Nodes \ {crnt} /\ crnt \in Nodes
      /\ next[crnt] \in Nodes \ {crnt} /\ prev[crnt] \in Nodes \ {crnt}
  <2>1. Nodes' = Nodes \ {crnt} /\ crnt \in Nodes
    BY NodeAssumption DEF ListInv, ListTypeOK, DeleteBetween, Nodes
  <2>2. next[crnt] # crnt /\ prev[crnt] # crnt
    <3>1. PICK behind \in [Nodes -> SUBSET Nodes] : Follows(behind, Nodes, next)
      BY DEF ListInv, Ordered
    <3>2. crnt \notin behind[crnt] /\ (next[crnt] # NULL => next[crnt] \in behind[crnt])
      BY <2>1, <3>1 DEF Follows
    <3>3. crnt # NULL /\ (prev[crnt] # NULL => next[prev[crnt]] = crnt)
      BY <2>1, NodeAssumption DEF ListInv, ListTypeOK, Linked
    <3> QED BY <3>2, <3>3
  <2> QED BY <2>1, <2>2 DEF ListInv, ListTypeOK, Linked, DeleteBetween
<1>2. ListTypeOK'
  BY <1>1, NodeAssumption DEF ListInv, ListTypeOK, Linked, DeleteBetween, Others
<1>3. Linked'
  BY <1>1, NodeAssumption DEF ListInv, ListTypeOK, Linked, DeleteBetween
<1>4. Ordered'
  <2>1. PICK behind \in [Nodes -> SUBSET Nodes] : Follows(behind, Nodes, next)
    BY DEF ListInv, Ordered
  <2> DEFINE new == [m \in Nodes \ {crnt} |-> behind[m] \ {crnt}]
  <2>2. new \in [Nodes' -> SUBSET Nodes']
    BY <1>1, <2>1
  <2>3. ASSUME NEW m \in Nodes'
        PROVE  /\ m \notin new[m]
               /\ next'[m] # NULL => next'[m] \in new[m]
               /\ \A j \in new[m] : \A k \in new[j] : k \in new[m]
    <3>1. m \notin new[m]
      BY <1>1, <2>1, <2>3 DEF Follows
    <3>2. next'[m] # NULL => next'[m] \in new[m]
      BY <1>1, <2>1, <2>3, NodeAssumption DEF Follows, ListInv, ListTypeOK, Linked, DeleteBetween
    <3>3. ASSUME NEW j \in new[m], NEW k \in new[j]
          PROVE  k \in new[m]
      BY <1>1, <2>1, <2>3, <3>3 DEF Follows
    <3> QED BY <3>1, <3>2, <3>3
  <2>4. Follows(new, Nodes', next')
    BY <2>3 DEF Follows
  <2> QED BY <2>2, <2>4 DEF Ordered
<1> QED BY <1>2, <1>3, <1>4 DEF ListInv

-------------------------------------------------------------------------------
(* Moving, resetting and iterating change no link. *)
LEMMA CursorInv ==
  ASSUME ListInv, UNCHANGED links,
         crnt' \in Nodes \/ crnt' = crnt,
         mark' \in Node \union {NULL, END}, crashed' \in {"no", "null", "freed"}
  PROVE  ListInv'
<1>1. Nodes' = Nodes
  BY DEF links, Nodes
<1>2. ListTypeOK'
  BY <1>1 DEF ListInv, ListTypeOK, links
<1>3. Linked'
  BY <1>1 DEF ListInv, ListTypeOK, Linked, links
<1>4. Ordered'
  BY <1>1 DEF ListInv, Ordered, Follows, links
<1> QED BY <1>2, <1>3, <1>4 DEF ListInv

LEMMA StepInv == ListInv /\ [ListNext]_listVars => ListInv'
<1> SUFFICES ASSUME ListInv, [ListNext]_listVars
             PROVE  ListInv'
  OBVIOUS
<1>1. /\ mark \in Node \union {NULL, END} /\ crashed \in {"no", "null", "freed"}
      /\ first \in Nodes \union {NULL} /\ last \in Nodes \union {NULL}
      /\ Nodes \subseteq Node
      /\ \A n \in Nodes : next[n] \in Nodes \union {NULL} /\ prev[n] \in Nodes \union {NULL}
  BY DEF ListInv, ListTypeOK
<1>2. ASSUME NEW n \in Node \ Nodes, InsertAtEnd(n)
      PROVE  ListInv'
  BY <1>2, AppendInv, PrependInv DEF InsertAtEnd
<1>3. CASE Crash("null") \/ Crash("freed")
  BY <1>1, <1>3, CursorInv DEF Crash
<1>4. CASE MoveTo(next) \/ MoveTo(prev)
  <2>1. Crash("null") \/ (crnt' \in Nodes /\ UNCHANGED links /\ Others)
    BY <1>1, <1>4 DEF MoveTo, ListInv, ListTypeOK
  <2> QED BY <1>1, <1>3, <2>1, CursorInv DEF Others
<1>5. CASE Reset(first) \/ Reset(last)
  <2>1. Crash("null") \/ (crnt' \in Nodes /\ UNCHANGED links /\ Others)
    BY <1>1, <1>5 DEF Reset
  <2> QED BY <1>1, <1>3, <2>1, CursorInv DEF Others
<1>6. CASE IterateFirst
  BY <1>1, <1>3, <1>6, CursorInv DEF IterateFirst
<1>7. CASE IterateNext
  BY <1>1, <1>3, <1>7, CursorInv DEF IterateNext
<1>8. CASE NewIteration
  BY <1>1, <1>8, CursorInv DEF NewIteration
<1>9. CASE UNCHANGED listVars
  BY <1>1, <1>9, CursorInv DEF listVars, links
<1>10. CASE DeleteOnly
  BY <1>3, <1>10 DEF DeleteOnly
<1> QED
  BY <1>2, <1>4, <1>5, <1>6, <1>7, <1>8, <1>9, <1>10,
     AppendInv, PrependInv, InsertBetweenInv, DeleteLastInv, DeleteFirstInv, DeleteBetweenInv
     DEF ListNext, ListCalls

LEMMA Invariant == ListSpec => []ListInv
BY InitInv, StepInv, PTL DEF ListSpec

(* Every call keeps the links within the list (dl_list.c). *)
THEOREM ListTypeCorrect == ListSpec => []ListTypeOK
<1>1. ListInv => ListTypeOK
  BY DEF ListInv
<1> QED BY <1>1, Invariant, PTL

(* However the list is changed, the two directions agree and the ends are   *)
(* the ends (insert_dl_list_node, delete_crnt_dl_list_node).                *)
THEOREM LinksAgree == ListSpec => []Linked
<1>1. ListInv => Linked
  BY DEF ListInv
<1> QED BY <1>1, Invariant, PTL
-------------------------------------------------------------------------------
(* The nodes from fst on, along nxt. *)
ChainOf(fst, nxt) ==
  LET node[k \in 1 .. Cardinality(DOMAIN nxt)] == IF k = 1 THEN fst ELSE nxt[node[k - 1]]
  IN  node

(* s lists the nodes, each of them once and in the order of nxt. *)
Lists(s, fst, nxt) ==
  /\ s \in Seq(Node)
  /\ DOMAIN nxt = {s[k] : k \in 1 .. Len(s)}
  /\ \A j, k \in 1 .. Len(s) : s[j] = s[k] => j = k
  /\ fst = IF Len(s) = 0 THEN NULL ELSE s[1]
  /\ \A k \in 1 .. Len(s) : nxt[s[k]] = IF k = Len(s) THEN NULL ELSE s[k + 1]

Chained == \E s \in Seq(Node) : Lists(s, first, next)

(* There are as many nodes as the list is long. *)
LEMMA ListsCount ==
  ASSUME NEW s, NEW fst, NEW nxt, Lists(s, fst, nxt)
  PROVE  Cardinality(DOMAIN nxt) = Len(s)
<1>1. s \in Seq(Node) /\ Len(s) \in Nat
  BY LenProperties DEF Lists
<1>2. s \in [1 .. Len(s) -> DOMAIN nxt]
  BY <1>1 DEF Lists
<1>3. \A m \in DOMAIN nxt : \E k \in 1 .. Len(s) : s[k] = m
  BY DEF Lists
<1>4. \A j, k \in 1 .. Len(s) : s[j] = s[k] => j = k
  BY DEF Lists
<1>5. s \in Bijection(1 .. Len(s), DOMAIN nxt)
  BY <1>2, <1>3, <1>4, Fun_IsBij
<1>6. ExistsBijection(1 .. Len(s), DOMAIN nxt)
  BY <1>5, Fun_ExistsBij
<1> QED BY <1>1, <1>6, FS_CountingElements

(* What lists the nodes is the chain. *)
LEMMA ListsChain ==
  ASSUME NEW s, NEW fst, NEW nxt, Lists(s, fst, nxt)
  PROVE  ChainOf(fst, nxt) = s
<1> DEFINE N == Len(s)
           Is(f) == f = [k \in 1 .. Cardinality(DOMAIN nxt) |-> IF k = 1 THEN fst ELSE nxt[f[k - 1]]]
<1>1. s \in Seq(Node) /\ N \in Nat /\ Cardinality(DOMAIN nxt) = N /\ DOMAIN s = 1 .. N
  BY ListsCount, LenProperties DEF Lists
<1>2. s = [k \in 1 .. N |-> s[k]]
  BY <1>1
<1>3. \A k \in 1 .. N : s[k] = IF k = 1 THEN fst ELSE nxt[s[k - 1]]
  <2> TAKE k \in 1 .. N
  <2>1. CASE k = 1
    <3>1. fst = IF Len(s) = 0 THEN NULL ELSE s[1]
      BY DEF Lists
    <3>2. Len(s) # 0
      BY <1>1, <2>1
    <3> QED BY <2>1, <3>1, <3>2
  <2>2. CASE k # 1
    <3> DEFINE j == k - 1
    <3>1. j \in 1 .. N /\ j # N /\ j + 1 = k
      BY <1>1, <2>2
    <3> HIDE DEF j
    <3>2. nxt[s[j]] = s[j + 1]
      BY <3>1 DEF Lists
    <3> QED BY <2>2, <3>1, <3>2 DEF j
  <2> QED BY <2>1, <2>2
<1>4. Is(s)
  BY <1>1, <1>2, <1>3
<1>5. ASSUME NEW f, Is(f) PROVE f = s
  <2>1. /\ f = [k \in 1 .. N |-> f[k]]
        /\ \A k \in 1 .. N : f[k] = IF k = 1 THEN fst ELSE nxt[f[k - 1]]
    BY <1>1, <1>5
  <2> DEFINE S == {k \in Nat : k \in 1 .. N => f[k] = s[k]}
  <2>2. 0 \in S
    OBVIOUS
  <2>3. ASSUME NEW k \in Nat, k \in S PROVE k + 1 \in S
    <3> SUFFICES ASSUME k + 1 \in 1 .. N PROVE f[k + 1] = s[k + 1]
      OBVIOUS
    <3> DEFINE i == k + 1
    <3>1. i \in 1 .. N /\ i - 1 = k
      OBVIOUS
    <3>2. CASE k = 0
      <4>1. i = 1
        BY <3>2
      <4> HIDE DEF i
      <4>2. f[i] = fst /\ s[i] = fst
        BY <1>3, <2>1, <3>1, <4>1
      <4> QED BY <4>2 DEF i
    <3>3. CASE k # 0
      <4>1. f[k] = s[k] /\ i # 1
        BY <2>3, <3>1, <3>3
      <4> HIDE DEF i, S
      <4>2. f[i] = nxt[f[k]] /\ s[i] = nxt[s[k]]
        BY <1>3, <2>1, <3>1, <4>1
      <4> QED BY <4>1, <4>2 DEF i
    <3> QED BY <3>2, <3>3
  <2>4. Nat \subseteq S
    <3> HIDE DEF S
    <3> QED BY <2>2, <2>3, NatSetInduction
  <2>5. \A k \in 1 .. N : f[k] = s[k]
    BY <2>4
  <2> QED BY <1>2, <2>1, <2>5
<1>6. ChainOf(fst, nxt) = CHOOSE f : Is(f)
  BY DEF ChainOf
<1> HIDE DEF Is
<1> QED BY <1>4, <1>5, <1>6

(* A node that is put in behind the first i of the list. *)
Inserted(s, i, n) == SubSeq(s, 1, i) \o <<n>> \o SubSeq(s, i + 1, Len(s))

LEMMA InsertedParts ==
  ASSUME NEW s \in Seq(Node), NEW i \in 0 .. Len(s), NEW n \in Node
  PROVE  /\ Inserted(s, i, n) \in Seq(Node) /\ Len(Inserted(s, i, n)) = Len(s) + 1
         /\ \A j \in 1 .. i : Inserted(s, i, n)[j] = s[j]
         /\ Inserted(s, i, n)[i + 1] = n
         /\ \A j \in i + 2 .. Len(s) + 1 : Inserted(s, i, n)[j] = s[j - 1]
<1> DEFINE u == Inserted(s, i, n)
           t == <<n>>
           N == Len(s)
<1>1. N \in Nat /\ i \in Nat /\ i <= i /\ i <= N
  BY LenProperties
<1>2. t \in Seq(Node) /\ Len(t) = 1 /\ t[1] = n /\ 1 \in 1 .. 1
  OBVIOUS
<1> HIDE DEF t
<1>3. Spliced(SubSeq(s, 1, i) \o t \o SubSeq(s, i + 1, Len(s)), Node, s, t, i, i)
  BY <1>1, <1>2, SpliceParts
<1>4. Spliced(u, Node, s, t, i, i)
  BY <1>3 DEF Inserted, t
<1> HIDE DEF u
<1>5. /\ u \in Seq(Node) /\ Len(u) = i + 1 + (N - i)
      /\ \A j \in 1 .. i : u[j] = s[j]
      /\ \A j \in 1 .. 1 : u[i + j] = t[j]
      /\ \A j \in 1 .. N - i : u[i + 1 + j] = s[i + j]
  BY <1>2, <1>4 DEF Spliced
<1>6. ASSUME NEW j \in i + 2 .. N + 1 PROVE u[j] = s[j - 1]
  <2> DEFINE k == j - (i + 1)
  <2>1. k \in 1 .. N - i /\ i + 1 + k = j /\ i + k = j - 1
    BY <1>1
  <2> HIDE DEF k
  <2>2. u[i + 1 + k] = s[i + k]
    BY <1>5, <2>1
  <2> QED BY <2>1, <2>2
<1>7. Len(u) = N + 1 /\ u[i + 1] = n
  BY <1>1, <1>2, <1>5
<1> QED BY <1>5, <1>6, <1>7 DEF u, N

(* The links that tell both neighbours of the new node list it between them. *)
LEMMA InsertedLists ==
  ASSUME NEW s, NEW fst, NEW nxt, Lists(s, fst, nxt),
         NEW n \in Node, n \notin DOMAIN nxt, NEW i \in 0 .. Len(s), NEW new,
         DOMAIN new = DOMAIN nxt \union {n},
         new[n] = IF i = Len(s) THEN NULL ELSE s[i + 1],
         i # 0 => new[s[i]] = n,
         \A m \in DOMAIN nxt : (i = 0 \/ m # s[i]) => new[m] = nxt[m]
  PROVE  Lists(Inserted(s, i, n), IF i = 0 THEN n ELSE fst, new)
<1> DEFINE N == Len(s)
           u == Inserted(s, i, n)
<1>1. s \in Seq(Node) /\ N \in Nat /\ i \in Nat /\ i <= N
  BY LenProperties DEF Lists
<1>2. /\ DOMAIN nxt = {s[k] : k \in 1 .. N}
      /\ \A j, k \in 1 .. N : s[j] = s[k] => j = k
      /\ \A k \in 1 .. N : nxt[s[k]] = IF k = N THEN NULL ELSE s[k + 1]
  BY DEF Lists
<1>3. fst = IF N = 0 THEN NULL ELSE s[1]
  BY DEF Lists
<1>4. /\ u \in Seq(Node) /\ Len(u) = N + 1
      /\ \A j \in 1 .. i : u[j] = s[j]
      /\ u[i + 1] = n
      /\ \A j \in i + 2 .. N + 1 : u[j] = s[j - 1]
  BY <1>1, InsertedParts
<1> HIDE DEF u, N
<1> DEFINE Old(j) == IF j <= i THEN j ELSE j - 1
<1>5. ASSUME NEW j \in 1 .. N + 1, j # i + 1
      PROVE  /\ Old(j) \in 1 .. N /\ u[j] = s[Old(j)] /\ u[j] \in DOMAIN nxt
             /\ Old(j) # N => Old(j) + 1 \in 1 .. N
  <2>1. Old(j) \in 1 .. N /\ (Old(j) # N => Old(j) + 1 \in 1 .. N)
    BY <1>1, <1>5
  <2>2. u[j] = s[Old(j)]
    <3>1. CASE j \in 1 .. i
      BY <1>4, <3>1
    <3>2. CASE j \in i + 2 .. N + 1
      BY <1>1, <1>4, <3>2
    <3> QED BY <1>1, <1>5, <3>1, <3>2
  <2> HIDE DEF Old
  <2> QED BY <1>2, <2>1, <2>2
<1>6. DOMAIN new = {u[k] : k \in 1 .. N + 1}
  <2>1. ASSUME NEW m \in DOMAIN nxt PROVE \E k \in 1 .. N + 1 : u[k] = m
    <3>1. PICK k \in 1 .. N : s[k] = m
      BY <1>2
    <3>2. CASE k <= i
      <4>1. k \in 1 .. i /\ k \in 1 .. N + 1
        BY <1>1, <3>2
      <4> QED BY <1>4, <3>1, <4>1
    <3>3. CASE k > i
      <4> DEFINE j == k + 1
      <4>1. j \in i + 2 .. N + 1 /\ j \in 1 .. N + 1 /\ j - 1 = k
        BY <1>1, <3>3
      <4> HIDE DEF j
      <4> QED BY <1>4, <3>1, <4>1
    <3> QED BY <1>1, <3>2, <3>3
  <2>2. i + 1 \in 1 .. N + 1
    BY <1>1
  <2>3. \A j \in 1 .. N + 1 : u[j] \in DOMAIN nxt \union {n}
    BY <1>4, <1>5
  <2> QED BY <1>4, <2>1, <2>2, <2>3
<1>7. ASSUME NEW j \in 1 .. N + 1, NEW k \in 1 .. N + 1, u[j] = u[k] PROVE j = k
  <2>1. CASE j # i + 1 /\ k # i + 1
    <3>1. Old(j) = Old(k)
      <4>1. /\ Old(j) \in 1 .. N /\ u[j] = s[Old(j)]
            /\ Old(k) \in 1 .. N /\ u[k] = s[Old(k)]
        BY <1>5, <2>1
      <4> HIDE DEF Old
      <4> QED BY <1>2, <1>7, <4>1
    <3> QED BY <1>1, <2>1, <3>1
  <2>2. CASE j = i + 1 /\ k # i + 1
    BY <1>4, <1>5, <1>7, <2>2
  <2>3. CASE j # i + 1 /\ k = i + 1
    BY <1>4, <1>5, <1>7, <2>3
  <2> QED BY <2>1, <2>2, <2>3
<1>8. (IF i = 0 THEN n ELSE fst) = u[1]
  <2>1. CASE i = 0
    <3>1. i + 1 = 1
      BY <2>1
    <3> QED BY <1>4, <2>1, <3>1
  <2>2. CASE i # 0
    <3>1. 1 \in 1 .. i /\ N # 0
      BY <1>1, <2>2
    <3> QED BY <1>3, <1>4, <2>2, <3>1
  <2> QED BY <2>1, <2>2
<1>9. ASSUME NEW k \in 1 .. N + 1
      PROVE  new[u[k]] = IF k = N + 1 THEN NULL ELSE u[k + 1]
  <2>1. CASE k = i + 1
    <3>1. CASE i = N
      BY <1>4, <2>1, <3>1 DEF N
    <3>2. CASE i # N
      <4> DEFINE j == k + 1
      <4>1. j \in i + 2 .. N + 1 /\ j - 1 = i + 1 /\ k # N + 1
        BY <1>1, <2>1, <3>2
      <4> HIDE DEF j
      <4>2. u[j] = s[i + 1]
        BY <1>4, <4>1
      <4>3. new[n] = s[i + 1]
        BY <3>2 DEF N
      <4> QED BY <1>4, <2>1, <4>1, <4>2, <4>3 DEF j
    <3> QED BY <3>1, <3>2
  <2>2. CASE k = i
    <3>1. k \in 1 .. i /\ k # N + 1 /\ i # 0
      BY <1>1, <2>2
    <3>2. u[k] = s[i]
      BY <1>4, <2>2, <3>1
    <3> QED BY <1>4, <2>2, <3>1, <3>2
  <2>3. CASE k # i /\ k # i + 1
    <3> DEFINE o == Old(k)
    <3>1. /\ o \in 1 .. N /\ u[k] = s[o] /\ u[k] \in DOMAIN nxt
          /\ o # N => o + 1 \in 1 .. N
      BY <1>5, <2>3
    <3>2. o # i /\ (o = N <=> k = N + 1)
      BY <1>1, <2>3
    <3>3. (k # N + 1) => k + 1 \in 1 .. N + 1 /\ k + 1 # i + 1 /\ Old(k + 1) = o + 1
      BY <1>1, <2>3
    <3> HIDE DEF o, Old
    <3>4. i = 0 \/ u[k] # s[i]
      <4>1. i # 0 => i \in 1 .. N
        BY <1>1
      <4> QED BY <1>2, <3>1, <3>2, <4>1
    <3>5. new[u[k]] = IF o = N THEN NULL ELSE s[o + 1]
      BY <1>2, <3>1, <3>4
    <3>6. (k # N + 1) => u[k + 1] = s[o + 1]
      <4> DEFINE j == k + 1
      <4>1. ASSUME k # N + 1 PROVE j \in 1 .. N + 1 /\ j # i + 1 /\ Old(j) = o + 1
        BY <3>3, <4>1
      <4> HIDE DEF j
      <4>2. ASSUME k # N + 1 PROVE u[j] = s[o + 1]
        <5>1. u[j] = s[Old(j)]
          BY <1>5, <4>1, <4>2 DEF Old
        <5> QED BY <4>1, <4>2, <5>1
      <4> QED BY <4>2 DEF j
    <3> QED BY <3>2, <3>5, <3>6
  <2> QED BY <2>1, <2>2, <2>3
<1>10. Len(u) # 0
  BY <1>1, <1>4
<1> QED BY <1>4, <1>6, <1>7, <1>8, <1>9, <1>10 DEF Lists, u

(* The node at place i taken out. *)
Removed(s, i) == SubSeq(s, 1, i - 1) \o SubSeq(s, i + 1, Len(s))

LEMMA RemovedParts ==
  ASSUME NEW s \in Seq(Node), NEW i \in 1 .. Len(s)
  PROVE  /\ Removed(s, i) \in Seq(Node) /\ Len(Removed(s, i)) = Len(s) - 1
         /\ \A j \in 1 .. i - 1 : Removed(s, i)[j] = s[j]
         /\ \A j \in i .. Len(s) - 1 : Removed(s, i)[j] = s[j + 1]
<1> DEFINE N == Len(s)
           h == i - 1
           a == SubSeq(s, 1, h)
           b == SubSeq(s, i + 1, N)
<1>1. N \in Nat /\ i \in Nat /\ h \in Nat /\ 0 <= h /\ h <= N /\ i <= N /\ h - 0 = h /\ 0 + 1 = 1
  BY LenProperties
<1>2. a \in Seq(Node) /\ Len(a) = h /\ \A j \in 1 .. h : a[j] = s[j]
  <2> HIDE DEF h
  <2>1. /\ SubSeq(s, 0 + 1, h) \in Seq(Node) /\ Len(SubSeq(s, 0 + 1, h)) = h - 0
        /\ \A j \in 1 .. h - 0 : SubSeq(s, 0 + 1, h)[j] = s[0 + j]
    BY <1>1, SubSeqParts
  <2>2. \A j \in 1 .. h : 0 + j = j
    OBVIOUS
  <2> QED BY <1>1, <2>1, <2>2
<1>3. b \in Seq(Node) /\ Len(b) = N - i /\ \A j \in 1 .. N - i : b[j] = s[i + j]
  BY <1>1, SubSeqParts
<1> DEFINE u == a \o b
<1>4. u = Removed(s, i)
  BY DEF Removed
<1> HIDE DEF a, b
<1>5. /\ u \in Seq(Node) /\ Len(u) = h + (N - i)
      /\ \A j \in 1 .. h : u[j] = a[j]
      /\ \A j \in 1 .. N - i : u[h + j] = b[j]
  <2>1. Concats(Node)
    BY ConcatParts
  <2>2. /\ u \in Seq(Node) /\ Len(u) = Len(a) + Len(b)
        /\ \A j \in 1 .. Len(a) : u[j] = a[j]
        /\ \A j \in 1 .. Len(b) : u[Len(a) + j] = b[j]
    BY <1>2, <1>3, <2>1 DEF Concats
  <2> HIDE DEF u
  <2> QED BY <1>2, <1>3, <2>2
<1> HIDE DEF u
<1>6. ASSUME NEW j \in i .. N - 1 PROVE u[j] = s[j + 1]
  <2> DEFINE k == j - h
  <2>1. k \in 1 .. N - i /\ h + k = j /\ i + k = j + 1
    BY <1>1
  <2> HIDE DEF k
  <2>2. u[h + k] = b[k] /\ b[k] = s[i + k]
    BY <1>3, <1>5, <2>1
  <2> QED BY <2>1, <2>2
<1>7. h + (N - i) = N - 1
  BY <1>1
<1> QED BY <1>2, <1>4, <1>5, <1>6, <1>7

(* The links that tell both neighbours of a node of each other list the others. *)
LEMMA RemovedLists ==
  ASSUME NEW s, NEW fst, NEW nxt, Lists(s, fst, nxt),
         NEW i \in 1 .. Len(s), Len(s) > 1, NEW new,
         DOMAIN new = DOMAIN nxt \ {s[i]},
         i # 1 => new[s[i - 1]] = IF i = Len(s) THEN NULL ELSE s[i + 1],
         \A m \in DOMAIN new : (i = 1 \/ m # s[i - 1]) => new[m] = nxt[m]
  PROVE  Lists(Removed(s, i), IF i = 1 THEN s[2] ELSE fst, new)
<1> DEFINE N == Len(s)
           u == Removed(s, i)
           h == i - 1
<1>1. s \in Seq(Node) /\ N \in Nat /\ i \in 1 .. N /\ N > 1 /\ h \in Nat /\ h + 1 = i
  BY LenProperties DEF Lists
<1>2. /\ DOMAIN nxt = {s[k] : k \in 1 .. N}
      /\ \A j, k \in 1 .. N : s[j] = s[k] => j = k
      /\ \A k \in 1 .. N : nxt[s[k]] = IF k = N THEN NULL ELSE s[k + 1]
  BY DEF Lists
<1>3. fst = IF N = 0 THEN NULL ELSE s[1]
  BY DEF Lists
<1>4. /\ u \in Seq(Node) /\ Len(u) = N - 1
      /\ \A j \in 1 .. h : u[j] = s[j]
      /\ \A j \in i .. N - 1 : u[j] = s[j + 1]
  BY <1>1, RemovedParts
<1>5. /\ i # 1 => new[s[h]] = IF i = N THEN NULL ELSE s[i + 1]
      /\ \A m \in DOMAIN new : (i = 1 \/ m # s[h]) => new[m] = nxt[m]
  OBVIOUS
<1> HIDE DEF u, N, h
<1> DEFINE Old(j) == IF j < i THEN j ELSE j + 1
<1>6. ASSUME NEW j \in 1 .. N - 1
      PROVE  Old(j) \in 1 .. N /\ Old(j) # i /\ u[j] = s[Old(j)]
  <2>1. Old(j) \in 1 .. N /\ Old(j) # i
    BY <1>1
  <2>2. CASE j \in 1 .. h
    <3>1. j < i
      BY <1>1, <2>2
    <3> QED BY <1>4, <2>1, <2>2, <3>1
  <2>3. CASE j \in i .. N - 1
    <3>1. ~(j < i)
      BY <1>1, <2>3
    <3> QED BY <1>4, <2>1, <2>3, <3>1
  <2> QED BY <1>1, <2>2, <2>3
<1>7. DOMAIN new = {u[k] : k \in 1 .. N - 1}
  <2>1. ASSUME NEW m \in DOMAIN nxt, m # s[i] PROVE \E k \in 1 .. N - 1 : u[k] = m
    <3>1. PICK k \in 1 .. N : s[k] = m
      BY <1>2
    <3>2. CASE k < i
      <4>1. k \in 1 .. h /\ k \in 1 .. N - 1
        BY <1>1, <3>2
      <4> QED BY <1>4, <3>1, <4>1
    <3>3. CASE k > i
      <4> DEFINE j == k - 1
      <4>1. j \in i .. N - 1 /\ j \in 1 .. N - 1 /\ j + 1 = k
        BY <1>1, <3>3
      <4> HIDE DEF j
      <4> QED BY <1>4, <3>1, <4>1
    <3>4. k # i
      BY <2>1, <3>1
    <3> QED BY <1>1, <3>2, <3>3, <3>4
  <2>2. \A j \in 1 .. N - 1 : u[j] \in DOMAIN nxt /\ u[j] # s[i]
    <3> TAKE j \in 1 .. N - 1
    <3>1. Old(j) \in 1 .. N /\ Old(j) # i /\ u[j] = s[Old(j)]
      BY <1>6
    <3> HIDE DEF Old
    <3> QED BY <1>1, <1>2, <3>1
  <2> QED BY <2>1, <2>2
<1>8. ASSUME NEW j \in 1 .. N - 1, NEW k \in 1 .. N - 1, u[j] = u[k] PROVE j = k
  <2>1. Old(j) = Old(k)
    <3>1. Old(j) \in 1 .. N /\ u[j] = s[Old(j)] /\ Old(k) \in 1 .. N /\ u[k] = s[Old(k)]
      BY <1>6
    <3> HIDE DEF Old
    <3> QED BY <1>2, <1>8, <3>1
  <2> QED BY <1>1, <2>1
<1>9. (IF i = 1 THEN s[2] ELSE fst) = u[1]
  <2>1. CASE i = 1
    <3>1. 1 \in i .. N - 1 /\ 1 + 1 = 2
      BY <1>1, <2>1
    <3> QED BY <1>4, <2>1, <3>1
  <2>2. CASE i # 1
    <3>1. 1 \in 1 .. h /\ N # 0
      BY <1>1, <2>2
    <3> QED BY <1>3, <1>4, <2>2, <3>1
  <2> QED BY <2>1, <2>2
<1>10. ASSUME NEW k \in 1 .. N - 1
       PROVE  new[u[k]] = IF k = N - 1 THEN NULL ELSE u[k + 1]
  <2>1. CASE k = h
    <3>1. i # 1 /\ k \in 1 .. h
      BY <1>1, <2>1
    <3>2. u[k] = s[h]
      BY <1>4, <2>1, <3>1
    <3>3. i = N <=> k = N - 1
      BY <1>1, <2>1
    <3>4. ASSUME i # N PROVE u[k + 1] = s[i + 1]
      <4>1. i \in i .. N - 1
        BY <1>1, <3>4
      <4> QED BY <1>1, <1>4, <2>1, <4>1
    <3> QED BY <1>5, <3>1, <3>2, <3>3, <3>4
  <2>2. CASE k # h
    <3> DEFINE o == Old(k)
    <3>1. o \in 1 .. N /\ u[k] = s[o] /\ u[k] \in DOMAIN new
      BY <1>6, <1>7
    <3>2. o # h /\ (o = N <=> k = N - 1)
      BY <1>1, <2>2
    <3>3. (k # N - 1) => k + 1 \in 1 .. N - 1 /\ Old(k + 1) = o + 1
      BY <1>1, <2>2
    <3> HIDE DEF o, Old
    <3>4. i = 1 \/ u[k] # s[h]
      <4>1. i # 1 => h \in 1 .. N
        BY <1>1
      <4> QED BY <1>2, <3>1, <3>2, <4>1
    <3>5. new[u[k]] = IF o = N THEN NULL ELSE s[o + 1]
      <4>1. new[u[k]] = nxt[u[k]]
        BY <1>5, <3>1, <3>4
      <4> QED BY <1>2, <3>1, <4>1
    <3>6. ASSUME k # N - 1 PROVE u[k + 1] = s[o + 1]
      <4> DEFINE j == k + 1
      <4>1. j \in 1 .. N - 1 /\ Old(j) = o + 1
        BY <3>3, <3>6
      <4> HIDE DEF j
      <4>2. u[j] = s[Old(j)]
        BY <1>6, <4>1 DEF Old
      <4> QED BY <4>1, <4>2 DEF j
    <3> QED BY <3>2, <3>5, <3>6
  <2> QED BY <2>1, <2>2
<1>11. Len(u) # 0
  BY <1>1, <1>4
<1> QED BY <1>4, <1>7, <1>8, <1>9, <1>10, <1>11 DEF Lists, u

-------------------------------------------------------------------------------
LEMMA ChainIs == Chain = ChainOf(first, next)
  BY Zenon DEF Chain, ChainOf, Nodes

LEMMA ChainBecomes == Chain' = ChainOf(first', next')
  BY Zenon DEF Chain, ChainOf, Nodes

(* The ends and the backward links, in terms of the list; every node has    *)
(* its place in it.                                                         *)
LEMMA ListsEnds ==
  ASSUME ListInv, NEW s, Lists(s, first, next)
  PROVE  /\ s \in Seq(Node) /\ Len(s) \in Nat /\ DOMAIN s = 1 .. Len(s)
         /\ NULL \notin Nodes
         /\ \A j, k \in 1 .. Len(s) : s[j] = s[k] => j = k
         /\ \A k \in 1 .. Len(s) :
              /\ s[k] \in Nodes
              /\ next[s[k]] = (IF k = Len(s) THEN NULL ELSE s[k + 1])
              /\ prev[s[k]] = (IF k = 1 THEN NULL ELSE s[k - 1])
         /\ \A m \in Nodes : \E k \in 1 .. Len(s) : s[k] = m
         /\ Len(s) = 0 => Nodes = {} /\ first = NULL /\ last = NULL /\ crnt = NULL
         /\ Len(s) # 0 => /\ first = s[1] /\ last = s[Len(s)]
                          /\ \E c \in 1 .. Len(s) : s[c] = crnt
                          /\ first # NULL /\ last # NULL /\ crnt # NULL
<1> DEFINE N == Len(s)
<1>1. s \in Seq(Node) /\ N \in Nat /\ DOMAIN s = 1 .. N
  BY LenProperties DEF Lists
<1>2. NULL \notin Nodes
  BY NodeAssumption DEF ListInv, ListTypeOK
<1>3. /\ Nodes = {s[k] : k \in 1 .. N}
      /\ \A j, k \in 1 .. N : s[j] = s[k] => j = k
      /\ \A k \in 1 .. N : next[s[k]] = IF k = N THEN NULL ELSE s[k + 1]
  BY DEF Lists, Nodes
<1>4. first = IF N = 0 THEN NULL ELSE s[1]
  BY DEF Lists
<1>5. /\ \A n \in Nodes : next[n] # NULL => next[n] \in Nodes /\ prev[next[n]] = n
      /\ \A n \in Nodes : prev[n] # NULL => prev[n] \in Nodes /\ next[prev[n]] = n
      /\ \A n \in Nodes : next[n] = NULL <=> n = last
      /\ \A n \in Nodes : prev[n] = NULL <=> n = first
      /\ IF Nodes = {} THEN {first, last, crnt} = {NULL} ELSE {first, last, crnt} \subseteq Nodes
  BY DEF ListInv, Linked
<1> HIDE DEF N
<1>6. ASSUME NEW k \in 1 .. N PROVE prev[s[k]] = IF k = 1 THEN NULL ELSE s[k - 1]
  <2>1. CASE k = 1
    <3>1. N # 0
      BY <1>1, <2>1
    <3> QED BY <1>3, <1>4, <1>5, <2>1, <3>1
  <2>2. CASE k # 1
    <3> DEFINE j == k - 1
    <3>1. j \in 1 .. N /\ j # N /\ j + 1 = k
      BY <1>1, <2>2
    <3> HIDE DEF j
    <3>2. next[s[j]] = s[k] /\ s[j] \in Nodes /\ s[k] \in Nodes
      BY <1>3, <3>1
    <3> QED BY <1>2, <1>5, <2>2, <3>2 DEF j
  <2> QED BY <2>1, <2>2
<1>7. ASSUME N = 0 PROVE Nodes = {} /\ first = NULL /\ last = NULL /\ crnt = NULL
  <2>1. Nodes = {}
    BY <1>1, <1>3, <1>7
  <2> QED BY <1>5, <2>1
<1>8. ASSUME N # 0
      PROVE  /\ first = s[1] /\ last = s[N] /\ first # NULL /\ last # NULL /\ crnt # NULL
             /\ \E c \in 1 .. N : s[c] = crnt
  <2>1. 1 \in 1 .. N /\ N \in 1 .. N
    BY <1>1, <1>8
  <2>2. s[1] \in Nodes /\ s[N] \in Nodes /\ next[s[N]] = NULL
    BY <1>3, <2>1
  <2>3. crnt \in Nodes /\ first \in Nodes /\ last \in Nodes
    BY <1>5, <2>2
  <2> QED BY <1>2, <1>3, <1>4, <1>5, <1>8, <2>2, <2>3
<1>9. \A k \in 1 .. N : s[k] \in Nodes
  BY <1>3
<1>10. \A m \in Nodes : \E k \in 1 .. N : s[k] = m
  BY <1>3
<1> QED BY <1>1, <1>2, <1>3, <1>6, <1>7, <1>8, <1>9, <1>10 DEF N

(* What the abstract list looks up. *)
LEMMA Places ==
  ASSUME ListInv, NEW s, Lists(s, first, next)
  PROVE  /\ Chain = s
         /\ L!ToSet(Chain) = Nodes
         /\ Len(s) # 0 => L!Last(Chain) = s[Len(s)] /\ Chain # << >> /\ Head(Chain) = s[1]
         /\ \A k \in 1 .. Len(s) : L!IndexOf(s[k]) = k
<1>1. Chain = s
  BY ChainIs, ListsChain
<1>2. /\ s \in Seq(Node) /\ Len(s) \in Nat /\ DOMAIN s = 1 .. Len(s)
      /\ \A j, k \in 1 .. Len(s) : s[j] = s[k] => j = k
      /\ \A k \in 1 .. Len(s) : s[k] \in Nodes
      /\ \A m \in Nodes : \E k \in 1 .. Len(s) : s[k] = m
  BY ListsEnds
<1>3. L!ToSet(Chain) = Nodes
  BY <1>1, <1>2 DEF L!ToSet
<1>4. Len(s) # 0 => L!Last(Chain) = s[Len(s)] /\ Chain # << >> /\ Head(Chain) = s[1]
  BY <1>1, <1>2 DEF L!Last
<1>5. ASSUME NEW k \in 1 .. Len(s) PROVE L!IndexOf(s[k]) = k
  <2>1. L!IndexOf(s[k]) = CHOOSE j \in DOMAIN s : s[j] = s[k]
    BY <1>1 DEF L!IndexOf
  <2> QED BY <1>2, <2>1
<1> QED BY <1>1, <1>3, <1>4, <1>5

(* A node put in behind the first i is put in at place i + 1. *)
LEMMA PutStep ==
  ASSUME ListInv, NEW s, Lists(s, first, next), NEW n \in Node, n \notin Nodes,
         NEW i \in 0 .. Len(s), Lists(Inserted(s, i, n), first', next'),
         crnt' = (IF Len(s) = 0 THEN n ELSE crnt), mark' = mark
  PROVE  Chained' /\ L!Put(n, i + 1)
<1> DEFINE t == Inserted(s, i, n)
<1>1. Chain = s /\ L!ToSet(Chain) = Nodes /\ s \in Seq(Node) /\ Len(s) \in Nat
  BY Places, ListsEnds
<1>2. Chain' = t
  BY ChainBecomes, ListsChain
<1>3. t = L!InsertAt(s, i + 1, n)
  <2>1. (i + 1) - 1 = i
    BY <1>1
  <2> QED BY <2>1 DEF Inserted, L!InsertAt
<1>4. Len(s) = 0 <=> s = << >>
  BY <1>1
<1>5. Chained'
  BY DEF Chained, Lists
<1> HIDE DEF t
<1>6. L!Put(n, i + 1)
  BY <1>1, <1>2, <1>3, <1>4 DEF L!Put
<1> QED BY <1>5, <1>6

LEMMA AppendStep ==
  ASSUME ListInv, NEW s, Lists(s, first, next), NEW n \in Node, n \notin Nodes, AppendNode(n)
  PROVE  Chained' /\ L!AddLast(n)
<1> DEFINE i == Len(s)
<1>1. /\ NULL \notin Nodes /\ i \in Nat
      /\ i # 0 => last = s[i] /\ last \in Nodes /\ last # NULL
      /\ i = 0 => Nodes = {} /\ last = NULL
  <2>1. i # 0 => i \in 1 .. i
    BY ListsEnds
  <2> QED BY <2>1, ListsEnds
<1>2. /\ DOMAIN next' = DOMAIN next \union {n} /\ next'[n] = NULL
      /\ i # 0 => next'[s[i]] = n
      /\ \A m \in DOMAIN next : (i = 0 \/ m # s[i]) => next'[m] = next[m]
  BY <1>1 DEF AppendNode, Nodes
<1>3. first' = (IF i = 0 THEN n ELSE first) /\ crnt' = (IF i = 0 THEN n ELSE crnt) /\ mark' = mark
  BY <1>1 DEF AppendNode, Others
<1>4. i \in 0 .. Len(s) /\ next'[n] = IF i = Len(s) THEN NULL ELSE s[i + 1]
  BY <1>1, <1>2
<1>5. Lists(Inserted(s, i, n), first', next')
  <2> HIDE DEF i
  <2>1. Lists(Inserted(s, i, n), IF i = 0 THEN n ELSE first, next')
    BY <1>2, <1>4, InsertedLists DEF Nodes
  <2> QED BY <1>3, <2>1
<1>6. Chained' /\ L!Put(n, i + 1)
  BY <1>3, <1>4, <1>5, PutStep
<1>7. L!Size = i
  BY Places DEF L!Size
<1> QED BY <1>6, <1>7 DEF L!AddLast

LEMMA PrependStep ==
  ASSUME ListInv, NEW s, Lists(s, first, next), NEW n \in Node, n \notin Nodes, PrependNode(n)
  PROVE  Chained' /\ L!AddFirst(n)
<1> DEFINE i == 0
<1>1. /\ NULL \notin Nodes /\ Len(s) \in Nat
      /\ Len(s) # 0 => first = s[1] /\ first # NULL
      /\ Len(s) = 0 => Nodes = {} /\ first = NULL
  BY ListsEnds
<1>2. /\ DOMAIN next' = DOMAIN next \union {n} /\ next'[n] = first
      /\ \A m \in DOMAIN next : next'[m] = next[m]
  BY DEF PrependNode, Nodes
<1>3. first' = n /\ crnt' = (IF Len(s) = 0 THEN n ELSE crnt) /\ mark' = mark
  BY <1>1 DEF PrependNode, Others
<1>4. i \in 0 .. Len(s) /\ next'[n] = IF i = Len(s) THEN NULL ELSE s[i + 1]
  BY <1>1, <1>2
<1>5. Lists(Inserted(s, i, n), first', next')
  <2>1. i = 0
    OBVIOUS
  <2> HIDE DEF i
  <2>2. Lists(Inserted(s, i, n), IF i = 0 THEN n ELSE first, next')
    BY <1>2, <1>4, <2>1, InsertedLists DEF Nodes
  <2> QED BY <1>3, <2>1, <2>2
<1>6. i + 1 = 1
  OBVIOUS
<1> HIDE DEF i
<1>7. Chained' /\ L!Put(n, i + 1)
  BY <1>3, <1>4, <1>5, PutStep
<1> QED BY <1>6, <1>7 DEF L!AddFirst

(* insert_dl_list_node puts a node in behind the current one, or in front of *)
(* it when it is the first.                                                  *)
LEMMA InsertAtEndStep ==
  ASSUME ListInv, NEW s, Lists(s, first, next), NEW n \in Node, n \notin Nodes, InsertAtEnd(n)
  PROVE  Chained' /\ IF crnt = first THEN L!AddFirst(n) ELSE L!Insert(n)
<1>1. /\ NULL \notin Nodes /\ Len(s) \in Nat
      /\ Len(s) = 0 => crnt = NULL
  BY ListsEnds
<1>2. crnt # NULL /\ Len(s) # 0
  BY <1>1 DEF InsertAtEnd
<1>3. PICK c \in 1 .. Len(s) : s[c] = crnt
  BY <1>2, ListsEnds
<1>4. /\ next[crnt] = (IF c = Len(s) THEN NULL ELSE s[c + 1])
      /\ prev[crnt] = (IF c = 1 THEN NULL ELSE s[c - 1])
      /\ \A j, k \in 1 .. Len(s) : s[j] = s[k] => j = k
      /\ \A k \in 1 .. Len(s) : s[k] \in Nodes
  BY <1>3, ListsEnds
<1>5. Chain # << >> /\ Head(Chain) = s[1] /\ L!IndexOf(crnt) = c
  BY <1>2, <1>3, Places
<1>6. CASE c = 1
  <2>1. PrependNode(n)
    BY <1>4, <1>6 DEF InsertAtEnd
  <2>2. Chained' /\ L!AddFirst(n)
    BY <2>1, PrependStep
  <2>3. crnt = first
    BY <1>2, <1>3, <1>6, ListsEnds
  <2> QED BY <2>2, <2>3
<1>7. CASE c # 1
  <2>1. c - 1 \in 1 .. Len(s)
    BY <1>1, <1>7
  <2>2. prev[crnt] # NULL
    BY <1>1, <1>4, <1>7, <2>1
  <2>3. AppendNode(n) /\ next[crnt] = NULL
    BY <2>2 DEF InsertAtEnd
  <2>4. c = Len(s)
    <3>1. c # Len(s) => c + 1 \in 1 .. Len(s)
      BY <1>1
    <3> QED BY <1>1, <1>4, <2>3, <3>1
  <2>5. Chained' /\ L!AddLast(n) /\ L!Size = c
    BY <2>3, <2>4, AppendStep, Places DEF L!Size
  <2>6. crnt # first
    <3>1. 1 \in 1 .. Len(s) /\ first = s[1]
      BY <1>1, <1>2, ListsEnds
    <3> QED BY <1>3, <1>4, <1>7, <3>1
  <2> QED BY <1>5, <2>5, <2>6 DEF L!Insert, L!AddLast
<1> QED BY <1>6, <1>7

LEMMA InsertBetweenStep ==
  ASSUME ListInv, NEW s, Lists(s, first, next), NEW n \in Node, n \notin Nodes, InsertBetween(n)
  PROVE  Chained' /\ crnt # first /\ L!Insert(n)
<1>1. /\ NULL \notin Nodes /\ Len(s) \in Nat
      /\ Len(s) = 0 => crnt = NULL
  BY ListsEnds
<1>2. crnt # NULL /\ Len(s) # 0 /\ prev[crnt] # NULL /\ next[crnt] # NULL
  BY <1>1 DEF InsertBetween
<1>3. PICK c \in 1 .. Len(s) : s[c] = crnt
  BY <1>2, ListsEnds
<1>4. /\ next[crnt] = (IF c = Len(s) THEN NULL ELSE s[c + 1])
      /\ prev[crnt] = (IF c = 1 THEN NULL ELSE s[c - 1])
      /\ \A j, k \in 1 .. Len(s) : s[j] = s[k] => j = k
      /\ crnt \in Nodes
  BY <1>3, ListsEnds
<1>5. Chain # << >> /\ Head(Chain) = s[1] /\ L!IndexOf(crnt) = c
  BY <1>2, <1>3, Places
<1>6. c # 1 /\ c # Len(s) /\ c # 0 /\ c \in 0 .. Len(s)
  BY <1>1, <1>2, <1>4
<1>7. /\ DOMAIN next' = DOMAIN next \union {n} /\ next'[n] = next[crnt]
      /\ next'[crnt] = n
      /\ \A m \in DOMAIN next : m # crnt => next'[m] = next[m]
  BY <1>4 DEF InsertBetween, Nodes
<1>8. first' = first /\ crnt' = crnt /\ mark' = mark
  BY DEF InsertBetween, Others
<1>9. Lists(Inserted(s, c, n), first', next')
  <2>1. next'[n] = IF c = Len(s) THEN NULL ELSE s[c + 1]
    BY <1>4, <1>7
  <2>2. /\ c # 0 => next'[s[c]] = n
        /\ \A m \in DOMAIN next : (c = 0 \/ m # s[c]) => next'[m] = next[m]
    BY <1>3, <1>6, <1>7
  <2>3. Lists(Inserted(s, c, n), IF c = 0 THEN n ELSE first, next')
    BY <1>6, <1>7, <2>1, <2>2, InsertedLists DEF Nodes
  <2> QED BY <1>6, <1>8, <2>3
<1>10. Chained' /\ L!Put(n, c + 1)
  BY <1>2, <1>6, <1>8, <1>9, PutStep
<1>11. crnt # first
  <2>1. 1 \in 1 .. Len(s) /\ first = s[1]
    BY <1>1, <1>2, ListsEnds
  <2> QED BY <1>3, <1>4, <1>6, <2>1
<1> QED BY <1>5, <1>10, <1>11 DEF L!Insert

-------------------------------------------------------------------------------
LEMMA TakeOutStep ==
  ASSUME ListInv, NEW s, Lists(s, first, next), NEW c \in 1 .. Len(s), s[c] = crnt, Len(s) > 1,
         Lists(Removed(s, c), first', next'),
         crnt' = (IF c < Len(s) THEN s[c + 1] ELSE s[c - 1]), mark' = mark
  PROVE  Chained' /\ L!Delete
<1> DEFINE t == Removed(s, c)
<1>1. Chain = s /\ s \in Seq(Node) /\ Len(s) \in Nat /\ L!IndexOf(crnt) = c
  BY Places, ListsEnds
<1>2. Chain' = t
  BY ChainBecomes, ListsChain
<1>3. t = L!RemoveAt(s, c)
  BY DEF Removed, L!RemoveAt
<1>4. Chained'
  BY DEF Chained, Lists
<1>5. /\ \A j \in 1 .. c - 1 : t[j] = s[j]
      /\ \A j \in c .. Len(s) - 1 : t[j] = s[j + 1]
  BY <1>1, RemovedParts
<1> HIDE DEF t
<1>6. crnt' = t[IF c < Len(s) THEN c ELSE Len(s) - 1]
  <2>1. CASE c < Len(s)
    <3>1. c \in c .. Len(s) - 1
      BY <1>1, <2>1
    <3> QED BY <1>5, <2>1, <3>1
  <2>2. CASE ~(c < Len(s))
    <3>1. c = Len(s) /\ c - 1 \in 1 .. c - 1
      BY <1>1, <2>2
    <3> QED BY <1>5, <2>2, <3>1
  <2> QED BY <2>1, <2>2
<1>7. L!Size = Len(s)
  BY <1>1 DEF L!Size
<1> QED BY <1>1, <1>2, <1>3, <1>4, <1>6, <1>7 DEF L!Delete

(* The place of the current node, from the links that it has. *)
LEMMA CrntPlace ==
  ASSUME ListInv, NEW s, Lists(s, first, next), crnt # NULL
  PROVE  \E c \in 1 .. Len(s) :
           /\ s[c] = crnt /\ crnt \in Nodes /\ crnt # NULL
           /\ next[crnt] = NULL <=> c = Len(s)
           /\ prev[crnt] = NULL <=> c = 1
           /\ c # Len(s) => /\ c + 1 \in 1 .. Len(s) /\ next[crnt] = s[c + 1]
                            /\ s[c + 1] \in Nodes /\ s[c + 1] # crnt
           /\ c # 1 => /\ c - 1 \in 1 .. Len(s) /\ prev[crnt] = s[c - 1]
                       /\ s[c - 1] \in Nodes /\ s[c - 1] # crnt
           /\ \A m \in Nodes : m # crnt => \E k \in 1 .. Len(s) : k # c /\ s[k] = m
<1>1. /\ NULL \notin Nodes /\ Len(s) \in Nat
      /\ Len(s) = 0 => crnt = NULL
  BY ListsEnds
<1>2. PICK c \in 1 .. Len(s) : s[c] = crnt
  BY <1>1, ListsEnds
<1>3. /\ next[crnt] = (IF c = Len(s) THEN NULL ELSE s[c + 1])
      /\ prev[crnt] = (IF c = 1 THEN NULL ELSE s[c - 1])
      /\ crnt \in Nodes
      /\ \A k \in 1 .. Len(s) : s[k] \in Nodes
      /\ \A j, k \in 1 .. Len(s) : s[j] = s[k] => j = k
  BY <1>2, ListsEnds
<1>4. \A m \in Nodes : \E k \in 1 .. Len(s) : s[k] = m
  BY ListsEnds
<1>5. c # Len(s) => c + 1 \in 1 .. Len(s) /\ c + 1 # c
  BY <1>1
<1>6. c # 1 => c - 1 \in 1 .. Len(s) /\ c - 1 # c
  BY <1>1
<1>7. c # Len(s) => s[c + 1] \in Nodes /\ s[c + 1] # crnt
  BY <1>2, <1>3, <1>5
<1>8. c # 1 => s[c - 1] \in Nodes /\ s[c - 1] # crnt
  BY <1>2, <1>3, <1>6
<1> QED BY <1>1, <1>2, <1>3, <1>4, <1>5, <1>6, <1>7, <1>8

LEMMA DeleteLastStep ==
  ASSUME ListInv, NEW s, Lists(s, first, next), DeleteLast
  PROVE  Chained' /\ L!Delete
<1>1. PICK c \in 1 .. Len(s) :
           /\ s[c] = crnt /\ crnt \in Nodes /\ crnt # NULL
           /\ next[crnt] = NULL <=> c = Len(s)
           /\ prev[crnt] = NULL <=> c = 1
           /\ c # 1 => /\ c - 1 \in 1 .. Len(s) /\ prev[crnt] = s[c - 1]
                       /\ s[c - 1] \in Nodes /\ s[c - 1] # crnt
  BY CrntPlace DEF DeleteLast
<1>2. c = Len(s) /\ c # 1 /\ Len(s) > 1 /\ prev[crnt] = s[c - 1]
  <2>1. Len(s) \in Nat
    BY ListsEnds
  <2> QED BY <1>1, <2>1 DEF DeleteLast
<1>3. /\ DOMAIN next' = DOMAIN next \ {s[c]}
      /\ next'[s[c - 1]] = NULL
      /\ \A m \in DOMAIN next' : m # s[c - 1] => next'[m] = next[m]
  BY <1>1, <1>2 DEF DeleteLast, Nodes
<1>4. Lists(Removed(s, c), IF c = 1 THEN s[2] ELSE first, next')
  <2>1. c # 1 => next'[s[c - 1]] = IF c = Len(s) THEN NULL ELSE s[c + 1]
    BY <1>2, <1>3
  <2>2. \A m \in DOMAIN next' : (c = 1 \/ m # s[c - 1]) => next'[m] = next[m]
    BY <1>2, <1>3
  <2> QED BY <1>2, <1>3, <2>1, <2>2, RemovedLists
<1>5. first' = first /\ crnt' = s[c - 1] /\ mark' = mark
  BY <1>2 DEF DeleteLast, Others
<1>6. Lists(Removed(s, c), first', next')
  BY <1>2, <1>4, <1>5
<1>7. crnt' = IF c < Len(s) THEN s[c + 1] ELSE s[c - 1]
  BY <1>2, <1>5
<1> QED BY <1>1, <1>2, <1>5, <1>6, <1>7, TakeOutStep

LEMMA DeleteFirstStep ==
  ASSUME ListInv, NEW s, Lists(s, first, next), DeleteFirst
  PROVE  Chained' /\ L!Delete
<1>1. PICK c \in 1 .. Len(s) :
           /\ s[c] = crnt /\ crnt \in Nodes /\ crnt # NULL
           /\ next[crnt] = NULL <=> c = Len(s)
           /\ prev[crnt] = NULL <=> c = 1
           /\ c # Len(s) => next[crnt] = s[c + 1]
  BY CrntPlace DEF DeleteFirst
<1>2. c = 1 /\ c < Len(s) /\ Len(s) > 1 /\ c + 1 = 2 /\ next[crnt] = s[2]
  <2>1. Len(s) \in Nat
    BY ListsEnds
  <2>2. c = 1 /\ c # Len(s)
    BY <1>1 DEF DeleteFirst
  <2>3. c < Len(s) /\ Len(s) > 1 /\ c + 1 = 2
    <3> DEFINE N == Len(s)
    <3>1. c \in 1 .. N /\ N \in Nat /\ c = 1 /\ c # N
      BY <1>1, <2>1, <2>2
    <3> HIDE DEF N
    <3>2. c < N /\ N > 1 /\ c + 1 = 2
      BY <3>1
    <3> QED BY <3>2 DEF N
  <2>4. next[crnt] = s[c + 1]
    BY <1>1, <2>2
  <2> QED BY <2>2, <2>3, <2>4
<1>3. /\ DOMAIN next' = DOMAIN next \ {s[c]}
      /\ \A m \in DOMAIN next' : next'[m] = next[m]
  BY <1>1 DEF DeleteFirst, Nodes
<1>4. Lists(Removed(s, c), IF c = 1 THEN s[2] ELSE first, next')
  <2>1. \A m \in DOMAIN next' : (c = 1 \/ m # s[c - 1]) => next'[m] = next[m]
    BY <1>3
  <2>2. c # 1 => next'[s[c - 1]] = IF c = Len(s) THEN NULL ELSE s[c + 1]
    BY <1>2
  <2>3. c \in 1 .. Len(s) /\ Len(s) > 1
    BY <1>1, <1>2
  <2> QED BY <1>3, <2>1, <2>2, <2>3, RemovedLists
<1>5. first' = s[2] /\ crnt' = s[c + 1] /\ mark' = mark
  BY <1>2 DEF DeleteFirst, Others
<1>6. Lists(Removed(s, c), first', next')
  BY <1>2, <1>4, <1>5
<1>7. crnt' = IF c < Len(s) THEN s[c + 1] ELSE s[c - 1]
  BY <1>2, <1>5
<1> QED BY <1>1, <1>2, <1>5, <1>6, <1>7, TakeOutStep

LEMMA DeleteBetweenStep ==
  ASSUME ListInv, NEW s, Lists(s, first, next), DeleteBetween
  PROVE  Chained' /\ L!Delete
<1>1. PICK c \in 1 .. Len(s) :
           /\ s[c] = crnt /\ crnt \in Nodes /\ crnt # NULL
           /\ next[crnt] = NULL <=> c = Len(s)
           /\ prev[crnt] = NULL <=> c = 1
           /\ c # Len(s) => next[crnt] = s[c + 1]
           /\ c # 1 => /\ prev[crnt] = s[c - 1]
                       /\ s[c - 1] \in Nodes /\ s[c - 1] # crnt
  BY CrntPlace DEF DeleteBetween
<1>2. c # 1 /\ c < Len(s) /\ Len(s) > 1 /\ next[crnt] = s[c + 1] /\ prev[crnt] = s[c - 1]
  <2>1. Len(s) \in Nat
    BY ListsEnds
  <2>2. c # 1 /\ c # Len(s)
    BY <1>1 DEF DeleteBetween
  <2> QED BY <1>1, <2>1, <2>2
<1>3. /\ DOMAIN next' = DOMAIN next \ {s[c]}
      /\ next'[s[c - 1]] = s[c + 1]
      /\ \A m \in DOMAIN next' : m # s[c - 1] => next'[m] = next[m]
  BY <1>1, <1>2 DEF DeleteBetween, Nodes
<1>4. Lists(Removed(s, c), IF c = 1 THEN s[2] ELSE first, next')
  <2>1. c # 1 => next'[s[c - 1]] = IF c = Len(s) THEN NULL ELSE s[c + 1]
    BY <1>2, <1>3
  <2>2. \A m \in DOMAIN next' : (c = 1 \/ m # s[c - 1]) => next'[m] = next[m]
    BY <1>2, <1>3
  <2> QED BY <1>2, <1>3, <2>1, <2>2, RemovedLists
<1>5. first' = first /\ crnt' = s[c + 1] /\ mark' = mark
  BY <1>2 DEF DeleteBetween, Others
<1>6. Lists(Removed(s, c), first', next')
  BY <1>2, <1>4, <1>5
<1>7. crnt' = IF c < Len(s) THEN s[c + 1] ELSE s[c - 1]
  BY <1>2, <1>5
<1> QED BY <1>1, <1>2, <1>5, <1>6, <1>7, TakeOutStep

-------------------------------------------------------------------------------
(* A call that changes no link. *)
LEMMA SameChain ==
  ASSUME Chained, UNCHANGED links
  PROVE  Chained' /\ Chain' = Chain
<1>1. first' = first /\ next' = next
  BY DEF links
<1> QED BY <1>1, ChainIs, ChainBecomes DEF Chained

LEMMA CrashStep ==
  ASSUME Chained, NEW read, Crash(read)
  PROVE  Chained'
  BY SameChain DEF Crash

LEMMA MoveStep ==
  ASSUME ListInv, NEW s \in Seq(Node), Lists(s, first, next)
  PROVE  /\ MoveTo(next) \/ MoveTo(prev) => Chained'
         /\ crnt # last /\ MoveTo(next) => L!Move(1)
         /\ crnt # first /\ MoveTo(prev) => L!Move(-1)
<1>1. Chained
  BY DEF Chained
<1>2. MoveTo(next) \/ MoveTo(prev) => UNCHANGED links
  BY DEF MoveTo, Crash
<1>3. MoveTo(next) \/ MoveTo(prev) => Chained' /\ Chain' = Chain
  BY <1>1, <1>2, SameChain
<1>4. /\ NULL \notin Nodes /\ Len(s) \in Nat
      /\ Len(s) = 0 => crnt = NULL /\ first = NULL /\ last = NULL
      /\ Len(s) # 0 => first = s[1] /\ last = s[Len(s)] /\ crnt # NULL
  BY ListsEnds
<1>5. ASSUME crnt # first \/ crnt # last
      PROVE  \E c \in 1 .. Len(s) :
               /\ s[c] = crnt /\ L!IndexOf(crnt) = c /\ Chain = s /\ L!Size = Len(s)
               /\ crnt # last => /\ c + 1 \in 1 .. Len(s) /\ next[crnt] = s[c + 1]
                                 /\ s[c + 1] # NULL
               /\ crnt # first => /\ c + (-1) \in 1 .. Len(s) /\ prev[crnt] = s[c + (-1)]
                                  /\ s[c + (-1)] # NULL
  <2>1. crnt # NULL /\ Len(s) # 0
    BY <1>4, <1>5
  <2>2. PICK c \in 1 .. Len(s) :
           /\ s[c] = crnt
           /\ c # Len(s) => c + 1 \in 1 .. Len(s) /\ next[crnt] = s[c + 1] /\ s[c + 1] \in Nodes
           /\ c # 1 => c - 1 \in 1 .. Len(s) /\ prev[crnt] = s[c - 1] /\ s[c - 1] \in Nodes
    BY <2>1, CrntPlace
  <2>3. L!IndexOf(crnt) = c /\ Chain = s /\ L!Size = Len(s)
    BY <2>2, Places DEF L!Size
  <2>4. crnt # last => c # Len(s)
    BY <1>4, <2>1, <2>2
  <2>5. crnt # first => c # 1
    BY <1>4, <2>1, <2>2
  <2>6. c + (-1) = c - 1
    OBVIOUS
  <2> QED BY <1>4, <2>2, <2>3, <2>4, <2>5, <2>6
<1>6. ASSUME crnt # last, MoveTo(next) PROVE L!Move(1)
  <2>1. PICK c \in 1 .. Len(s) :
               /\ s[c] = crnt /\ L!IndexOf(crnt) = c /\ Chain = s /\ L!Size = Len(s)
               /\ c + 1 \in 1 .. Len(s) /\ next[crnt] = s[c + 1] /\ s[c + 1] # NULL
    BY <1>5, <1>6
  <2>2. crnt # NULL
    BY <1>4, <2>1
  <2>3. crnt' = s[c + 1] /\ mark' = mark
    BY <1>6, <2>1, <2>2 DEF MoveTo, Others
  <2> QED BY <1>3, <1>6, <2>1, <2>3 DEF L!Move
<1>7. ASSUME crnt # first, MoveTo(prev) PROVE L!Move(-1)
  <2>1. PICK c \in 1 .. Len(s) :
               /\ s[c] = crnt /\ L!IndexOf(crnt) = c /\ Chain = s /\ L!Size = Len(s)
               /\ c + (-1) \in 1 .. Len(s) /\ prev[crnt] = s[c + (-1)] /\ s[c + (-1)] # NULL
    BY <1>5, <1>7
  <2>2. crnt # NULL
    BY <1>4, <2>1
  <2>3. crnt' = s[c + (-1)] /\ mark' = mark
    BY <1>7, <2>1, <2>2 DEF MoveTo, Others
  <2> QED BY <1>3, <1>7, <2>1, <2>3 DEF L!Move
<1> QED BY <1>3, <1>6, <1>7

LEMMA ResetStep ==
  ASSUME ListInv, NEW s \in Seq(Node), Lists(s, first, next)
  PROVE  /\ Reset(first) \/ Reset(last) => Chained'
         /\ Nodes # {} /\ Reset(first) => L!Reset(1)
         /\ Nodes # {} /\ Reset(last) => L!Reset(L!Size)
<1>1. Chained
  BY DEF Chained
<1>2. Reset(first) \/ Reset(last) => UNCHANGED links
  BY DEF Reset, Crash
<1>3. Reset(first) \/ Reset(last) => Chained' /\ Chain' = Chain
  BY <1>1, <1>2, SameChain
<1>4. ASSUME Nodes # {}
      PROVE  first # NULL /\ last # NULL /\ Chain[1] = first /\ Chain[L!Size] = last
  <2>1. Len(s) # 0
    <3>1. Len(s) = 0 => Nodes = {}
      BY ListsEnds
    <3> QED BY <1>4, <3>1
  <2>2. Chain = s /\ L!Size = Len(s)
    BY Places DEF L!Size
  <2> QED BY <2>1, <2>2, ListsEnds
<1>5. ASSUME Nodes # {}, Reset(first) PROVE L!Reset(1)
  <2>1. crnt' = first /\ mark' = mark
    BY <1>4, <1>5 DEF Reset, Others
  <2> QED BY <1>3, <1>4, <1>5, <2>1 DEF L!Reset
<1>6. ASSUME Nodes # {}, Reset(last) PROVE L!Reset(L!Size)
  <2>1. crnt' = last /\ mark' = mark
    BY <1>4, <1>6 DEF Reset, Others
  <2> QED BY <1>3, <1>4, <1>6, <2>1 DEF L!Reset
<1> QED BY <1>3, <1>5, <1>6

LEMMA IterateStep ==
  ASSUME ListInv, NEW s \in Seq(Node), Lists(s, first, next)
  PROVE  /\ IterateFirst \/ IterateNext => Chained'
         /\ (Nodes # {} /\ IterateFirst) \/ (mark \in Nodes /\ IterateNext) => L!Iterate
<1>1. Chained
  BY DEF Chained
<1>2. IterateFirst \/ IterateNext => UNCHANGED links
  BY DEF IterateFirst, IterateNext, Crash
<1>3. IterateFirst \/ IterateNext => Chained' /\ Chain' = Chain
  BY <1>1, <1>2, SameChain
<1>4. ASSUME Nodes # {}, IterateFirst PROVE L!Iterate
  <2>1. Len(s) # 0
    <3>1. Len(s) = 0 => Nodes = {}
      BY ListsEnds
    <3> QED BY <1>4, <3>1
  <2>2. first = s[1] /\ first # NULL
    BY <2>1, ListsEnds
  <2>3. crnt' = crnt /\ mark = NULL /\ mark' = first
    BY <1>4, <2>2 DEF IterateFirst
  <2>4. Head(Chain) = s[1]
    BY <2>1, Places
  <2> QED BY <1>3, <1>4, <2>2, <2>3, <2>4 DEF L!Iterate
<1>5. ASSUME mark \in Nodes, IterateNext PROVE L!Iterate
  <2>1. /\ crnt' = crnt /\ mark \in Nodes
        /\ mark' = IF next[mark] # NULL THEN next[mark] ELSE END
    BY <1>5 DEF IterateNext
  <2>2. PICK k \in 1 .. Len(s) : s[k] = mark
    BY <2>1, ListsEnds
  <2>3. /\ next[mark] = (IF k = Len(s) THEN NULL ELSE s[k + 1])
        /\ NULL \notin Nodes /\ Len(s) \in Nat /\ Len(s) # 0
        /\ \A j, i \in 1 .. Len(s) : s[j] = s[i] => j = i
        /\ \A j \in 1 .. Len(s) : s[j] \in Nodes
    BY <2>2, ListsEnds
  <2>4. Chain = s /\ L!IndexOf(mark) = k /\ L!Last(Chain) = s[Len(s)]
    BY <2>2, <2>3, Places
  <2>5. mark = L!Last(Chain) <=> k = Len(s)
    <3>1. Len(s) \in 1 .. Len(s)
      BY <2>3
    <3> QED BY <2>2, <2>3, <2>4, <3>1
  <2>6. k # Len(s) => s[k + 1] # NULL
    <3>1. k # Len(s) => k + 1 \in 1 .. Len(s)
      BY <2>3
    <3> QED BY <2>3, <3>1
  <2>7. mark' = IF mark = L!Last(Chain) THEN END ELSE Chain[L!IndexOf(mark) + 1]
    BY <2>1, <2>3, <2>4, <2>5, <2>6
  <2>8. mark # NULL
    BY <2>1, <2>3
  <2> QED BY <1>3, <1>5, <2>1, <2>7, <2>8 DEF L!Iterate
<1> QED BY <1>3, <1>4, <1>5

LEMMA ChainedInit == ListInit => Chained /\ L!Init
<1> SUFFICES ASSUME ListInit PROVE Chained /\ L!Init
  OBVIOUS
<1> DEFINE e == << >>
<1>1. e \in Seq(Node) /\ Len(e) = 0 /\ DOMAIN next = {}
  BY DEF ListInit
<1>2. Lists(e, first, next)
  <2> HIDE DEF e
  <2>1. 1 .. Len(e) = {}
    BY <1>1
  <2>2. DOMAIN next = {e[k] : k \in 1 .. Len(e)}
    BY <1>1, <2>1
  <2> QED BY <1>1, <2>1, <2>2 DEF Lists, ListInit
<1>3. Chain = e
  BY <1>2, ChainIs, ListsChain
<1>4. Chained
  BY <1>1, <1>2 DEF Chained
<1> QED BY <1>3, <1>4 DEF L!Init, ListInit

LEMMA ChainedStep ==
  ASSUME ListInv, Chained, [ListNext]_listVars
  PROVE  Chained'
<1>1. PICK s \in Seq(Node) : Lists(s, first, next)
  BY DEF Chained
<1>2. ASSUME NEW n \in Node, n \notin Nodes, AppendNode(n) \/ PrependNode(n) \/ InsertNode(n)
      PROVE  Chained'
  BY <1>1, <1>2, AppendStep, PrependStep, InsertAtEndStep, InsertBetweenStep DEF InsertNode
<1>3. CASE DeleteLast \/ DeleteFirst \/ DeleteBetween
  BY <1>1, <1>3, DeleteLastStep, DeleteFirstStep, DeleteBetweenStep
<1>4. CASE DeleteOnly
  BY <1>4, CrashStep DEF DeleteOnly
<1>5. CASE MoveTo(next) \/ MoveTo(prev)
  BY <1>1, <1>5, MoveStep
<1>6. CASE Reset(first) \/ Reset(last)
  BY <1>1, <1>6, ResetStep
<1>7. CASE IterateFirst \/ IterateNext
  BY <1>1, <1>7, IterateStep
<1>8. CASE NewIteration
  BY <1>8, SameChain DEF NewIteration
<1>9. CASE UNCHANGED listVars
  BY <1>9, SameChain DEF listVars, links
<1> QED BY <1>2, <1>3, <1>4, <1>5, <1>6, <1>7, <1>8, <1>9 DEF ListNext, ListCalls, InsertNode

LEMMA ChainedInvariant == ListSpec => []Chained
BY ChainedInit, ChainedStep, Invariant, PTL DEF ListSpec

(* What each call has to do, it does. *)
LEMMA ListStepCalls ==
  ASSUME ListInv, Chained
  PROVE  CallsOfList
<1>1. PICK s \in Seq(Node) : Lists(s, first, next)
  BY DEF Chained
<1>2. ASSUME NEW n \in Node \ Nodes
      PROVE  /\ AppendNode(n) => L!AddLast(n)
             /\ PrependNode(n) => L!AddFirst(n)
             /\ InsertNode(n) => IF crnt = first THEN L!AddFirst(n) ELSE L!Insert(n)
  <2>1. AppendNode(n) => L!AddLast(n)
    BY <1>1, AppendStep
  <2>2. PrependNode(n) => L!AddFirst(n)
    BY <1>1, PrependStep
  <2>3. InsertAtEnd(n) => IF crnt = first THEN L!AddFirst(n) ELSE L!Insert(n)
    BY <1>1, InsertAtEndStep
  <2>4. InsertBetween(n) => crnt # first /\ L!Insert(n)
    BY <1>1, InsertBetweenStep
  <2> QED BY <2>1, <2>2, <2>3, <2>4 DEF InsertNode
<1>3. DeleteLast \/ DeleteFirst \/ DeleteBetween => L!Delete
  BY <1>1, DeleteLastStep, DeleteFirstStep, DeleteBetweenStep
<1>4. /\ crnt # last /\ MoveTo(next) => L!Move(1)
      /\ crnt # first /\ MoveTo(prev) => L!Move(-1)
  BY <1>1, MoveStep
<1>5. /\ Nodes # {} /\ Reset(first) => L!Reset(1)
      /\ Nodes # {} /\ Reset(last) => L!Reset(L!Size)
  BY <1>1, ResetStep
<1>6. (Nodes # {} /\ IterateFirst) \/ (mark \in Nodes /\ IterateNext) => L!Iterate
  BY <1>1, IterateStep
<1>7. NewIteration => L!Restart
  BY SameChain DEF NewIteration, L!Restart
<1> QED BY <1>2, <1>3, <1>4, <1>5, <1>6, <1>7 DEF CallsOfList

(* Whatever has been put in, deleted and walked over before, each call does  *)
(* to the chain from the first node on, to the current node and to the mark  *)
(* what its name says, but for the insertion at a first node, which is made  *)
(* in front of it; an iteration goes on behind the node it has come to, if   *)
(* that has not been deleted (insert_dl_list_node, delete_crnt_dl_list_node, *)
(* iterate_dl_list).                                                         *)
THEOREM ListIsSequence == ListSpec => ImplementsList
<1>1. ListInit => L!Init
  BY ChainedInit
<1>2. ListInv /\ Chained /\ [ListNext]_listVars => [crashed = "no" => CallsOfList]_listVars
  BY ListStepCalls
<1> QED BY <1>1, <1>2, Invariant, ChainedInvariant, PTL DEF ListSpec, ImplementsList
================================================================================

--------------------------------- MODULE DlList ---------------------------------
(***************************************************************************)
(* The doubly linked list: src/src/common/dl_list.c.  next and prev hold   *)
(* the members of the nodes of the list; a node is made by                 *)
(* create_dl_list_node in the call that puts it in, from zeroed memory,    *)
(* and a deleted one may come again at the same address.                   *)
(***************************************************************************)
EXTENDS Integers, FiniteSets, Sequences

CONSTANTS
  Node,  \* the addresses of nodes
  NULL,  \* no address
  END    \* the address (void*)-1

ASSUME NodeAssumption == NULL \notin Node /\ END \notin Node /\ NULL # END

VARIABLES
  first,    \* lst->first
  last,     \* lst->last
  crnt,     \* lst->crnt
  next,     \* node->next, of the nodes of the list
  prev,     \* node->prev
  mark,     \* the mark of an iteration, which the caller keeps
  crashed   \* "no", or what was read: a member of "null" or of a "freed" node

links == <<first, last, next, prev>>
listVars == <<first, last, crnt, next, prev, mark, crashed>>

Nodes == DOMAIN next

(* create_dl_list *)
ListInit ==
  /\ first = NULL /\ last = NULL /\ crnt = NULL
  /\ next = [n \in {} |-> NULL] /\ prev = [n \in {} |-> NULL]
  /\ mark = NULL
  /\ crashed = "no"

-------------------------------------------------------------------------------
Others == UNCHANGED <<mark, crashed>>

(* append_dl_list *)
AppendNode(n) ==
  /\ next' = [m \in Nodes \union {n} |-> IF m = n THEN NULL ELSE IF m = last THEN n ELSE next[m]]
  /\ prev' = [m \in Nodes \union {n} |-> IF m = n THEN last ELSE prev[m]]
  /\ last' = n
  /\ first' = IF last = NULL THEN n ELSE first
  /\ crnt' = IF last = NULL THEN n ELSE crnt
  /\ Others

(* prepend_dl_list *)
PrependNode(n) ==
  /\ next' = [m \in Nodes \union {n} |-> IF m = n THEN first ELSE next[m]]
  /\ prev' = [m \in Nodes \union {n} |-> IF m = n THEN NULL ELSE IF m = first THEN n ELSE prev[m]]
  /\ first' = n
  /\ last' = IF first = NULL THEN n ELSE last
  /\ crnt' = IF first = NULL THEN n ELSE crnt
  /\ Others

(* insert_dl_list_node, with a current node that is the first or the last:  *)
(* before the first, behind the last.                                       *)
InsertAtEnd(n) ==
  /\ crnt # NULL
  /\ IF prev[crnt] = NULL THEN PrependNode(n) ELSE next[crnt] = NULL /\ AppendNode(n)

(* Variant: the node behind is not told. *)
InsertBetweenOneWay(n) ==
  /\ crnt # NULL /\ prev[crnt] # NULL /\ next[crnt] # NULL
  /\ next' = [m \in Nodes \union {n} |->
                IF m = n THEN next[crnt] ELSE IF m = crnt THEN n ELSE next[m]]
  /\ prev' = [m \in Nodes \union {n} |-> IF m = n THEN crnt ELSE prev[m]]
  /\ UNCHANGED <<first, last, crnt>>
  /\ Others

(* insert_dl_list_node, with a node on either side of the current one *)
InsertBetween(n) ==
  /\ crnt # NULL /\ prev[crnt] # NULL /\ next[crnt] # NULL
  /\ next' = [m \in Nodes \union {n} |->
                IF m = n THEN next[crnt] ELSE IF m = crnt THEN n ELSE next[m]]
  /\ prev' = [m \in Nodes \union {n} |->
                IF m = n THEN crnt ELSE IF m = next[crnt] THEN n ELSE prev[m]]
  /\ UNCHANGED <<first, last, crnt>>
  /\ Others

(* delete_crnt_dl_list_node, of a last node: the list is then dereferenced  *)
(* at its new last node, so that the only node cannot be deleted.           *)
DeleteLast ==
  /\ first # NULL /\ crnt # NULL
  /\ next[crnt] = NULL /\ prev[crnt] # NULL
  /\ last' = prev[crnt]
  /\ crnt' = prev[crnt]
  /\ next' = [m \in Nodes \ {crnt} |-> IF m = prev[crnt] THEN NULL ELSE next[m]]
  /\ prev' = [m \in Nodes \ {crnt} |-> prev[m]]
  /\ UNCHANGED first
  /\ Others

(* of a first node that is not the last *)
DeleteFirst ==
  /\ first # NULL /\ crnt # NULL
  /\ next[crnt] # NULL /\ prev[crnt] = NULL
  /\ first' = next[crnt]
  /\ crnt' = next[crnt]
  /\ next' = [m \in Nodes \ {crnt} |-> next[m]]
  /\ prev' = [m \in Nodes \ {crnt} |-> IF m = next[crnt] THEN NULL ELSE prev[m]]
  /\ UNCHANGED last
  /\ Others

(* Variant: the node in front becomes the current one. *)
DeleteBetweenBack ==
  /\ crnt # NULL /\ next[crnt] # NULL /\ prev[crnt] # NULL
  /\ crnt' = prev[crnt]
  /\ next' = [m \in Nodes \ {crnt} |-> IF m = prev[crnt] THEN next[crnt] ELSE next[m]]
  /\ prev' = [m \in Nodes \ {crnt} |-> IF m = next[crnt] THEN prev[crnt] ELSE prev[m]]
  /\ UNCHANGED <<first, last>>
  /\ Others

(* of any other node *)
DeleteBetween ==
  /\ first # NULL /\ crnt # NULL
  /\ next[crnt] # NULL /\ prev[crnt] # NULL
  /\ crnt' = next[crnt]
  /\ next' = [m \in Nodes \ {crnt} |-> IF m = prev[crnt] THEN next[crnt] ELSE next[m]]
  /\ prev' = [m \in Nodes \ {crnt} |-> IF m = next[crnt] THEN prev[crnt] ELSE prev[m]]
  /\ UNCHANGED <<first, last>>
  /\ Others

Crash(read) == crashed' = read /\ UNCHANGED <<links, crnt, mark>>

(* Deleting the only node *)
DeleteOnly ==
  /\ first # NULL /\ crnt # NULL
  /\ next[crnt] = NULL /\ prev[crnt] = NULL
  /\ Crash("null")

(* next_dl_list_node and prev_dl_list_node, which dereference what they     *)
(* have got to                                                              *)
MoveTo(link) ==
  IF crnt # NULL /\ link[crnt] # NULL
    THEN crnt' = link[crnt] /\ UNCHANGED links /\ Others
    ELSE Crash("null")

(* reset_dl_list *)
Reset(end) ==
  IF end # NULL THEN crnt' = end /\ UNCHANGED links /\ Others ELSE Crash("null")

(* iterate_dl_list, with a mark of NULL *)
IterateFirst ==
  /\ mark = NULL
  /\ IF first # NULL THEN mark' = first /\ UNCHANGED <<links, crnt, crashed>> ELSE Crash("null")

(* iterate_dl_list, with a node as the mark; it may have been deleted since *)
IterateNext ==
  /\ mark \in Node
  /\ IF mark \in Nodes
       THEN /\ mark' = IF next[mark] # NULL THEN next[mark] ELSE END
            /\ UNCHANGED <<links, crnt, crashed>>
       ELSE Crash("freed")

(* The caller begins another iteration. *)
NewIteration == mark' = NULL /\ UNCHANGED <<links, crnt, crashed>>

ListCalls ==
  \/ \E n \in Node \ Nodes : AppendNode(n) \/ PrependNode(n) \/ InsertAtEnd(n) \/ InsertBetween(n)
  \/ DeleteLast \/ DeleteFirst \/ DeleteBetween \/ DeleteOnly
  \/ MoveTo(next) \/ MoveTo(prev) \/ Reset(first) \/ Reset(last)
  \/ IterateFirst \/ IterateNext \/ NewIteration

ListNext == crashed = "no" /\ ListCalls

ListSpec == ListInit /\ [][ListNext]_listVars

-------------------------------------------------------------------------------
ListTypeOK ==
  /\ Nodes \subseteq Node
  /\ next \in [Nodes -> Nodes \union {NULL}]
  /\ prev \in [Nodes -> Nodes \union {NULL}]
  /\ first \in Nodes \union {NULL}
  /\ last \in Nodes \union {NULL}
  /\ crnt \in Nodes \union {NULL}
  /\ mark \in Node \union {NULL, END}
  /\ crashed \in {"no", "null", "freed"}

(* The two directions agree, the ends are the only nodes without a          *)
(* neighbour, and there is a current node as soon as there is any, after    *)
(* insertions and deletions at any place (dl_list.c:53, 83).                *)
Linked ==
  /\ \A n \in Nodes : /\ next[n] # NULL => next[n] \in Nodes /\ prev[next[n]] = n
                      /\ prev[n] # NULL => prev[n] \in Nodes /\ next[prev[n]] = n
                      /\ next[n] = NULL <=> n = last
                      /\ prev[n] = NULL <=> n = first
  /\ IF Nodes = {} THEN {first, last, crnt} = {NULL} ELSE {first, last, crnt} \subseteq Nodes

(* The nodes from the first on. *)
Chain ==
  LET node[k \in 1 .. Cardinality(Nodes)] == IF k = 1 THEN first ELSE next[node[k - 1]]
  IN  node

L == INSTANCE CursorList WITH items <- Chain

InsertNode(n) == InsertAtEnd(n) \/ InsertBetween(n)

(* What each call does to the chain from the first node on, to the current  *)
(* node and to an iteration.  insert_dl_list_node puts the node in front of *)
(* the current one when that is the first, against its comment              *)
(* (dl_list.c:75); a move past an end, a call that needs a node of an empty *)
(* list, the deletion of the only node and a step from a deleted node end   *)
(* in a crash or in freed memory, and nothing is said of them; any other    *)
(* step of an iteration gets the node that is behind the mark when it is    *)
(* made, whatever was put in or deleted since the step before.              *)
CallsOfList ==
  /\ \A n \in Node \ Nodes :
       /\ AppendNode(n) => L!AddLast(n)
       /\ PrependNode(n) => L!AddFirst(n)
       /\ InsertNode(n) => IF crnt = first THEN L!AddFirst(n) ELSE L!Insert(n)
  /\ DeleteLast \/ DeleteFirst \/ DeleteBetween => L!Delete
  /\ crnt # last /\ MoveTo(next) => L!Move(1)
  /\ crnt # first /\ MoveTo(prev) => L!Move(-1)
  /\ Nodes # {} /\ Reset(first) => L!Reset(1)
  /\ Nodes # {} /\ Reset(last) => L!Reset(L!Size)
  /\ (Nodes # {} /\ IterateFirst) \/ (mark \in Nodes /\ IterateNext) => L!Iterate
  /\ NewIteration => L!Restart

ImplementsList == L!Init /\ [][crashed = "no" => CallsOfList]_listVars

(* "insert after the current node" (dl_list.c:75) *)
InsertedAfterCurrent ==
  [][\A n \in Node \ Nodes : InsertNode(n) => L!Insert(n)]_listVars
================================================================================

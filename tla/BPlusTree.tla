----------------------------- MODULE BPlusTree -----------------------------
(***************************************************************************)
(* The B+ tree of src/src/storage_manager: index_insert (index_writer.cpp) *)
(* with the inserts and splits it calls, and bptree_scan                   *)
(* (access_methods.cpp).  The pages of the index file are a sequence of    *)
(* nodes; page ids are positions in it.  An insertion is one step: nothing *)
(* else touches the index meanwhile.                                       *)
(***************************************************************************)
EXTENDS Integers, FiniteSets, SequencesExt, FiniteSetsExt

CONSTANTS
    MAX_KEYS,       \* keys of a node: 3 in the code
    Keys,
    MaxInserts      \* bound: insertions in a behaviour

ASSUME BPlusTreeAssumption ==
    /\ MAX_KEYS \in Nat \ {0, 1}
    /\ Keys \subseteq Int
    /\ MaxInserts \in Nat

Rids            == 1 .. MaxInserts     \* the rid of each insertion
INVALID_PAGE_ID == 0
NoSplit         == [promoted_key |-> 0, child_pid |-> INVALID_PAGE_ID]

VARIABLES
    nodes,      \* the index file
    root_pid,
    entries     \* history: the key and rid of each insertion

vars == <<nodes, root_pid, entries>>

tree == [nodes |-> nodes, root_pid |-> root_pid]

\* A node holds one of the two sides of its union.
LeafNode(keys, values, next_leaf) ==
    [is_leaf |-> TRUE, keys |-> keys, values |-> values, child_nodes |-> << >>, next_leaf |-> next_leaf]
InternalNode(keys, child_nodes) ==
    [is_leaf |-> FALSE, keys |-> keys, values |-> << >>, child_nodes |-> child_nodes,
     next_leaf |-> INVALID_PAGE_ID]
NewNode == LeafNode(<< >>, << >>, INVALID_PAGE_ID)

Nodes == [is_leaf : BOOLEAN, keys : Seq(Keys), values : Seq(Rids), child_nodes : Seq(Nat), next_leaf : Nat]

\* A node of an index file of that many pages.
NodeOK(node, pages) ==
    /\ Len(node.keys) <= MAX_KEYS
    /\ IF node.is_leaf
       THEN /\ Len(node.values) = Len(node.keys)
            /\ node.child_nodes = << >>
            /\ node.next_leaf <= pages
       ELSE /\ Len(node.child_nodes) = Len(node.keys) + 1
            /\ \A i \in 1 .. Len(node.child_nodes) : node.child_nodes[i] \in 1 .. pages

TypeOK ==
    /\ nodes \in Seq(Nodes)
    /\ root_pid \in 0 .. Len(nodes)
    /\ entries \subseteq Keys \X Rids
    /\ \A p \in 1 .. Len(nodes) : NodeOK(nodes[p], Len(nodes))

Init ==
    /\ nodes = << >>
    /\ root_pid = INVALID_PAGE_ID
    /\ entries = {}

-----------------------------------------------------------------------------
(* Nodes.                                                                  *)

\* fetch_page: an empty leaf at the end of the file.
fetch_page(ns) == Append(ns, NewNode)

\* Where a key goes among the sorted keys of a node: behind those not above it.
Place(keys, key) == Max({0} \cup {i \in DOMAIN keys : keys[i] <= key}) + 1

\* mutant: a leaf is full one key too late
Full_late(keys) == Len(keys) > MAX_KEYS
Full(keys) == Len(keys) = MAX_KEYS

\* mutant: the link of the old leaf is not copied to the new one
NextOfRight_cut(left) == INVALID_PAGE_ID
\* The chain of leaves: the new leaf comes behind the one it was split from.
NextOfRight(left) == left.next_leaf

\* mutant: the last key on the left is promoted
Promoted_left(left_keys, right_keys) == left_keys[Len(left_keys)]
Promoted(left_keys, right_keys) == right_keys[1]

bptree_leaf_split(ns, pid, right_pid, keys, values) ==
    LET left_size == (Len(keys) + 1) \div 2
        left  == LeafNode(SubSeq(keys, 1, left_size), SubSeq(values, 1, left_size), right_pid)
        right == LeafNode(SubSeq(keys, left_size + 1, Len(keys)),
                          SubSeq(values, left_size + 1, Len(keys)), NextOfRight(ns[pid]))
    IN  [nodes |-> [ns EXCEPT ![pid] = left, ![right_pid] = right],
         res |-> [promoted_key |-> Promoted(left.keys, right.keys), child_pid |-> right_pid]]

bptree_leaf_insert(ns, pid, key, rid) ==
    LET at     == Place(ns[pid].keys, key)
        keys   == InsertAt(ns[pid].keys, at, key)
        values == InsertAt(ns[pid].values, at, rid)
    IN  IF Full(ns[pid].keys)
        THEN bptree_leaf_split(fetch_page(ns), pid, Len(ns) + 1, keys, values)
        ELSE [nodes |-> [ns EXCEPT ![pid] = LeafNode(keys, values, ns[pid].next_leaf)],
              res |-> NoSplit]

\* mutant: the children are divided in the middle
RightChildren_middle(kids, left_size) == SubSeq(kids, left_size + 1, Len(kids))
RightChildren(kids, left_size) == SubSeq(kids, left_size + 2, Len(kids))

\* The right node gets the keys from the promoted one on, as many as remain.
bptree_internal_split(ns, pid, right_pid, keys, kids) ==
    LET left_size  == Len(keys) \div 2
        right_size == Len(keys) - left_size - 1
        left  == InternalNode(SubSeq(keys, 1, left_size), SubSeq(kids, 1, left_size + 1))
        right == InternalNode(SubSeq(keys, left_size + 1, left_size + right_size),
                              RightChildren(kids, left_size))
    IN  [nodes |-> [ns EXCEPT ![pid] = left, ![right_pid] = right],
         res |-> [promoted_key |-> keys[left_size + 1], child_pid |-> right_pid]]

\* The page for a split is fetched whether or not there is one; it stays in the
\* file as an empty leaf.
bptree_internal_insert(ns, pid, split) ==
    LET at   == Place(ns[pid].keys, split.promoted_key)
        keys == InsertAt(ns[pid].keys, at, split.promoted_key)
        kids == InsertAt(ns[pid].child_nodes, at + 1, split.child_pid)
    IN  IF Full(ns[pid].keys)
        THEN bptree_internal_split(fetch_page(ns), pid, Len(ns) + 1, keys, kids)
        ELSE [nodes |-> fetch_page([ns EXCEPT ![pid] = InternalNode(keys, kids)]),
              res |-> NoSplit]

-----------------------------------------------------------------------------
(* index_insert and bptree_scan.                                           *)

\* The first key an insertion does not pass, and the first a search does not.
InsertChild(node, key) ==
    node.child_nodes[Min({i \in DOMAIN node.keys : key <= node.keys[i]} \cup {Len(node.keys) + 1})]
\* mutant: a search stops at an equal key
ScanChild_left(node, key) == InsertChild(node, key)
ScanChild(node, key) ==
    node.child_nodes[Min({i \in DOMAIN node.keys : key < node.keys[i]} \cup {Len(node.keys) + 1})]

\* Where a walk from pid is after n steps, going on from a node p that is no leaf to
\* below[p]: the calls index_insert makes of itself, the loop of bptree_scan.
Walk(ns, pid, below) ==
    LET at[n \in 0 .. Len(ns)] ==
            IF n = 0 THEN pid
            ELSE LET above == at[n - 1] IN IF ns[above].is_leaf THEN above ELSE below[above]
    IN  at
Internal(ns) == {p \in 1 .. Len(ns) : ~ns[p].is_leaf}

\* The recursion of index_insert: its calls go down to a leaf, and each takes in the split
\* that the call below it returns.  The nodes after an insertion below pid, and the split
\* pid's parent must take in.
insert_below(ns, pid, key, rid) ==
    LET called == Walk(ns, pid, [p \in Internal(ns) |-> InsertChild(ns[p], key)])
        depth  == Min({n \in 0 .. Len(ns) : ns[called[n]].is_leaf})
        returned[n \in 0 .. depth] ==
            IF n = 0 THEN bptree_leaf_insert(ns, called[depth], key, rid)
            ELSE LET below == returned[n - 1]
                 IN  IF below.res = NoSplit THEN below
                     ELSE bptree_internal_insert(below.nodes, called[depth - n], below.res)
    IN  returned[depth]

\* A split that reaches the root puts a new root above it.
GrowRoot(t, split) ==
    [nodes |-> Append(t.nodes, InternalNode(<<split.promoted_key>>, <<t.root_pid, split.child_pid>>)),
     root_pid |-> Len(t.nodes) + 1]

index_insert(t, key, rid) ==
    LET below == insert_below(t.nodes, t.root_pid, key, rid)
        grown == [nodes |-> below.nodes, root_pid |-> t.root_pid]
    IN  IF below.res = NoSplit THEN grown ELSE GrowRoot(grown, below.res)

LeafFor(pid, key) ==
    nodes[Walk(nodes, pid, [p \in Internal(nodes) |-> ScanChild(nodes[p], key)])[Len(nodes)]]

\* The rid bptree_scan returns, 0 for "NO SUCH ENTRY FOUND".
bptree_scan(key) ==
    LET leaf == LeafFor(root_pid, key)
        hits == {i \in DOMAIN leaf.keys : leaf.keys[i] = key}
    IN  IF hits = {} THEN 0 ELSE leaf.values[Min(hits)]

-----------------------------------------------------------------------------
Insert(key) ==
    LET rid == Cardinality(entries) + 1
        t   == IF root_pid = INVALID_PAGE_ID
               THEN [nodes |-> fetch_page(nodes), root_pid |-> Len(nodes) + 1]
               ELSE tree
        new == index_insert(t, key, rid)
    IN
    /\ rid <= MaxInserts
    /\ nodes' = new.nodes
    /\ root_pid' = new.root_pid
    /\ entries' = entries \cup {<<key, rid>>}

Done == Cardinality(entries) = MaxInserts /\ UNCHANGED vars

Next == (\E key \in Keys : Insert(key)) \/ Done

Spec == Init /\ [][Next]_vars

-----------------------------------------------------------------------------
(* Properties.                                                             *)

\* The chain of leaves: the leftmost one, and where next_leaf leads from it in n steps.
LeftmostLeaf ==
    Walk(nodes, root_pid, [p \in Internal(nodes) |-> nodes[p].child_nodes[1]])[Len(nodes)]
Chain ==
    LET at[n \in 0 .. Len(nodes)] ==
            IF n = 0 THEN (IF root_pid = INVALID_PAGE_ID THEN INVALID_PAGE_ID ELSE LeftmostLeaf)
            ELSE LET left == at[n - 1]
                 IN  IF left = INVALID_PAGE_ID THEN INVALID_PAGE_ID ELSE nodes[left].next_leaf
    IN  at
\* The nodes n steps below the root.
Levels ==
    LET level[n \in 0 .. Len(nodes)] ==
            IF n = 0 THEN {root_pid}
            ELSE LET above == level[n - 1] IN UNION {ToSet(nodes[p].child_nodes) : p \in above}
    IN  level

\* Following next_leaf from the leftmost leaf comes to an end and meets every entry ever
\* inserted, and each once, through any sequence of leaf and internal splits: no split
\* drops or doubles an entry, and no leaf is cut out of the chain.
ChainHoldsEntries ==
    LET leaves == {Chain[n] : n \in 0 .. Len(nodes)} \ {INVALID_PAGE_ID}
    IN  /\ Chain[Len(nodes)] = INVALID_PAGE_ID
        /\ UNION {{<<nodes[p].keys[i], nodes[p].values[i]>> : i \in DOMAIN nodes[p].keys} : p \in leaves}
             = entries
        /\ \A p, q \in leaves : \A i \in DOMAIN nodes[p].keys, j \in DOMAIN nodes[q].keys :
             nodes[p].values[i] = nodes[q].values[j] => p = q /\ i = j

\* Every leaf is as deep as every other, and no page hangs below two nodes: splits
\* that run up to the root keep the tree a tree and balanced.
Balanced ==
    root_pid # INVALID_PAGE_ID =>
        /\ \A n \in 0 .. Len(nodes) : \A p, q \in Levels[n] : nodes[p].is_leaf = nodes[q].is_leaf
        /\ \A p, q \in DOMAIN nodes : \A i \in DOMAIN nodes[p].child_nodes :
             \A j \in DOMAIN nodes[q].child_nodes :
               nodes[p].child_nodes[i] = nodes[q].child_nodes[j] => p = q /\ i = j

DistinctKeys == Cardinality({e[1] : e \in entries}) = Cardinality(entries)

\* A search for a key finds the row inserted under it, and nothing under a key never
\* inserted (README.md:6, "index scan"), as long as no key was inserted twice.
ScanFindsEntries ==
    DistinctKeys /\ root_pid # INVALID_PAGE_ID =>
        \A key \in Keys :
            IF \E r \in Rids : <<key, r>> \in entries
            THEN <<key, bptree_scan(key)>> \in entries
            ELSE bptree_scan(key) = 0

\* As long as no internal node has been split, a search is right and the chain of
\* leaves is sorted: the key a leaf split promotes and the two rules for choosing a
\* child (an insertion goes left of an equal key, a search goes right of it) fit.
OrderedWhileShallow ==
    (\A p \in DOMAIN nodes : ~nodes[p].is_leaf => p = root_pid) =>
        /\ ScanFindsEntries
        /\ DistinctKeys =>
             \A m, n \in 0 .. Len(nodes) : Chain[m] # INVALID_PAGE_ID /\ Chain[n] # INVALID_PAGE_ID =>
                \A i \in DOMAIN nodes[Chain[m]].keys, j \in DOMAIN nodes[Chain[n]].keys :
                   m < n \/ (m = n /\ i < j) => nodes[Chain[m]].keys[i] < nodes[Chain[n]].keys[j]
=============================================================================

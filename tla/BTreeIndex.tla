----------------------------- MODULE BTreeIndex -----------------------------
(***************************************************************************)
(* The in-memory index of src/modules/BTreeIndex.js: a B+ tree whose       *)
(* leaves hold the entries and whose inner nodes hold copies of keys.      *)
(* insert splits full nodes on its way down; delete removes one entry from *)
(* a leaf and leaves the inner nodes as they are, so that a copy may       *)
(* outlive its entry.                                                      *)
(***************************************************************************)
EXTENDS Integers, Sequences, FiniteSets, SequencesExt

CONSTANTS Order,      \* the most keys of a node
          Keys,       \* the keys in use
          Values,     \* what tells the rows of one key apart
          MaxSteps,   \* bound on the inserts and deletes
          Undefined   \* what JavaScript reads from a missing place

ASSUME OrderAssumption == Order \in Nat /\ Order >= 2
ASSUME KeysAssumption == Keys \subseteq Int

VARIABLES root,   \* this.root
          rows,   \* the rows that were inserted and not deleted since
          used,   \* the keys that were inserted ever, and those that were
          again,  \* inserted more than once
          steps   \* the inserts and deletes so far
vars == <<root, rows, used, again, steps>>

Leaf(keys, values) ==
    [leaf |-> TRUE, keys |-> keys, values |-> values, children |-> <<>>]
Inner(keys, children) ==
    [leaf |-> FALSE, keys |-> keys, values |-> <<>>, children |-> children]

From(s, i) == SubSeq(s, i, Len(s))
To(s, i) == SubSeq(s, 1, i)

-----------------------------------------------------------------------------
(* Places are counted from 1 here, from 0 in the code.                     *)

\* _binarySearchInsertPoint on the places left .. right - 1.
RECURSIVE PointIn(_, _, _, _)
PointIn(keys, key, left, right) ==
    IF left >= right THEN left
    ELSE LET mid == (left + right) \div 2
         IN IF keys[mid] < key THEN PointIn(keys, key, mid + 1, right)
            ELSE PointIn(keys, key, left, mid)

InsertPoint(keys, key) == PointIn(keys, key, 1, Len(keys) + 1)

\* _binarySearch on the places left .. right.
RECURSIVE FindIn(_, _, _, _)
FindIn(keys, key, left, right) ==
    IF left > right THEN [found |-> FALSE, index |-> left]
    ELSE LET mid == (left + right) \div 2
         IN IF keys[mid] = key THEN [found |-> TRUE, index |-> mid]
            ELSE IF keys[mid] < key THEN FindIn(keys, key, mid + 1, right)
            ELSE FindIn(keys, key, left, mid - 1)

BinarySearch(keys, key) == FindIn(keys, key, 1, Len(keys))

\* Mutated form of SplitChild: the middle key moves up from a leaf too.
SplitChildMoves(p, i) ==
    LET full == p.children[i]
        mid == Order \div 2
        left == IF full.leaf THEN Leaf(To(full.keys, mid), To(full.values, mid))
                ELSE Inner(To(full.keys, mid), To(full.children, mid + 1))
        right == IF full.leaf
                 THEN Leaf(From(full.keys, mid + 2), From(full.values, mid + 2))
                 ELSE Inner(From(full.keys, mid + 2), From(full.children, mid + 2))
    IN Inner(InsertAt(p.keys, i, full.keys[mid + 1]),
             InsertAt([p.children EXCEPT ![i] = left], i + 1, right))

\* _splitChild: a copy of a leaf's middle key goes up, an inner node's middle
\* key moves up.
SplitChild(p, i) ==
    LET full == p.children[i]
        mid == Order \div 2
        left == IF full.leaf THEN Leaf(To(full.keys, mid), To(full.values, mid))
                ELSE Inner(To(full.keys, mid), To(full.children, mid + 1))
        right == IF full.leaf
                 THEN Leaf(From(full.keys, mid + 1), From(full.values, mid + 1))
                 ELSE Inner(From(full.keys, mid + 2), From(full.children, mid + 2))
    IN Inner(InsertAt(p.keys, i, full.keys[mid + 1]),
             InsertAt([p.children EXCEPT ![i] = left], i + 1, right))

\* Mutated form of ChildFor: after a split the left half is always taken.
ChildForLeft(n, i, split, key) == i

\* The child to go down to after its split: the right half for a key above
\* the one that went up.
ChildFor(n, i, split, key) == IF split /\ key > n.keys[i] THEN i + 1 ELSE i

\* _insertNonFull
RECURSIVE InsertNonFull(_, _, _)
InsertNonFull(node, key, value) ==
    LET i == InsertPoint(node.keys, key)
    IN IF node.leaf
       THEN Leaf(InsertAt(node.keys, i, key), InsertAt(node.values, i, value))
       ELSE LET c == IF i > Len(node.children) THEN Len(node.children) ELSE i
                split == Len(node.children[c].keys) >= Order
                n == IF split THEN SplitChild(node, c) ELSE node
                d == ChildFor(n, c, split, key)
            IN [n EXCEPT !.children[d] = InsertNonFull(@, key, value)]

\* insert: a full root is split under a new one.
Inserted(t, key, value) ==
    InsertNonFull(IF Len(t.keys) >= Order
                  THEN SplitChild(Inner(<<>>, <<t>>), 1) ELSE t,
                  key, value)

\* _deleteFromNode: the first key that is not below, and right of its copy.
RECURSIVE DeleteFromNode(_, _)
DeleteFromNode(node, key) ==
    LET i == InsertPoint(node.keys, key)
        here == i <= Len(node.keys) /\ node.keys[i] = key
    IN IF node.leaf
       THEN IF here THEN Leaf(RemoveAt(node.keys, i), RemoveAt(node.values, i))
            ELSE node
       ELSE [node EXCEPT !.children[IF here THEN i + 1 ELSE i] =
                            DeleteFromNode(@, key)]

\* delete: a root without keys gives way to its child.
Deleted(t, key) ==
    LET d == DeleteFromNode(t, key)
    IN IF d.keys = <<>> /\ ~ d.leaf THEN d.children[1] ELSE d

\* Mutated form of SearchChild: a key equal to the copy is sought on its left.
SearchChildLeft(hit) == hit.index

\* Where the search goes on: right of a copy of the key.
SearchChild(hit) == IF hit.found THEN hit.index + 1 ELSE hit.index

\* _searchNode
RECURSIVE SearchNode(_, _)
SearchNode(node, key) ==
    LET hit == BinarySearch(node.keys, key)
    IN IF node.leaf
       THEN IF hit.found THEN <<node.values[hit.index]>> ELSE <<>>
       ELSE IF SearchChild(hit) \in DOMAIN node.children
            THEN SearchNode(node.children[SearchChild(hit)], key)
            ELSE <<>>

Search(key) == SearchNode(root, key)

\* Whether a range from min can have entries left of a key.
Visits(key, min) == key > min

\* _rangeSearch: an inner node has no values.
RECURSIVE RangeNode(_, _, _)
RangeNode(node, min, max) ==
    LET within(i) == min <= node.keys[i] /\ node.keys[i] <= max
        at(i) == IF node.leaf
                 THEN IF within(i) THEN <<node.values[i]>> ELSE <<>>
                 ELSE (IF Visits(node.keys[i], min)
                       THEN RangeNode(node.children[i], min, max) ELSE <<>>)
                      \o (IF within(i) THEN <<Undefined>> ELSE <<>>)
        last == Len(node.keys) + 1
    IN FlattenSeq([i \in DOMAIN node.keys |-> at(i)])
       \o (IF ~ node.leaf /\ last \in DOMAIN node.children
           THEN RangeNode(node.children[last], min, max) ELSE <<>>)

RangeSearch(min, max) == RangeNode(root, min, max)

\* _collectAll
RECURSIVE Collected(_)
Collected(node) ==
    IF node.leaf THEN node.values
    ELSE FlattenSeq([i \in DOMAIN node.children |-> Collected(node.children[i])])

-----------------------------------------------------------------------------
(* Actions.                                                                *)

Init ==
    /\ root = Leaf(<<>>, <<>>)
    /\ rows = {}
    /\ used = {}
    /\ again = {}
    /\ steps = 0

\* The value stored is the row itself.
Insert(key, value) ==
    LET row == [key |-> key, value |-> value]
    IN /\ steps < MaxSteps
       /\ row \notin rows
       /\ root' = Inserted(root, key, row)
       /\ rows' = rows \cup {row}
       /\ used' = used \cup {key}
       /\ again' = IF key \in used THEN again \cup {key} ELSE again
       /\ steps' = steps + 1

\* The caller deletes the only row of a key, or one of its rows.
Delete(row) ==
    /\ steps < MaxSteps
    /\ root' = Deleted(root, row.key)
    /\ rows' = rows \ {row}
    /\ steps' = steps + 1
    /\ UNCHANGED <<used, again>>

Next ==
    \/ \E key \in Keys, value \in Values : Insert(key, value)
    \/ \E row \in rows : Delete(row)

Spec == Init /\ [][Next]_vars

-----------------------------------------------------------------------------
(* What must hold.                                                         *)

\* A node has no more keys than the order allows, a leaf a value for each, an
\* inner node a child more; every leaf is as deep as every other.
RECURSIVE Depths(_)
Depths(node) ==
    IF node.leaf THEN {0}
    ELSE {d + 1 : d \in UNION {Depths(node.children[i]) : i \in DOMAIN node.children}}

RECURSIVE NodeOK(_)
NodeOK(node) ==
    /\ Len(node.keys) <= Order
    /\ IF node.leaf THEN Len(node.values) = Len(node.keys)
       ELSE /\ Len(node.children) = Len(node.keys) + 1
            /\ \A i \in DOMAIN node.children : NodeOK(node.children[i])

\* The tree has the shape of a B+ tree, whatever was inserted and deleted.
TypeOK == NodeOK(root) /\ Cardinality(Depths(root)) = 1

RECURSIVE Nodes(_)
Nodes(node) ==
    {node} \cup UNION {Nodes(node.children[i]) : i \in DOMAIN node.children}

\* The keys of a node are in order, and the entries of a child lie between
\* the keys beside it.
Ordered(node) ==
    /\ \A i, j \in DOMAIN node.keys : i < j => node.keys[i] <= node.keys[j]
    /\ \A i \in DOMAIN node.children :
          \A e \in Range(Collected(node.children[i])) :
              /\ i > 1 => node.keys[i - 1] <= e.key
              /\ i <= Len(node.keys) => e.key <= node.keys[i]

\* The tree keeps its shape and its entries the order of their keys, through
\* splits and deletes, with keys that repeat and keys that come back.
InKeyOrder == TypeOK /\ \A node \in Nodes(root) : Ordered(node)

Entries == Range(Collected(root))

\* An insert adds its entry and loses none; a delete removes one entry at
\* most, and only of the key it was given.
StepsAreLocal ==
    [][ /\ rows \subseteq rows' => Entries' = Entries \cup (rows' \ rows)
        /\ \A row \in rows \ rows' :
              /\ Entries' \subseteq Entries
              /\ Cardinality(Entries \ Entries') <= 1
              /\ \A e \in Entries \ Entries' : e.key = row.key ]_vars

RowsOf(key) == {row \in rows : row.key = key}

\* A key that was never inserted twice is found if it is there, whatever
\* happened to the other keys of the tree; a range search, too, returns those
\* rows within its bounds, and besides rows only undefined places.
LookupsFind ==
    /\ \A key \in Keys \ again : Range(Search(key)) = RowsOf(key)
    /\ \A min, max \in Keys :
          {e \in Range(RangeSearch(min, max)) \ {Undefined} : e.key \notin again}
              = {row \in rows : row.key \notin again /\ min <= row.key /\ row.key <= max}
=============================================================================

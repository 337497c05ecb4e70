------------------------------ MODULE XKCTree ------------------------------
(***************************************************************************)
(* The balanced path tree of the XKC codec: XKC<alphabet_T>::BinaryTree in *)
(* src/unnamed/part_002 (lines 67-301).                                    *)
(*                                                                         *)
(* A node is identified by its position, the sequence of left (0) / right  *)
(* (1) turns from the root, so the owning left/right pointers and the      *)
(* parent back-references of the C++ nodes become the prefix order on      *)
(* positions, and the tree is a function from the positions that hold a    *)
(* node to the value stored there (INVALID for the empty root).            *)
(*                                                                         *)
(* insert(value) is split at its recursion: Insert is the public           *)
(* insert(alphabet_T) and InsertStep is one call of the recursive          *)
(* insert(shared_node parent, alphabet_T), `cur` being its `parent`        *)
(* argument and `pending` its `value` argument.  No other action is        *)
(* enabled while a recursive insertion is in progress.  BuildStep is one    *)
(* turn of the loop `for (auto&& letter : alphabet) binary_tree.insert(...)`*)
(* that both encode and decode run over their alphabet.                    *)
(***************************************************************************)
EXTENDS Integers, Sequences, FiniteSets

CONSTANTS
    Symbols,   \* the values of alphabet_T that may be inserted
    INVALID,   \* Node::Value::INVALID, the value of the empty root (-1)
    None,      \* `cur` when no recursive insertion is in progress
    TreeAlphabet  \* the letter values, in the order the build loop inserts them

ASSUME TreeConstantsAssumption ==
    /\ INVALID \notin Symbols
    /\ None \notin Seq({0, 1})
    /\ TreeAlphabet \in Seq(Symbols)
    /\ \A i, j \in 1..Len(TreeAlphabet) : i # j => TreeAlphabet[i] # TreeAlphabet[j]

VARIABLES
    tree,      \* position -> value of every node
    cur,       \* `parent` argument of the running insert(parent, value)
    pending,   \* `value` argument of the running insert(parent, value)
    alphabet,  \* the letter values the build loop iterates over
    ai         \* index of the build loop's next letter

treeVars == <<tree, cur, pending, alphabet, ai>>

Position == Seq({0, 1})

\* Node::left and Node::right
Left(p) == Append(p, 0)
Right(p) == Append(p, 1)

\* q lies in the subtree rooted at p
InSubtree(p, q) == Len(p) <= Len(q) /\ SubSeq(q, 1, Len(p)) = p

\* Node::count_nodes (lines 122-139): the nodes strictly below p
CountNodes(t, p) ==
    Cardinality({q \in DOMAIN t : InSubtree(p, q) /\ q # p})

\* Node::height of the root (lines 157-174): the longest root-to-node path
Height(t) ==
    CHOOSE h \in {Len(p) : p \in DOMAIN t} :
        \A p \in DOMAIN t : Len(p) <= h

\* t with a new node at position p holding v (shared_node(new Node(...)))
AddNode(t, p, v) == [q \in DOMAIN t \cup {p} |-> IF q = p THEN v ELSE t[q]]

\* The depth-first search of path_info reaches p before q: p is an ancestor
\* of q, or p lies in the left subtree where their paths part.
PreOrderBefore(p, q) ==
    \/ InSubtree(p, q) /\ p # q
    \/ \E i \in 1..Len(p) :
          /\ i <= Len(q)
          /\ SubSeq(p, 1, i - 1) = SubSeq(q, 1, i - 1)
          /\ p[i] = 0
          /\ q[i] = 1

\* BinaryTree::path_info (lines 233-280): the bit path of the first node in
\* pre-order (node, then left, then right) that holds v; its depth is the
\* path's length.  A value held by no node leaves the PathInfo as it was
\* constructed, depth 0 with every bit cleared, since each bit set on the
\* way down is reset on the way back (lines 259, 270).
PathInfo(t, v) ==
    LET holders == {p \in DOMAIN t : t[p] = v}
    IN  IF holders = {}
           THEN <<>>
           ELSE CHOOSE p \in holders :
                    \A q \in holders \ {p} : PreOrderBefore(p, q)

\* BinaryTree::BinaryTree (lines 177-180): a root holding INVALID
EmptyTree == [p \in {<<>>} |-> INVALID]

Init ==
    /\ tree = EmptyTree
    /\ cur = None
    /\ pending = INVALID
    /\ alphabet = TreeAlphabet
    /\ ai = 1

\* Faulty variant of Insert, for the mutation runs: the recursion is started
\* at root->left instead of the root.
InsertFromLeft(v) ==
    /\ cur = None
    /\ IF tree[<<>>] = INVALID
          THEN /\ tree' = [tree EXCEPT ![<<>>] = v]
               /\ UNCHANGED <<cur, pending>>
          ELSE /\ cur' = Left(<<>>)
               /\ pending' = v
               /\ UNCHANGED tree

(***************************************************************************)
(* insert(alphabet_T value), lines 214-224: an empty root takes the value, *)
(* otherwise the recursive insert starts at the root.                      *)
(***************************************************************************)
Insert(v) ==
    /\ cur = None
    /\ IF tree[<<>>] = INVALID
          THEN /\ tree' = [tree EXCEPT ![<<>>] = v]
               /\ UNCHANGED <<cur, pending>>
          ELSE /\ cur' = <<>>
               /\ pending' = v
               /\ UNCHANGED tree

\* Faulty variants of FreeSlot and Descend, for the mutation runs: the right
\* slot tested first; ties sent right; the left count taken one too small.
FreeSlotRightFirst(t, p) == IF Right(p) \notin DOMAIN t THEN Right(p) ELSE Left(p)

DescendTiesRight(t, p) ==
    IF CountNodes(t, Left(p)) < CountNodes(t, Right(p)) THEN Left(p) ELSE Right(p)

DescendOffByOne(t, p) ==
    IF CountNodes(t, Left(p)) <= CountNodes(t, Right(p)) + 1 THEN Left(p) ELSE Right(p)

\* The empty slot insert(parent, value) fills at p, lines 191-202: the left
\* one if it is free, else the right one.
FreeSlot(t, p) == IF Left(p) \notin DOMAIN t THEN Left(p) ELSE Right(p)

\* The child insert(parent, value) recurses into when both slots are taken,
\* lines 203-210: the left one unless its count_nodes() is larger.
Descend(t, p) ==
    IF CountNodes(t, Left(p)) <= CountNodes(t, Right(p)) THEN Left(p) ELSE Right(p)

(***************************************************************************)
(* One call of insert(shared_node parent, alphabet_T value), lines         *)
(* 188-211: a free child slot of `parent` gets the new node and the        *)
(* insertion returns, otherwise the call recurses into a child.            *)
(***************************************************************************)
InsertStep ==
    /\ cur # None
    /\ \/ /\ {Left(cur), Right(cur)} \subseteq DOMAIN tree
          /\ cur' = Descend(tree, cur)
          /\ UNCHANGED tree
       \/ /\ ~ {Left(cur), Right(cur)} \subseteq DOMAIN tree
          /\ tree' = AddNode(tree, FreeSlot(tree, cur), pending)
          /\ cur' = None
    /\ UNCHANGED <<pending, ai>>

\* One turn of the build loop (encode lines 514-517, decode lines 755-758):
\* the next letter is inserted once the previous insert has returned.
BuildStep ==
    /\ ai <= Len(alphabet)
    /\ Insert(alphabet[ai])
    /\ ai' = ai + 1

\* The loop has inserted every letter and the last insert has returned.
Built == ai > Len(alphabet) /\ cur = None

\* The tree is handed back to encode or decode: nothing changes any more.
Finished == Built /\ UNCHANGED treeVars

\* The actions leave the alphabet to the loop that owns it.
Next ==
    \/ BuildStep /\ UNCHANGED alphabet
    \/ InsertStep /\ UNCHANGED alphabet
    \/ Finished

Spec == Init /\ [][Next]_treeVars

-----------------------------------------------------------------------------
(***************************************************************************)
(* Properties                                                              *)
(***************************************************************************)

\* Type invariant; the insertion cursor always points at a live node.
TypeOK ==
    /\ DOMAIN tree \subseteq Position
    /\ <<>> \in DOMAIN tree
    /\ tree \in [DOMAIN tree -> Symbols \cup {INVALID}]
    /\ cur \in DOMAIN tree \cup {None}
    /\ pending \in Symbols \cup {INVALID}
    /\ alphabet \in Seq(Symbols)
    /\ ai \in 1..Len(alphabet) + 1

\* Tree shape (spec 3, "Path Tree Node"): every node but the root hangs off
\* a node of the tree, a node never has a right child without a left one,
\* and the root is the only node that can hold INVALID, only while it is
\* alone.  insert(parent, value) must test the left slot before the right.
Shape ==
    /\ \A p \in DOMAIN tree \ {<<>>} : SubSeq(p, 1, Len(p) - 1) \in DOMAIN tree
    /\ \A p \in DOMAIN tree : Right(p) \in DOMAIN tree => Left(p) \in DOMAIN tree
    /\ \A p \in DOMAIN tree : tree[p] = INVALID => DOMAIN tree = {<<>>}

\* The number of nodes of the subtree rooted at p (0 if there is none)
Size(t, p) == Cardinality({q \in DOMAIN t : InSubtree(p, q)})

\* Balance (spec 8): at every node the left subtree has as many nodes as the
\* right one or exactly one more, whatever the calls to insert.  This is what
\* the count_nodes() comparison of insert(parent, value) must achieve.
Balance ==
    \A p \in DOMAIN tree :
        Size(tree, Right(p)) <= Size(tree, Left(p))
        /\ Size(tree, Left(p)) <= Size(tree, Right(p)) + 1

\* The position of the node holding v
PositionOf(v) == CHOOSE p \in DOMAIN tree : tree[p] = v

\* Depth order (spec 4.2, 4.3): a letter inserted later never ends up at a
\* shallower depth than one inserted earlier, so that the letters encode
\* inserts most frequent first get the shortest paths.
DepthMonotone ==
    \A i, j \in 1..ai - 1 :
        /\ i < j
        /\ \E p \in DOMAIN tree : tree[p] = alphabet[j]
        => Len(PositionOf(alphabet[i])) <= Len(PositionOf(alphabet[j]))

=============================================================================

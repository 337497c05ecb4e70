--------------------------- MODULE XKCTreeProofs ---------------------------
(***************************************************************************)
(* Proofs about the XKC path tree (XKCTree, BinaryTree::insert of          *)
(* src/unnamed/part_002): the type invariant and the tree shape hold in    *)
(* every reachable state, for every set of symbols and every alphabet.     *)
(*                                                                         *)
(* Neither is inductive alone.  Shape needs to know that a running         *)
(* insertion carries a real letter and starts below a filled root          *)
(* (CursorOK): otherwise the node InsertStep adds could hold INVALID, and  *)
(* the cursor of a later step could point outside the tree.                *)
(***************************************************************************)
EXTENDS XKCTree, SequenceTheorems, TLAPS

\* A recursive insert in progress carries a letter, and the root is filled.
CursorOK == cur # None => pending \in Symbols /\ tree[<<>>] # INVALID

IInv == TypeOK /\ Shape /\ CursorOK

\* A child position is a position one longer than its parent, whose prefix
\* is the parent.
LEMMA ChildFacts ==
  ASSUME NEW p \in Position, NEW b \in {0, 1}
  PROVE  /\ Append(p, b) \in Position
         /\ Append(p, b) # <<>>
         /\ Len(Append(p, b)) = Len(p) + 1
         /\ SubSeq(Append(p, b), 1, Len(Append(p, b)) - 1) = p
<1>1. /\ Append(p, b) \in Position
      /\ Append(p, b) # <<>>
      /\ Len(Append(p, b)) = Len(p) + 1
      /\ \A i \in 1 .. Len(p) : Append(p, b)[i] = p[i]
  BY AppendProperties DEF Position
<1>2. Len(p) \in Nat
  BY LenProperties DEF Position
<1>3. \A i \in 1 .. Len(p) : Append(p, b)[i] \in {0, 1}
  BY <1>1, LenProperties DEF Position
<1>4. /\ SubSeq(Append(p, b), 1, Len(p)) \in Seq({0, 1})
      /\ Len(SubSeq(Append(p, b), 1, Len(p))) = Len(p)
      /\ \A i \in 1 .. Len(p) : SubSeq(Append(p, b), 1, Len(p))[i] = Append(p, b)[i]
  BY <1>2, <1>3, SubSeqProperties
<1>5. SubSeq(Append(p, b), 1, Len(p)) = p
  BY <1>1, <1>4, SeqEqual DEF Position
<1>. QED  BY <1>1, <1>2, <1>5

\* Two children coincide only as the same child of the same parent.
LEMMA ChildInjective ==
  ASSUME NEW p \in Position, NEW q \in Position, NEW a \in {0, 1}, NEW b \in {0, 1},
         Append(p, a) = Append(q, b)
  PROVE  p = q /\ a = b
BY AppendInjective DEF Position

\* The initial empty tree satisfies the inductive invariant.
LEMMA InitIInv == Init => IInv
<1> SUFFICES ASSUME Init PROVE IInv  OBVIOUS
<1>1. <<>> \in Position  BY DEF Position
<1>2. Right(<<>>) # <<>>  BY <1>1, ChildFacts DEF Right
<1>3. Len(TreeAlphabet) \in Nat  BY TreeConstantsAssumption, LenProperties
<1>4. TypeOK
  BY <1>1, <1>3, TreeConstantsAssumption DEF Init, TypeOK, EmptyTree
<1>5. Shape
  BY <1>2 DEF Init, Shape, EmptyTree
<1>. QED  BY <1>4, <1>5 DEF Init, IInv, CursorOK

\* BuildStep (insert(alphabet_T) from the build loop) preserves IInv.
LEMMA BuildStepIInv == IInv /\ BuildStep /\ UNCHANGED alphabet => IInv'
<1> SUFFICES ASSUME IInv, BuildStep, UNCHANGED alphabet PROVE IInv'  OBVIOUS
<1> DEFINE v == alphabet[ai]
<1>1. v \in Symbols /\ cur = None
  BY DEF IInv, TypeOK, BuildStep, Insert
<1>2. ai' \in 1 .. Len(alphabet') + 1
  BY DEF IInv, TypeOK, BuildStep
<1>3. CASE tree[<<>>] = INVALID
  <2>1. DOMAIN tree = {<<>>}
    BY <1>3 DEF IInv, Shape, TypeOK
  <2>2. tree' = [tree EXCEPT ![<<>>] = v] /\ cur' = None /\ pending' = pending
    BY <1>1, <1>3 DEF BuildStep, Insert
  <2>3. TypeOK'
    BY <1>1, <1>2, <2>2 DEF IInv, TypeOK
  <2>4. Right(<<>>) # <<>>
    <3>. <<>> \in Position  BY DEF Position
    <3>. QED  BY ChildFacts DEF Right
  <2>5. Shape'
    BY <1>1, <2>1, <2>2, <2>4, TreeConstantsAssumption DEF Shape
  <2>. QED  BY <2>2, <2>3, <2>5 DEF IInv, CursorOK
<1>4. CASE tree[<<>>] # INVALID
  <2>1. tree' = tree /\ cur' = <<>> /\ pending' = v
    BY <1>1, <1>4 DEF BuildStep, Insert
  <2>. QED  BY <1>1, <1>2, <1>4, <2>1 DEF IInv, TypeOK, Shape, CursorOK
<1>. QED  BY <1>3, <1>4

\* InsertStep (one call of insert(parent, value)) preserves IInv.
LEMMA InsertStepIInv == IInv /\ InsertStep /\ UNCHANGED alphabet => IInv'
<1> SUFFICES ASSUME IInv, InsertStep, UNCHANGED alphabet PROVE IInv'  OBVIOUS
<1>1. /\ cur \in DOMAIN tree
      /\ cur \in Position
      /\ pending \in Symbols
      /\ tree[<<>>] # INVALID
  BY TreeConstantsAssumption DEF IInv, TypeOK, CursorOK, InsertStep
<1>2. /\ Left(cur) \in Position /\ Right(cur) \in Position
      /\ Left(cur) # Right(cur)
  BY <1>1, ChildFacts, ChildInjective DEF Left, Right
<1>3. CASE {Left(cur), Right(cur)} \subseteq DOMAIN tree
  <2>1. Descend(tree, cur) \in {Left(cur), Right(cur)}
    BY DEF Descend
  <2>2. tree' = tree /\ cur' = Descend(tree, cur) /\ pending' = pending /\ ai' = ai
    BY <1>3 DEF InsertStep
  <2>. QED  BY <1>1, <1>3, <2>1, <2>2 DEF IInv, TypeOK, Shape, CursorOK
<1>4. CASE ~ {Left(cur), Right(cur)} \subseteq DOMAIN tree
  <2> DEFINE n == FreeSlot(tree, cur)
  <2>1. /\ n \in {Left(cur), Right(cur)}
        /\ n \notin DOMAIN tree
        /\ n = Right(cur) => Left(cur) \in DOMAIN tree
    BY <1>2, <1>4 DEF FreeSlot
  <2>2. /\ tree' = AddNode(tree, n, pending)
        /\ cur' = None /\ pending' = pending /\ ai' = ai
    BY <1>4 DEF InsertStep
  <2>3. /\ n \in Position
        /\ n # <<>>
        /\ Len(n) = Len(cur) + 1
        /\ SubSeq(n, 1, Len(n) - 1) = cur
    BY <1>1, <2>1, ChildFacts DEF Left, Right
  <2>4. DOMAIN tree' = DOMAIN tree \cup {n}
    BY <2>2 DEF AddNode
  <2>5. TypeOK'
    BY <1>1, <2>2, <2>3, <2>4 DEF IInv, TypeOK, AddNode
  <2>6. \A p \in DOMAIN tree' \ {<<>>} : SubSeq(p, 1, Len(p) - 1) \in DOMAIN tree'
    BY <1>1, <2>3, <2>4 DEF IInv, Shape
  <2>7. \A p \in DOMAIN tree' : Right(p) \in DOMAIN tree' => Left(p) \in DOMAIN tree'
    <3> SUFFICES ASSUME NEW p \in DOMAIN tree', Right(p) \in DOMAIN tree'
                 PROVE  Left(p) \in DOMAIN tree'
      OBVIOUS
    <3>1. p \in Position
      BY <2>5 DEF TypeOK
    <3>2. CASE Right(p) = n
      \* the new node is a right child: p is its parent, whose left is filled
      <4>1. p = cur /\ n = Right(cur)
        BY <3>1, <3>2, <1>1, <2>1, ChildInjective DEF Left, Right
      <4>. QED  BY <4>1, <2>1, <2>4
    <3>3. CASE Right(p) # n /\ p = n
      \* a child of the new node would need the new node in the old tree
      <4>1. Right(p) \in DOMAIN tree /\ Right(p) # <<>>
        BY <3>3, <2>4, <3>1, ChildFacts DEF Right
      <4>2. SubSeq(Right(p), 1, Len(Right(p)) - 1) = p
        BY <3>1, ChildFacts DEF Right
      <4>. QED  BY <4>1, <4>2, <3>3, <2>1 DEF IInv, Shape
    <3>4. CASE Right(p) # n /\ p # n
      BY <3>4, <2>4 DEF IInv, Shape
    <3>. QED  BY <3>2, <3>3, <3>4
  <2>8. \A p \in DOMAIN tree' : tree'[p] = INVALID => DOMAIN tree' = {<<>>}
    <3> SUFFICES ASSUME NEW p \in DOMAIN tree', tree'[p] = INVALID PROVE FALSE
      OBVIOUS
    <3>1. CASE p = n
      BY <3>1, <2>2, <1>1, TreeConstantsAssumption DEF AddNode
    <3>2. CASE p # n
      <4>1. p \in DOMAIN tree /\ tree[p] = INVALID
        BY <3>2, <2>2, <2>4 DEF AddNode
      <4>2. DOMAIN tree = {<<>>}
        BY <4>1 DEF IInv, Shape
      <4>. QED  BY <4>1, <4>2, <1>1
    <3>. QED  BY <3>1, <3>2
  <2>. QED  BY <2>2, <2>5, <2>6, <2>7, <2>8 DEF IInv, Shape, CursorOK
<1>. QED  BY <1>3, <1>4

\* Every step of the tree build keeps IInv.
LEMMA NextIInv == IInv /\ [Next]_treeVars => IInv'
<1> SUFFICES ASSUME IInv, [Next]_treeVars PROVE IInv'  OBVIOUS
<1>1. CASE BuildStep /\ UNCHANGED alphabet
  BY <1>1, BuildStepIInv
<1>2. CASE InsertStep /\ UNCHANGED alphabet
  BY <1>2, InsertStepIInv
<1>3. CASE Finished \/ UNCHANGED treeVars
  BY <1>3 DEF Finished, treeVars, IInv, TypeOK, Shape, CursorOK
<1>. QED  BY <1>1, <1>2, <1>3 DEF Next

\* Type correctness of BinaryTree::insert and the build loop: every node
\* sits at a bit path, the insertion cursor always points at a live node,
\* and the loop index stays within the alphabet.
THEOREM TypeCorrect == Spec => []TypeOK
<1>1. IInv => TypeOK  BY DEF IInv
<1>. QED  BY <1>1, InitIInv, NextIInv, PTL DEF Spec

\* Tree shape, whatever the alphabet: insert(parent, value) keeps the tree
\* prefix-closed, never fills a right slot before the left one, and never
\* leaves INVALID in a node once a second node exists.
THEOREM ShapeInvariant == Spec => []Shape
<1>1. IInv => Shape  BY DEF IInv
<1>. QED  BY <1>1, InitIInv, NextIInv, PTL DEF Spec

=============================================================================

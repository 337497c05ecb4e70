-------------------------- MODULE XKCBalanceProofs --------------------------
(***************************************************************************)
(* Proof that the XKC path tree stays balanced (XKCTree!Balance): the      *)
(* count_nodes() comparison of insert(parent, value) in src/unnamed/       *)
(* part_002 (lines 203-210) keeps, at every node, a left subtree with as   *)
(* many nodes as the right one or exactly one more, for every alphabet.    *)
(*                                                                         *)
(* Balance alone is not inductive.  A step of the recursive insert that    *)
(* adds a node grows the subtree of every ancestor of the new node, and    *)
(* Balance says nothing of how those ancestors chose their way down.  The  *)
(* strengthening (BInv) records it: every node above the cursor sent it    *)
(* into its left subtree only when both subtrees were equal, and into its  *)
(* right one only when the left was larger (CursorBalance).  Counting the  *)
(* subtrees needs a finite tree that is closed under prefixes (Closed), so *)
(* that a missing child has an empty subtree.                              *)
(***************************************************************************)
EXTENDS XKCTreeProofs, FiniteSetTheorems

\* Every prefix of a node's position is a node: the tree is closed under
\* the parent links, however far up.
Closed == \A q \in DOMAIN tree : \A k \in 0 .. Len(q) : SubSeq(q, 1, k) \in DOMAIN tree

\* Every node above the cursor of a running insert(parent, value) sent it
\* down by the count_nodes() rule: into the left subtree only when the two
\* subtrees were equal, into the right one only when the left was larger.
CursorBalance ==
    cur # None =>
        \A a \in DOMAIN tree :
            /\ InSubtree(Left(a), cur) => Size(tree, Left(a)) = Size(tree, Right(a))
            /\ InSubtree(Right(a), cur) => Size(tree, Left(a)) = Size(tree, Right(a)) + 1

BInv == IInv /\ IsFiniteSet(DOMAIN tree) /\ Closed /\ Balance /\ CursorBalance

-----------------------------------------------------------------------------
(***************************************************************************)
(* Positions and subtrees                                                  *)
(***************************************************************************)

\* The first k turns to a child are the first k turns to its parent.
LEMMA PrefixOfChild ==
  ASSUME NEW c \in Position, NEW b \in {0, 1}, NEW k \in 0 .. Len(c)
  PROVE  SubSeq(Append(c, b), 1, k) = SubSeq(c, 1, k)
<1>1. Len(c) \in Nat /\ Append(c, b) \in Seq({0, 1})
      /\ Len(Append(c, b)) = Len(c) + 1
      /\ \A i \in 1 .. Len(c) : Append(c, b)[i] = c[i]
  BY AppendProperties, LenProperties DEF Position
<1>2. \A i \in 1 .. k : Append(c, b)[i] \in {0, 1} /\ c[i] \in {0, 1}
  BY <1>1, LenProperties DEF Position
<1>3. /\ SubSeq(Append(c, b), 1, k) \in Seq({0, 1})
      /\ Len(SubSeq(Append(c, b), 1, k)) = k
      /\ \A i \in 1 .. k : SubSeq(Append(c, b), 1, k)[i] = Append(c, b)[i]
      /\ SubSeq(c, 1, k) \in Seq({0, 1})
      /\ Len(SubSeq(c, 1, k)) = k
      /\ \A i \in 1 .. k : SubSeq(c, 1, k)[i] = c[i]
  BY <1>1, <1>2, SubSeqProperties
<1>. QED  BY <1>1, <1>3, SeqEqual

\* Every position lies in its own subtree.
LEMMA SubtreeSelf ==
  ASSUME NEW x \in Position
  PROVE  InSubtree(x, x)
BY SubSeqFull DEF InSubtree, Position

\* A position in a subtree is the prefix of that length of its descendant.
LEMMA SubtreePrefix ==
  ASSUME NEW x \in Position, NEW q \in Position, InSubtree(x, q)
  PROVE  Len(x) \in 0 .. Len(q) /\ x = SubSeq(q, 1, Len(x))
BY LenProperties DEF InSubtree, Position

\* The subtree of x holds a child of c when x is that child or x holds c.
LEMMA SubtreeOfChild ==
  ASSUME NEW x \in Position, NEW c \in Position, NEW b \in {0, 1}
  PROVE  InSubtree(x, Append(c, b)) <=> (x = Append(c, b) \/ InSubtree(x, c))
<1> DEFINE n == Append(c, b)
<1>1. Len(x) \in Nat /\ Len(c) \in Nat /\ n \in Position /\ Len(n) = Len(c) + 1
  BY AppendProperties, LenProperties DEF Position
<1>2. CASE Len(x) <= Len(c)
  <2>1. SubSeq(n, 1, Len(x)) = SubSeq(c, 1, Len(x))
    BY <1>1, <1>2, PrefixOfChild
  <2>2. x # n  BY <1>1, <1>2
  <2>. QED  BY <1>1, <1>2, <2>1, <2>2 DEF InSubtree
<1>3. CASE Len(x) = Len(c) + 1
  <2>1. SubSeq(n, 1, Len(x)) = n  BY <1>1, <1>3, SubSeqFull DEF Position
  <2>. QED  BY <1>1, <1>3, <2>1 DEF InSubtree
<1>4. CASE Len(x) > Len(c) + 1
  BY <1>1, <1>4 DEF InSubtree
<1>. QED  BY <1>1, <1>2, <1>3, <1>4

\* No position lies below both children of a node.
LEMMA SubtreesDisjoint ==
  ASSUME NEW a \in Position, NEW q \in Position,
         InSubtree(Left(a), q), InSubtree(Right(a), q)
  PROVE  FALSE
<1>1. Left(a) \in Position /\ Right(a) \in Position
      /\ Len(Left(a)) = Len(Right(a))
  BY ChildFacts DEF Left, Right
<1>2. Left(a) = Right(a)  BY <1>1, SubtreePrefix
<1>. QED  BY <1>2, ChildInjective DEF Left, Right

\* The root lies in no child's subtree.
LEMMA RootBelowNoChild ==
  ASSUME NEW a \in Position, NEW b \in {0, 1}
  PROVE  ~ InSubtree(Append(a, b), <<>>)
<1>1. Len(Append(a, b)) = Len(a) + 1 /\ Len(a) \in Nat
  BY AppendProperties, LenProperties DEF Position
<1>. QED  BY <1>1 DEF InSubtree

-----------------------------------------------------------------------------
(***************************************************************************)
(* Subtree sizes                                                           *)
(***************************************************************************)

\* A subtree of a finite tree has a natural number of nodes.
LEMMA SizeType ==
  ASSUME NEW t, IsFiniteSet(DOMAIN t), NEW x
  PROVE  Size(t, x) \in Nat /\ CountNodes(t, x) \in Nat
BY FS_Subset, FS_CardinalityType DEF Size, CountNodes

\* The size of a subtree depends only on which positions hold a node.
LEMMA SizeSameDomain ==
  ASSUME NEW t, NEW u, DOMAIN t = DOMAIN u, NEW x
  PROVE  Size(t, x) = Size(u, x)
BY DEF Size

\* A node counts itself and the nodes strictly below it.
LEMMA SizeOfNode ==
  ASSUME NEW t, IsFiniteSet(DOMAIN t), NEW x \in DOMAIN t, x \in Position
  PROVE  Size(t, x) = CountNodes(t, x) + 1
<1> DEFINE Below == {q \in DOMAIN t : InSubtree(x, q) /\ q # x}
<1>1. {q \in DOMAIN t : InSubtree(x, q)} = Below \cup {x}
  <2>1. InSubtree(x, x)  BY SubtreeSelf
  <2>. QED  BY <2>1
<1>2. IsFiniteSet(Below)  BY FS_Subset
<1>. QED  BY <1>1, <1>2, FS_AddElement DEF Size, CountNodes

\* Adding node n grows exactly the subtrees that hold n, by one.
LEMMA SizeAddNode ==
  ASSUME NEW t, IsFiniteSet(DOMAIN t), NEW n, n \notin DOMAIN t, NEW v, NEW x
  PROVE  Size(AddNode(t, n, v), x) = Size(t, x) + (IF InSubtree(x, n) THEN 1 ELSE 0)
<1> DEFINE S == {q \in DOMAIN t : InSubtree(x, q)}
<1>1. DOMAIN AddNode(t, n, v) = DOMAIN t \cup {n}  BY DEF AddNode
<1>2. IsFiniteSet(S) /\ n \notin S  BY FS_Subset
<1>3. CASE InSubtree(x, n)
  <2>1. {q \in DOMAIN AddNode(t, n, v) : InSubtree(x, q)} = S \cup {n}
    BY <1>1, <1>3
  <2>. QED  BY <1>2, <1>3, <2>1, FS_AddElement DEF Size
<1>4. CASE ~ InSubtree(x, n)
  <2>1. {q \in DOMAIN AddNode(t, n, v) : InSubtree(x, q)} = S
    BY <1>1, <1>4
  <2>. QED  BY <1>4, <2>1, SizeType DEF Size
<1>. QED  BY <1>3, <1>4

\* In a prefix-closed tree a missing position has an empty subtree.
LEMMA SizeOfMissing ==
  ASSUME TypeOK, Closed, NEW x \in Position, x \notin DOMAIN tree
  PROVE  Size(tree, x) = 0
<1>1. {q \in DOMAIN tree : InSubtree(x, q)} = {}
  BY SubtreePrefix DEF Closed, TypeOK
<1>. QED  BY <1>1, FS_EmptySet DEF Size

-----------------------------------------------------------------------------
(***************************************************************************)
(* The inductive invariant                                                 *)
(***************************************************************************)

\* The empty tree of BinaryTree() is balanced: its root has no children.
LEMMA InitBInv == Init => BInv
<1> SUFFICES ASSUME Init PROVE BInv  OBVIOUS
<1>1. IInv  BY InitIInv
<1>2. DOMAIN tree = {<<>>} /\ cur = None  BY DEF Init, EmptyTree
<1>3. IsFiniteSet(DOMAIN tree)  BY <1>2, FS_Singleton
<1>4. Closed  BY <1>2, SubSeqEmpty DEF Closed
<1>5. <<>> \in Position /\ Left(<<>>) \in Position /\ Right(<<>>) \in Position
      /\ Left(<<>>) # <<>> /\ Right(<<>>) # <<>>
  BY ChildFacts DEF Position, Left, Right
<1>6. Size(tree, Left(<<>>)) = 0 /\ Size(tree, Right(<<>>)) = 0
  BY <1>1, <1>2, <1>4, <1>5, SizeOfMissing DEF IInv
<1>7. Balance  BY <1>2, <1>6 DEF Balance
<1>. QED  BY <1>1, <1>2, <1>3, <1>4, <1>7 DEF BInv, CursorBalance

\* A turn of the build loop changes no node's position, and a recursive
\* insert it starts begins at the root, which no child's subtree holds.
LEMMA BuildStepBInv == BInv /\ BuildStep /\ UNCHANGED alphabet => BInv'
<1> SUFFICES ASSUME BInv, BuildStep, UNCHANGED alphabet PROVE BInv'  OBVIOUS
<1>1. IInv'  BY BuildStepIInv DEF BInv
<1>2. DOMAIN tree' = DOMAIN tree  BY DEF BuildStep, Insert
<1>3. \A x : Size(tree', x) = Size(tree, x)  BY <1>2, SizeSameDomain
<1>4. IsFiniteSet(DOMAIN tree)' /\ Closed' /\ Balance'
  BY <1>2, <1>3 DEF BInv, Closed, Balance
<1>5. cur' = None \/ cur' = <<>>  BY DEF BuildStep, Insert
<1>6. CursorBalance'
  <2>1. CASE cur' = None  BY <2>1 DEF CursorBalance
  <2>2. CASE cur' = <<>>
    <3>1. \A a \in DOMAIN tree' : ~ InSubtree(Left(a), <<>>) /\ ~ InSubtree(Right(a), <<>>)
      BY <1>1, RootBelowNoChild DEF IInv, TypeOK, Left, Right
    <3>. QED  BY <2>2, <3>1 DEF CursorBalance
  <2>. QED  BY <1>5, <2>1, <2>2
<1>. QED  BY <1>1, <1>4, <1>6 DEF BInv

\* Facts about the cursor of a running insert(parent, value) that both of
\* its cases use.
LEMMA CursorFacts ==
  ASSUME BInv, cur # None
  PROVE  /\ cur \in DOMAIN tree /\ cur \in Position
         /\ Left(cur) \in Position /\ Right(cur) \in Position
         /\ Left(cur) # Right(cur)
         /\ DOMAIN tree \subseteq Position
<1>1. cur \in DOMAIN tree /\ DOMAIN tree \subseteq Position
  BY DEF BInv, IInv, TypeOK
<1>. QED  BY <1>1, ChildFacts, ChildInjective DEF Left, Right

\* insert(parent, value) recursing into a child (lines 203-210): the child
\* it picks is the one the count_nodes() rule names, so the nodes above the
\* new cursor still sent it down by that rule.
LEMMA DescendBInv ==
  ASSUME BInv, InsertStep, UNCHANGED alphabet,
         {Left(cur), Right(cur)} \subseteq DOMAIN tree
  PROVE  BInv'
<1> DEFINE d == Descend(tree, cur)
<1> DEFINE SL == Size(tree, Left(cur))
<1> DEFINE SR == Size(tree, Right(cur))
<1>1. cur # None  BY DEF InsertStep
<1>2. /\ cur \in DOMAIN tree /\ cur \in Position
      /\ Left(cur) \in Position /\ Right(cur) \in Position
      /\ Left(cur) # Right(cur)
      /\ DOMAIN tree \subseteq Position
  BY <1>1, CursorFacts
<1>3. tree' = tree /\ cur' = d  BY DEF InsertStep
<1>4. IInv'  BY InsertStepIInv DEF BInv
<1>5. /\ IsFiniteSet(DOMAIN tree) /\ Balance /\ CursorBalance
  BY DEF BInv
<1>6. /\ SL = CountNodes(tree, Left(cur)) + 1
      /\ SR = CountNodes(tree, Right(cur)) + 1
      /\ CountNodes(tree, Left(cur)) \in Nat
      /\ CountNodes(tree, Right(cur)) \in Nat
  BY <1>2, <1>5, SizeOfNode, SizeType
<1>7. SR <= SL /\ SL <= SR + 1
  BY <1>2, <1>5 DEF Balance
<1>8. d = Left(cur) => SL = SR
  BY <1>2, <1>6, <1>7 DEF Descend
<1>9. d = Right(cur) => SL = SR + 1
  BY <1>2, <1>6, <1>7 DEF Descend
<1>10. d \in {Left(cur), Right(cur)}  BY DEF Descend
<1>11. CursorBalance'
  <2> SUFFICES ASSUME NEW a \in DOMAIN tree
               PROVE  /\ InSubtree(Left(a), d) => Size(tree, Left(a)) = Size(tree, Right(a))
                      /\ InSubtree(Right(a), d) => Size(tree, Left(a)) = Size(tree, Right(a)) + 1
    BY <1>3 DEF CursorBalance
  <2>1. a \in Position /\ Left(a) \in Position /\ Right(a) \in Position
    BY <1>2, ChildFacts DEF Left, Right
  <2>2. PICK b \in {0, 1} : d = Append(cur, b)  BY <1>10 DEF Left, Right
  <2>3. InSubtree(Left(a), d) => Left(a) = d \/ InSubtree(Left(a), cur)
    BY <1>2, <2>1, <2>2, SubtreeOfChild
  <2>4. InSubtree(Right(a), d) => Right(a) = d \/ InSubtree(Right(a), cur)
    BY <1>2, <2>1, <2>2, SubtreeOfChild
  <2>5. Left(a) = d => a = cur /\ d = Left(cur)
    BY <1>2, <2>1, <2>2, ChildInjective DEF Left
  <2>6. Right(a) = d => a = cur /\ d = Right(cur)
    BY <1>2, <2>1, <2>2, ChildInjective DEF Right
  <2>. QED  BY <1>1, <1>5, <1>8, <1>9, <2>3, <2>4, <2>5, <2>6 DEF CursorBalance
<1>. QED  BY <1>3, <1>4, <1>11 DEF BInv, Closed, Balance

\* insert(parent, value) filling a free slot of the cursor (lines 191-202):
\* the new node grows the subtree of each of its ancestors by one, on the
\* side the ancestor chose, which CursorBalance says was the lighter one
\* or the left of two equal ones; the cursor itself fills its left slot
\* only when it has no child and its right slot only when the left one
\* holds a single node.
LEMMA FillBInv ==
  ASSUME BInv, InsertStep, UNCHANGED alphabet,
         ~ {Left(cur), Right(cur)} \subseteq DOMAIN tree
  PROVE  BInv'
<1> DEFINE n == FreeSlot(tree, cur)
<1>1. cur # None  BY DEF InsertStep
<1>2. /\ cur \in DOMAIN tree /\ cur \in Position
      /\ Left(cur) \in Position /\ Right(cur) \in Position
      /\ Left(cur) # Right(cur)
      /\ DOMAIN tree \subseteq Position
  BY <1>1, CursorFacts
<1>3. /\ IsFiniteSet(DOMAIN tree) /\ Closed /\ Balance /\ CursorBalance
      /\ TypeOK /\ Shape
  BY DEF BInv, IInv
<1>4. /\ n \in {Left(cur), Right(cur)}
      /\ n \notin DOMAIN tree
      /\ n = Right(cur) => Left(cur) \in DOMAIN tree
      /\ n = Left(cur) => Right(cur) \notin DOMAIN tree
  BY <1>2, <1>3 DEF FreeSlot, Shape
<1>5. PICK b \in {0, 1} : n = Append(cur, b)  BY <1>4 DEF Left, Right
<1>6. /\ n \in Position /\ Len(n) = Len(cur) + 1
      /\ Left(n) \in Position /\ Right(n) \in Position
      /\ SubSeq(Left(n), 1, Len(Left(n)) - 1) = n
      /\ SubSeq(Right(n), 1, Len(Right(n)) - 1) = n
      /\ Len(Left(n)) - 1 = Len(n) /\ Len(Right(n)) - 1 = Len(n)
      /\ Len(n) \in Nat
  BY <1>2, <1>5, ChildFacts, LenProperties DEF Left, Right, Position
<1>7. tree' = AddNode(tree, n, pending) /\ cur' = None  BY DEF InsertStep
<1>8. DOMAIN tree' = DOMAIN tree \cup {n}  BY <1>7 DEF AddNode
<1>9. IInv'  BY InsertStepIInv DEF BInv
<1>10. IsFiniteSet(DOMAIN tree')  BY <1>3, <1>8, FS_AddElement
<1>11. \A x : Size(tree', x) = Size(tree, x) + (IF InSubtree(x, n) THEN 1 ELSE 0)
  BY <1>3, <1>4, <1>7, SizeAddNode
<1>12. \A x : Size(tree, x) \in Nat  BY <1>3, SizeType
<1>13. Closed'
  <2> SUFFICES ASSUME NEW q \in DOMAIN tree', NEW k \in 0 .. Len(q)
               PROVE  SubSeq(q, 1, k) \in DOMAIN tree'
    BY DEF Closed
  <2>1. CASE q \in DOMAIN tree  BY <1>3, <1>8, <2>1 DEF Closed
  <2>2. CASE q = n /\ k <= Len(cur)
    <3>1. SubSeq(n, 1, k) = SubSeq(cur, 1, k)
      BY <1>2, <1>5, <1>6, <2>2, PrefixOfChild, LenProperties DEF Position
    <3>2. SubSeq(cur, 1, k) \in DOMAIN tree
      BY <1>2, <1>3, <1>6, <2>2, LenProperties DEF Closed, Position
    <3>. QED  BY <1>8, <2>2, <3>1, <3>2
  <2>3. CASE q = n /\ k = Len(cur) + 1
    BY <1>6, <1>8, <2>3, SubSeqFull DEF Position
  <2>. QED  BY <1>2, <1>6, <1>8, <2>1, <2>2, <2>3, LenProperties DEF Position
<1>14. Balance'
  <2> SUFFICES ASSUME NEW a \in DOMAIN tree'
               PROVE  /\ Size(tree', Right(a)) <= Size(tree', Left(a))
                      /\ Size(tree', Left(a)) <= Size(tree', Right(a)) + 1
    BY DEF Balance
  <2>1. CASE a = n
    \* the new node is a leaf: no node lies below it, in either tree
    <3>1. ~ InSubtree(Left(n), n) /\ ~ InSubtree(Right(n), n)
      BY <1>6 DEF InSubtree
    <3>2. Left(n) \notin DOMAIN tree /\ Right(n) \notin DOMAIN tree
      <4>1. Len(n) \in 0 .. Len(Left(n)) /\ Len(n) \in 0 .. Len(Right(n))
        BY <1>6
      <4>2. Left(n) \in DOMAIN tree => SubSeq(Left(n), 1, Len(n)) \in DOMAIN tree
        BY <1>3, <4>1 DEF Closed
      <4>3. Right(n) \in DOMAIN tree => SubSeq(Right(n), 1, Len(n)) \in DOMAIN tree
        BY <1>3, <4>1 DEF Closed
      <4>. QED  BY <1>4, <1>6, <4>2, <4>3
    <3>3. Size(tree, Left(n)) = 0 /\ Size(tree, Right(n)) = 0
      BY <1>3, <1>6, <3>2, SizeOfMissing
    <3>. QED  BY <1>11, <2>1, <3>1, <3>3
  <2>2. CASE a \in DOMAIN tree
    <3> DEFINE SL == Size(tree, Left(a))
    <3> DEFINE SR == Size(tree, Right(a))
    <3>1. a \in Position /\ Left(a) \in Position /\ Right(a) \in Position
      BY <1>2, <2>2, ChildFacts DEF Left, Right
    <3>2. SL \in Nat /\ SR \in Nat /\ SR <= SL /\ SL <= SR + 1
      BY <1>3, <1>12, <2>2 DEF Balance
    <3>3. CASE InSubtree(Left(a), n)
      <4>1. ~ InSubtree(Right(a), n)  BY <1>6, <3>1, <3>3, SubtreesDisjoint
      <4>2. SL = SR
        <5>1. Left(a) = n \/ InSubtree(Left(a), cur)
          BY <1>2, <1>5, <3>1, <3>3, SubtreeOfChild
        <5>2. CASE Left(a) = n
          <6>1. a = cur /\ n = Left(cur)
            BY <1>2, <1>5, <3>1, <5>2, ChildInjective DEF Left
          <6>2. SL = 0  BY <1>3, <1>4, <3>1, <6>1, SizeOfMissing
          <6>. QED  BY <3>2, <6>2
        <5>3. CASE InSubtree(Left(a), cur)
          BY <1>1, <1>3, <2>2, <5>3 DEF CursorBalance
        <5>. QED  BY <5>1, <5>2, <5>3
      <4>. QED  BY <1>11, <3>2, <3>3, <4>1, <4>2
    <3>4. CASE InSubtree(Right(a), n)
      <4>1. ~ InSubtree(Left(a), n)  BY <1>6, <3>1, <3>4, SubtreesDisjoint
      <4>2. SL = SR + 1
        <5>1. Right(a) = n \/ InSubtree(Right(a), cur)
          BY <1>2, <1>5, <3>1, <3>4, SubtreeOfChild
        <5>2. CASE Right(a) = n
          <6>1. a = cur /\ n = Right(cur)
            BY <1>2, <1>5, <3>1, <5>2, ChildInjective DEF Right
          <6>2. SR = 0  BY <1>3, <1>4, <3>1, <6>1, SizeOfMissing
          <6>3. SL = CountNodes(tree, Left(a)) + 1 /\ CountNodes(tree, Left(a)) \in Nat
            BY <1>3, <1>4, <3>1, <6>1, SizeOfNode, SizeType
          <6>. QED  BY <3>2, <6>2, <6>3
        <5>3. CASE InSubtree(Right(a), cur)
          BY <1>1, <1>3, <2>2, <5>3 DEF CursorBalance
        <5>. QED  BY <5>1, <5>2, <5>3
      <4>. QED  BY <1>11, <3>2, <3>4, <4>1, <4>2
    <3>5. CASE ~ InSubtree(Left(a), n) /\ ~ InSubtree(Right(a), n)
      BY <1>11, <3>2, <3>5
    <3>. QED  BY <3>3, <3>4, <3>5
  <2>. QED  BY <1>8, <2>1, <2>2
<1>15. CursorBalance'  BY <1>7 DEF CursorBalance
<1>. QED  BY <1>9, <1>10, <1>13, <1>14, <1>15 DEF BInv

\* Every step of the tree build keeps BInv.
LEMMA NextBInv == BInv /\ [Next]_treeVars => BInv'
<1> SUFFICES ASSUME BInv, [Next]_treeVars PROVE BInv'  OBVIOUS
<1>1. CASE BuildStep /\ UNCHANGED alphabet  BY <1>1, BuildStepBInv
<1>2. CASE InsertStep /\ UNCHANGED alphabet
  <2>1. CASE {Left(cur), Right(cur)} \subseteq DOMAIN tree  BY <1>2, <2>1, DescendBInv
  <2>2. CASE ~ {Left(cur), Right(cur)} \subseteq DOMAIN tree  BY <1>2, <2>2, FillBInv
  <2>. QED  BY <2>1, <2>2
<1>3. CASE Finished \/ UNCHANGED treeVars
  BY <1>3 DEF Finished, treeVars, BInv, IInv, TypeOK, Shape, CursorOK, Closed,
              Balance, CursorBalance
<1>. QED  BY <1>1, <1>2, <1>3 DEF Next

\* Balance of BinaryTree::insert, whatever the alphabet: after any number
\* of insertions, and between the recursive calls of one, every node's left
\* subtree holds as many nodes as its right subtree or exactly one more.
\* The count_nodes() comparison of lines 203-210 is what maintains it.
THEOREM BalanceInvariant == Spec => []Balance
<1>1. BInv => Balance  BY DEF BInv
<1>. QED  BY <1>1, InitBInv, NextBInv, PTL DEF Spec

=============================================================================

--------------------------- MODULE XKCDepthProofs ---------------------------
(***************************************************************************)
(* Proof that the XKC path tree gives a letter inserted later a path no    *)
(* shorter than a letter inserted earlier (XKCTree!DepthMonotone), for     *)
(* every alphabet: the property encode relies on when it inserts the most  *)
(* frequent letters first (insert(parent, value), src/unnamed/part_002     *)
(* lines 188-211).                                                         *)
(*                                                                         *)
(* The argument.  The tree stays full: every position shorter than some    *)
(* node is a node (Full).  Then a new node is never shallower than an old  *)
(* one, since a position shorter than an old node is already taken.  Full  *)
(* is kept because every insert fills a missing position of least length   *)
(* (MinMissing): the cursor of a running insert always has one in its      *)
(* subtree (CursorMin).  The count_nodes() comparison keeps it so.  If the *)
(* subtree it picks had none, every position of that length below it      *)
(* would be a node, while its sibling lacks one; moving the sibling's      *)
(* nodes across (Transplant) then shows that the sibling has fewer nodes,  *)
(* so the comparison would have picked the sibling (SiblingCount).  The    *)
(* rest of the invariant ties the nodes to the letters of the build loop.  *)
(***************************************************************************)
EXTENDS XKCBalanceProofs

\* Every position shorter than a node is a node: the levels above the
\* deepest node are complete.
Full == \A q \in DOMAIN tree : \A p \in Position : Len(p) < Len(q) => p \in DOMAIN tree

\* x is a missing position of least length: the depth of the next node.
MinMissing(x) ==
    /\ x \in Position \ DOMAIN tree
    /\ \A y \in Position \ DOMAIN tree : Len(x) <= Len(y)

\* The tree has a missing position of least length.
SomeMinMissing == \E x : MinMissing(x)

\* A running insert(parent, value) is above a missing position of least
\* length.
CursorMin == cur # None => \E x : MinMissing(x) /\ InSubtree(cur, x)

\* Every letter the build loop has inserted holds a node, the one whose
\* insert is still running excepted.
LettersPlaced ==
    \A i \in 1 .. ai - 1 :
        cur = None \/ i < ai - 1 => \E p \in DOMAIN tree : tree[p] = alphabet[i]

\* Every node holds INVALID or a letter the loop has inserted, never the
\* letter whose insert is still running.
LettersHeld ==
    \A p \in DOMAIN tree :
        tree[p] # INVALID =>
            \E i \in 1 .. ai - 1 : tree[p] = alphabet[i] /\ (cur # None => i < ai - 1)

\* A running insert carries the letter of the last turn of the loop.
PendingLetter == cur # None => ai > 1 /\ pending = alphabet[ai - 1]

\* No two nodes hold the same value.
DistinctValues == \A p, q \in DOMAIN tree : tree[p] = tree[q] => p = q

\* A letter inserted later holds a node no shallower.
DepthOrder ==
    \A p, q \in DOMAIN tree : \A i, j \in 1 .. ai - 1 :
        tree[p] = alphabet[i] /\ tree[q] = alphabet[j] /\ i < j => Len(p) <= Len(q)

DInv ==
    /\ BInv /\ Full /\ SomeMinMissing /\ CursorMin
    /\ LettersPlaced /\ LettersHeld /\ PendingLetter /\ DistinctValues
    /\ DepthOrder /\ alphabet = TreeAlphabet

\* The position y with its first Len(a) turns replaced by a.
Transplant(a, y) == [i \in 1 .. Len(y) |-> IF i <= Len(a) THEN a[i] ELSE y[i]]

-----------------------------------------------------------------------------
(***************************************************************************)
(* Positions as sequences of turns                                         *)
(***************************************************************************)

\* A position lies in the subtree of c exactly when it starts with c's turns.
LEMMA SubtreeIff ==
  ASSUME NEW c \in Position, NEW x \in Position
  PROVE  InSubtree(c, x) <=> Len(c) <= Len(x) /\ \A i \in 1 .. Len(c) : x[i] = c[i]
<1>1. Len(c) \in Nat /\ Len(x) \in Nat  BY LenProperties DEF Position
<1>2. ASSUME Len(c) <= Len(x)
      PROVE  /\ SubSeq(x, 1, Len(c)) \in Seq({0, 1})
             /\ Len(SubSeq(x, 1, Len(c))) = Len(c)
             /\ \A i \in 1 .. Len(c) : SubSeq(x, 1, Len(c))[i] = x[i]
  <2>1. \A i \in 1 .. Len(c) : x[i] \in {0, 1}  BY <1>1, <1>2, LenProperties DEF Position
  <2>. QED  BY <1>1, <2>1, SubSeqProperties
<1>3. ASSUME Len(c) <= Len(x), \A i \in 1 .. Len(c) : x[i] = c[i]
      PROVE  SubSeq(x, 1, Len(c)) = c
  BY <1>2, <1>3, SeqEqual DEF Position
<1>. QED  BY <1>2, <1>3 DEF InSubtree

\* A position strictly below c lies below one of c's children.
LEMMA BelowChild ==
  ASSUME NEW c \in Position, NEW x \in Position, InSubtree(c, x), x # c
  PROVE  InSubtree(Left(c), x) \/ InSubtree(Right(c), x)
<1>1. Len(c) \in Nat /\ Len(x) \in Nat  BY LenProperties DEF Position
<1>2. Len(c) <= Len(x) /\ \A i \in 1 .. Len(c) : x[i] = c[i]  BY SubtreeIff
<1>3. Len(c) < Len(x)
  <2>1. SUFFICES ASSUME Len(c) = Len(x) PROVE FALSE  BY <1>1, <1>2
  <2>. QED  BY <1>2, <2>1, SeqEqual DEF Position
<1>4. x[Len(c) + 1] \in {0, 1}  BY <1>1, <1>3, LenProperties DEF Position
<1> DEFINE b == x[Len(c) + 1]
<1>5. /\ Append(c, b) \in Position /\ Len(Append(c, b)) = Len(c) + 1
      /\ \A i \in 1 .. Len(c) : Append(c, b)[i] = c[i]
      /\ Append(c, b)[Len(c) + 1] = b
  BY <1>4, AppendProperties DEF Position
<1>6. \A i \in 1 .. Len(Append(c, b)) : x[i] = Append(c, b)[i]
  BY <1>1, <1>2, <1>5
<1>7. Len(Append(c, b)) <= Len(x)  BY <1>1, <1>3, <1>5
<1>8. InSubtree(Append(c, b), x)
  <2>1. Append(c, b) \in Position  BY <1>5
  <2>. QED  BY <2>1, <1>6, <1>7, SubtreeIff
<1>. QED  BY <1>4, <1>8 DEF Left, Right

\* Transplanting a position below b to a position a of the same length
\* gives a position below a of the same length, and it loses nothing.
LEMMA TransplantFacts ==
  ASSUME NEW a \in Position, NEW b \in Position, Len(a) = Len(b),
         NEW y \in Position, InSubtree(b, y)
  PROVE  /\ Transplant(a, y) \in Position
         /\ Len(Transplant(a, y)) = Len(y)
         /\ InSubtree(a, Transplant(a, y))
         /\ \A z \in Position : InSubtree(b, z) /\ Transplant(a, z) = Transplant(a, y) => z = y
<1>1. Len(a) \in Nat /\ Len(y) \in Nat  BY LenProperties DEF Position
<1>2. Len(b) <= Len(y) /\ \A i \in 1 .. Len(b) : y[i] = b[i]  BY SubtreeIff
<1>3. \A i \in 1 .. Len(y) : Transplant(a, y)[i] \in {0, 1}
  BY <1>1, LenProperties DEF Transplant, Position
<1>4. Transplant(a, y) \in [1 .. Len(y) -> {0, 1}]  BY <1>3 DEF Transplant
<1>5. Transplant(a, y) \in Position /\ Len(Transplant(a, y)) = Len(y)
  BY <1>1, <1>4, SeqDef, LenProperties DEF Position
<1>6. InSubtree(a, Transplant(a, y))
  BY <1>1, <1>2, <1>5, SubtreeIff DEF Transplant
<1>7. ASSUME NEW z \in Position, InSubtree(b, z), Transplant(a, z) = Transplant(a, y)
      PROVE  z = y
  <2>1. Len(z) \in Nat /\ Len(b) <= Len(z) /\ \A i \in 1 .. Len(b) : z[i] = b[i]
    BY <1>7, SubtreeIff, LenProperties DEF Position
  <2>2. Len(z) = Len(y)  BY <1>7, <1>1, <2>1 DEF Transplant
  <2>3. \A i \in 1 .. Len(y) : z[i] = y[i]
    <3> SUFFICES ASSUME NEW i \in 1 .. Len(y) PROVE z[i] = y[i]  OBVIOUS
    <3>1. CASE i <= Len(a)  BY <1>2, <2>1, <3>1
    <3>2. CASE i > Len(a)
      <4>1. Transplant(a, z)[i] = z[i] /\ Transplant(a, y)[i] = y[i]
        BY <2>2, <3>2 DEF Transplant
      <4>. QED  BY <1>7, <4>1
    <3>. QED  BY <1>1, <3>1, <3>2
  <2>. QED  BY <2>2, <2>3, SeqEqual DEF Position
<1>. QED  BY <1>5, <1>6, <1>7

-----------------------------------------------------------------------------
(***************************************************************************)
(* Counting the nodes of two sibling subtrees                              *)
(***************************************************************************)

\* In a full tree, no node is longer than a missing position of least length.
LEMMA NoNodeBelowMin ==
  ASSUME Full, NEW x, MinMissing(x), NEW q \in DOMAIN tree
  PROVE  Len(q) <= Len(x)
<1>1. x \in Position /\ x \notin DOMAIN tree  BY DEF MinMissing
<1>2. Len(x) \in Nat  BY <1>1, LenProperties DEF Position
<1>. QED  BY <1>1, <1>2 DEF Full

\* Take two subtrees rooted at the same depth: a, every position of the
\* least missing length below which is a node, and b, below which one is
\* missing.  Then b's subtree has fewer nodes than a's: its nodes move into
\* a's subtree without collision, and none of them lands on the image of
\* the missing position.
LEMMA SiblingCount ==
  ASSUME TypeOK, IsFiniteSet(DOMAIN tree), Full, NEW x, MinMissing(x),
         NEW a \in Position, NEW b \in Position, Len(a) = Len(b), InSubtree(b, x),
         \A z \in Position : InSubtree(a, z) /\ Len(z) = Len(x) => z \in DOMAIN tree
  PROVE  Size(tree, b) < Size(tree, a)
<1> DEFINE SA == {q \in DOMAIN tree : InSubtree(a, q)}
<1> DEFINE SB == {q \in DOMAIN tree : InSubtree(b, q)}
<1> DEFINE gx == Transplant(a, x)
<1> DEFINE g == [y \in SB |-> Transplant(a, y)]
<1>1. x \in Position /\ x \notin DOMAIN tree /\ Len(x) \in Nat
  BY LenProperties DEF MinMissing, Position
<1>2. DOMAIN tree \subseteq Position  BY DEF TypeOK
<1>3. gx \in SA
  BY <1>1, TransplantFacts
<1>4. ASSUME NEW y \in SB PROVE g[y] \in SA \ {gx}
  <2>1. y \in Position /\ InSubtree(b, y) /\ Len(y) <= Len(x)
    BY <1>2, NoNodeBelowMin
  <2>2. /\ Transplant(a, y) \in Position /\ Len(Transplant(a, y)) = Len(y)
        /\ InSubtree(a, Transplant(a, y))
    BY <2>1, TransplantFacts
  <2>3. Transplant(a, y) \in DOMAIN tree
    <3>1. CASE Len(y) = Len(x)  BY <2>2, <3>1
    <3>2. CASE Len(y) < Len(x)  BY <2>2, <3>2 DEF MinMissing
    <3>. QED  BY <1>1, <2>1, <2>2, <3>1, <3>2, LenProperties DEF Position
  <2>4. Transplant(a, y) # gx
    BY <1>1, <2>1, TransplantFacts
  <2>. QED  BY <2>2, <2>3, <2>4
<1>5. g \in Injection(SB, SA \ {gx})
  <2>1. g \in [SB -> SA \ {gx}]  BY <1>4
  <2>2. \A y, z \in SB : g[y] = g[z] => y = z
    BY <1>2, TransplantFacts
  <2>. QED  BY <2>1, <2>2 DEF Injection, IsInjective
<1>6. /\ IsFiniteSet(SA) /\ IsFiniteSet(SA \ {gx})
      /\ Cardinality(SA \ {gx}) = Cardinality(SA) - 1
      /\ Cardinality(SA) \in Nat
  BY <1>3, FS_Subset, FS_RemoveElement, FS_CardinalityType
<1>7. Cardinality(SB) <= Cardinality(SA \ {gx})  BY <1>5, <1>6, FS_Injection
<1>8. Cardinality(SB) \in Nat  BY FS_Subset, FS_CardinalityType
<1>9. Cardinality(SB) < Cardinality(SA)  BY <1>6, <1>7, <1>8
<1>. QED  BY <1>9 DEF Size

-----------------------------------------------------------------------------
(***************************************************************************)
(* The inductive invariant                                                 *)
(***************************************************************************)

\* Facts of DInv that every step uses: positions, the letters of the loop
\* and their distinctness (TreeConstantsAssumption).
LEMMA DInvFacts ==
  ASSUME DInv
  PROVE  /\ TypeOK /\ Shape /\ CursorOK /\ IsFiniteSet(DOMAIN tree)
         /\ DOMAIN tree \subseteq Position
         /\ ai \in Nat /\ ai - 1 \in 0 .. Len(alphabet)
         /\ \A i \in 1 .. Len(alphabet) : alphabet[i] \in Symbols
         /\ \A i, j \in 1 .. Len(alphabet) : alphabet[i] = alphabet[j] => i = j
<1>1. TypeOK /\ Shape /\ CursorOK /\ IsFiniteSet(DOMAIN tree)  BY DEF DInv, BInv, IInv
<1>2. Len(alphabet) \in Nat  BY <1>1, LenProperties DEF TypeOK
<1>3. \A i \in 1 .. Len(alphabet) : alphabet[i] \in Symbols
  BY <1>1, LenProperties DEF TypeOK
<1>. QED  BY <1>1, <1>2, <1>3, TreeConstantsAssumption DEF DInv, TypeOK

\* The empty tree of BinaryTree(): one root, whose missing children are the
\* positions of least length.
LEMMA InitDInv == Init => DInv
<1> SUFFICES ASSUME Init PROVE DInv  OBVIOUS
<1>1. BInv  BY InitBInv
<1>2. DOMAIN tree = {<<>>} /\ tree[<<>>] = INVALID /\ cur = None /\ ai = 1
      /\ alphabet = TreeAlphabet
  BY DEF Init, EmptyTree
<1>3. Full  BY <1>2, LenProperties DEF Full, Position
<1>4. MinMissing(Left(<<>>))
  <2>1. Left(<<>>) \in Position /\ Left(<<>>) # <<>> /\ Len(Left(<<>>)) = 1
    BY ChildFacts, EmptySeq DEF Left, Position
  <2>2. \A y \in Position \ {<<>>} : 1 <= Len(y)
    BY EmptySeq, LenProperties DEF Position
  <2>. QED  BY <1>2, <2>1, <2>2 DEF MinMissing
<1>5. LettersHeld /\ DistinctValues /\ LettersPlaced /\ DepthOrder
  BY <1>2 DEF LettersHeld, DistinctValues, LettersPlaced, DepthOrder
<1>. QED  BY <1>1, <1>2, <1>3, <1>4, <1>5
          DEF DInv, SomeMinMissing, CursorMin, PendingLetter

\* A turn of the build loop: an empty root takes the first letter, and
\* otherwise the recursive insert starts at the root, above every position.
LEMMA BuildStepDInv == DInv /\ BuildStep /\ UNCHANGED alphabet => DInv'
<1> SUFFICES ASSUME DInv, BuildStep, UNCHANGED alphabet PROVE DInv'  OBVIOUS
<1> DEFINE v == alphabet[ai]
<1>1. /\ TypeOK /\ Shape /\ IsFiniteSet(DOMAIN tree)
      /\ DOMAIN tree \subseteq Position
      /\ ai \in Nat /\ ai - 1 \in 0 .. Len(alphabet)
      /\ \A i \in 1 .. Len(alphabet) : alphabet[i] \in Symbols
      /\ \A i, j \in 1 .. Len(alphabet) : alphabet[i] = alphabet[j] => i = j
  BY DInvFacts
<1>2. ai <= Len(alphabet) /\ cur = None /\ ai' = ai + 1 /\ v \in Symbols
  BY <1>1 DEF BuildStep, Insert
<1>3. BInv'  BY NextBInv DEF DInv, Next
<1>4. alphabet' = alphabet /\ alphabet = TreeAlphabet  BY DEF DInv
<1>5. CASE tree[<<>>] = INVALID
  <2>1. DOMAIN tree = {<<>>}  BY <1>1, <1>5 DEF TypeOK, Shape
  <2>2. ai = 1
    <3>1. SUFFICES ASSUME ai # 1 PROVE FALSE  OBVIOUS
    <3>2. PICK p \in DOMAIN tree : tree[p] = alphabet[1]
      BY <1>1, <1>2, <3>1 DEF DInv, LettersPlaced
    <3>. QED  BY <1>1, <1>2, <1>5, <2>1, <3>1, <3>2, TreeConstantsAssumption
  <2>3. tree' = [tree EXCEPT ![<<>>] = v] /\ cur' = None
    BY <1>5 DEF BuildStep, Insert
  <2>4. DOMAIN tree' = {<<>>} /\ tree'[<<>>] = alphabet[1]  BY <2>1, <2>2, <2>3
  <2>5. Full' /\ SomeMinMissing'  BY <2>1, <2>4 DEF DInv, Full, SomeMinMissing, MinMissing
  <2>6. LettersPlaced' /\ LettersHeld' /\ DistinctValues' /\ DepthOrder'
    BY <1>2, <1>4, <2>2, <2>3, <2>4
    DEF LettersPlaced, LettersHeld, DistinctValues, DepthOrder
  <2>. QED  BY <1>3, <1>4, <2>3, <2>5, <2>6 DEF DInv, CursorMin, PendingLetter
<1>6. CASE tree[<<>>] # INVALID
  <2>1. tree' = tree /\ cur' = <<>> /\ pending' = v
    BY <1>6 DEF BuildStep, Insert
  <2>2. PICK x : MinMissing(x)  BY DEF DInv, SomeMinMissing
  <2>3. InSubtree(<<>>, x)
    <3>1. x \in Position /\ Len(x) \in Nat  BY <2>2, LenProperties DEF MinMissing, Position
    <3>2. SubSeq(x, 1, 0) = <<>>  BY <3>1, SubSeqEmpty DEF Position
    <3>. QED  BY <3>1, <3>2, EmptySeq DEF InSubtree
  <2>4. <<>> # None  BY TreeConstantsAssumption, EmptySeq
  <2>5. CursorMin'
    BY <2>1, <2>2, <2>3, <2>4 DEF CursorMin, MinMissing
  <2>6. PendingLetter'
    BY <1>1, <1>2, <1>4, <2>1 DEF PendingLetter
  <2>7. \A q \in DOMAIN tree : tree[q] # v
    <3> SUFFICES ASSUME NEW q \in DOMAIN tree, tree[q] = v PROVE FALSE  OBVIOUS
    <3>1. tree[q] # INVALID  BY <1>2, TreeConstantsAssumption
    <3>2. PICK i \in 1 .. ai - 1 : tree[q] = alphabet[i]  BY <3>1 DEF DInv, LettersHeld
    <3>3. i \in 1 .. Len(alphabet) /\ ai \in 1 .. Len(alphabet) /\ i # ai  BY <1>1, <1>2
    <3>4. alphabet[i] = alphabet[ai]  BY <3>2
    <3>. QED  BY <1>1, <3>3, <3>4
  <2>8. LettersPlaced'
    <3> SUFFICES ASSUME NEW i \in 1 .. ai' - 1, cur' = None \/ i < ai' - 1
                 PROVE  \E p \in DOMAIN tree' : tree'[p] = alphabet'[i]
      BY DEF LettersPlaced
    <3>1. i \in 1 .. ai - 1  BY <1>1, <1>2, <2>1, <2>4
    <3>. QED  BY <1>2, <1>4, <2>1, <3>1 DEF DInv, LettersPlaced
  <2>9. LettersHeld'
    <3> SUFFICES ASSUME NEW p \in DOMAIN tree', tree'[p] # INVALID
                 PROVE  \E i \in 1 .. ai' - 1 : tree'[p] = alphabet'[i] /\ (cur' # None => i < ai' - 1)
      BY DEF LettersHeld
    <3>1. PICK i \in 1 .. ai - 1 : tree[p] = alphabet[i]  BY <2>1 DEF DInv, LettersHeld
    <3>. QED  BY <1>1, <1>2, <1>4, <2>1, <3>1
  <2>10. DepthOrder'
    <3> SUFFICES ASSUME NEW p \in DOMAIN tree, NEW q \in DOMAIN tree,
                        NEW i \in 1 .. ai' - 1, NEW j \in 1 .. ai' - 1,
                        tree[p] = alphabet[i], tree[q] = alphabet[j], i < j
                 PROVE  Len(p) <= Len(q)
      BY <1>4, <2>1 DEF DepthOrder
    <3>1. j # ai  BY <2>7
    <3>2. i \in 1 .. ai - 1 /\ j \in 1 .. ai - 1  BY <1>1, <1>2, <3>1
    <3>. QED  BY <3>2 DEF DInv, DepthOrder
  <2>. QED  BY <1>3, <1>4, <2>1, <2>5, <2>6, <2>8, <2>9, <2>10
            DEF DInv, Full, SomeMinMissing, MinMissing, DistinctValues
<1>. QED  BY <1>5, <1>6

\* insert(parent, value) recursing into a child (lines 203-210): the
\* count_nodes() comparison picks a child above a missing position of least
\* length.  Were there none below the child it picks, SiblingCount would
\* make that child's subtree the larger one, and the comparison would have
\* picked the other.
LEMMA DescendDInv ==
  ASSUME DInv, InsertStep, UNCHANGED alphabet,
         {Left(cur), Right(cur)} \subseteq DOMAIN tree
  PROVE  DInv'
<1> DEFINE d == Descend(tree, cur)
<1>1. /\ TypeOK /\ IsFiniteSet(DOMAIN tree) /\ DOMAIN tree \subseteq Position
      /\ Full
  BY DInvFacts DEF DInv
<1>2. cur # None /\ tree' = tree /\ cur' = d
      /\ UNCHANGED <<pending, ai, alphabet>>
  BY DEF InsertStep
<1>3. /\ cur \in DOMAIN tree /\ cur \in Position
      /\ Left(cur) \in Position /\ Right(cur) \in Position
      /\ Len(Left(cur)) = Len(Right(cur))
  BY <1>1, <1>2, ChildFacts DEF TypeOK, Left, Right
<1>3a. /\ Size(tree, Left(cur)) = CountNodes(tree, Left(cur)) + 1
      /\ Size(tree, Right(cur)) = CountNodes(tree, Right(cur)) + 1
      /\ CountNodes(tree, Left(cur)) \in Nat /\ CountNodes(tree, Right(cur)) \in Nat
  BY <1>1, <1>3, SizeOfNode, SizeType
<1>4. d \in {Left(cur), Right(cur)} /\ d # None
  BY <1>3, TreeConstantsAssumption DEF Descend, Position
<1>5. PICK x : MinMissing(x) /\ InSubtree(cur, x)  BY <1>2 DEF DInv, CursorMin
<1>6. \E z : MinMissing(z) /\ InSubtree(d, z)
  <2>1. SUFFICES ASSUME \A z : ~ (MinMissing(z) /\ InSubtree(d, z)) PROVE FALSE
    OBVIOUS
  <2>2. x \in Position /\ x # cur  BY <1>3, <1>5 DEF MinMissing
  <2>3. InSubtree(Left(cur), x) \/ InSubtree(Right(cur), x)
    BY <1>3, <1>5, <2>2, BelowChild
  <2>4. \A z \in Position : InSubtree(d, z) /\ Len(z) = Len(x) => z \in DOMAIN tree
    BY <1>5, <2>1 DEF MinMissing
  <2>5. CASE d = Left(cur)
    <3>1. InSubtree(Right(cur), x)  BY <1>5, <2>1, <2>3, <2>5
    <3>2. Size(tree, Right(cur)) < Size(tree, Left(cur))
      BY <1>1, <1>3, <1>5, <2>4, <2>5, <3>1, SiblingCount
    <3>3. Size(tree, Left(cur)) <= Size(tree, Right(cur))
      BY <1>3, <1>3a, <2>5, ChildInjective DEF Descend, Left, Right
    <3>. QED  BY <1>1, <3>2, <3>3, SizeType
  <2>6. CASE d = Right(cur)
    <3>1. InSubtree(Left(cur), x)  BY <1>5, <2>1, <2>3, <2>6
    <3>2. Size(tree, Left(cur)) < Size(tree, Right(cur))
      BY <1>1, <1>3, <1>5, <2>4, <2>6, <3>1, SiblingCount
    <3>3. ~ (Size(tree, Left(cur)) <= Size(tree, Right(cur)))
      BY <1>3, <1>3a, <2>6, ChildInjective DEF Descend, Left, Right
    <3>. QED  BY <1>1, <3>2, <3>3, SizeType
  <2>. QED  BY <1>4, <2>5, <2>6
<1>7. BInv'  BY NextBInv DEF DInv, Next
<1>. QED  BY <1>2, <1>4, <1>6, <1>7
          DEF DInv, Full, SomeMinMissing, MinMissing, CursorMin, LettersPlaced,
              LettersHeld, PendingLetter, DistinctValues, DepthOrder

\* insert(parent, value) filling a free slot of the cursor (lines 191-202):
\* the slot is a missing position of least length, so the tree stays full
\* and the new letter is no shallower than any letter already placed.
LEMMA FillDInv ==
  ASSUME DInv, InsertStep, UNCHANGED alphabet,
         ~ {Left(cur), Right(cur)} \subseteq DOMAIN tree
  PROVE  DInv'
<1> DEFINE n == FreeSlot(tree, cur)
<1>1. /\ TypeOK /\ CursorOK /\ IsFiniteSet(DOMAIN tree) /\ DOMAIN tree \subseteq Position
      /\ ai \in Nat /\ ai - 1 \in 0 .. Len(alphabet)
      /\ \A i \in 1 .. Len(alphabet) : alphabet[i] \in Symbols
      /\ \A i, j \in 1 .. Len(alphabet) : alphabet[i] = alphabet[j] => i = j
      /\ Full
  BY DInvFacts DEF DInv
<1>2. /\ cur # None /\ tree' = AddNode(tree, n, pending) /\ cur' = None
      /\ UNCHANGED <<pending, ai, alphabet>>
  BY DEF InsertStep
<1>3. /\ cur \in DOMAIN tree /\ cur \in Position
      /\ n \in {Left(cur), Right(cur)} /\ n \notin DOMAIN tree
      /\ n \in Position /\ Len(n) = Len(cur) + 1 /\ Len(cur) \in Nat
  BY <1>1, <1>2, ChildFacts, LenProperties DEF TypeOK, FreeSlot, Left, Right, Position
<1>4. DOMAIN tree' = DOMAIN tree \cup {n}
      /\ tree'[n] = pending
      /\ \A p \in DOMAIN tree : tree'[p] = tree[p]
  BY <1>2, <1>3 DEF AddNode
<1>5. ai > 1 /\ pending = alphabet[ai - 1] /\ pending \in Symbols
  BY <1>1, <1>2 DEF DInv, PendingLetter, CursorOK
<1>6. MinMissing(n)
  <2>1. PICK x : MinMissing(x) /\ InSubtree(cur, x)  BY <1>2 DEF DInv, CursorMin
  <2>2. x \in Position /\ x # cur  BY <1>3, <2>1 DEF MinMissing
  <2>3. Len(cur) + 1 <= Len(x)
    <3>1. PICK c \in {Left(cur), Right(cur)} : InSubtree(c, x)
      BY <1>3, <2>1, <2>2, BelowChild
    <3>2. c \in Position /\ Len(c) = Len(cur) + 1
      BY <1>3, ChildFacts DEF Left, Right
    <3>. QED  BY <2>2, <3>1, <3>2, SubtreeIff
  <2>4. Len(x) <= Len(n)  BY <1>3, <2>1 DEF MinMissing
  <2>. QED  BY <1>3, <2>1, <2>3, <2>4, LenProperties DEF MinMissing, Position
<1>7. Full'
  <2> SUFFICES ASSUME NEW q \in DOMAIN tree', NEW p \in Position, Len(p) < Len(q)
               PROVE  p \in DOMAIN tree'
    BY DEF Full
  <2>1. CASE q \in DOMAIN tree  BY <1>1, <1>4, <2>1 DEF Full
  <2>2. CASE q = n  BY <1>4, <1>6, <2>2 DEF MinMissing
  <2>. QED  BY <1>4, <2>1, <2>2
<1>8. SomeMinMissing'
  <2>1. CASE \E y \in Position \ DOMAIN tree : y # n /\ Len(y) = Len(n)
    <3>1. PICK y \in Position \ DOMAIN tree : y # n /\ Len(y) = Len(n)  BY <2>1
    <3>. QED  BY <1>4, <1>6, <3>1 DEF SomeMinMissing, MinMissing
  <2>2. CASE ~ \E y \in Position \ DOMAIN tree : y # n /\ Len(y) = Len(n)
    <3>1. Left(n) \in Position /\ Len(Left(n)) = Len(n) + 1 /\ Left(n) # n
      BY <1>3, ChildFacts DEF Left
    <3>2. Left(n) \notin DOMAIN tree  BY <1>1, <1>3, <3>1 DEF Full
    <3>3. \A y \in Position \ DOMAIN tree' : Len(n) + 1 <= Len(y)
      BY <1>3, <1>4, <1>6, <2>2, LenProperties DEF MinMissing, Position
    <3>4. PICK m : m = Left(n)  OBVIOUS
    <3>5. MinMissing(m)'  BY <1>4, <3>1, <3>2, <3>3, <3>4 DEF MinMissing
    <3>. QED  BY <3>5 DEF SomeMinMissing
  <2>. QED  BY <2>1, <2>2
<1>9. \A p \in DOMAIN tree : tree[p] # pending
  <2> SUFFICES ASSUME NEW p \in DOMAIN tree, tree[p] = pending PROVE FALSE  OBVIOUS
  <2>1. tree[p] # INVALID  BY <1>5, TreeConstantsAssumption
  <2>2. PICK i \in 1 .. ai - 1 : tree[p] = alphabet[i] /\ i < ai - 1
    BY <1>2, <2>1 DEF DInv, LettersHeld
  <2>. QED  BY <1>1, <1>5, <2>2
<1>10. LettersPlaced'
  <2> SUFFICES ASSUME NEW i \in 1 .. ai - 1
               PROVE  \E p \in DOMAIN tree' : tree'[p] = alphabet[i]
    BY <1>2 DEF LettersPlaced
  <2>1. CASE i = ai - 1  BY <1>4, <1>5, <2>1
  <2>2. CASE i < ai - 1  BY <1>2, <1>4, <2>2 DEF DInv, LettersPlaced
  <2>. QED  BY <1>1, <2>1, <2>2
<1>11. LettersHeld'
  <2> SUFFICES ASSUME NEW p \in DOMAIN tree', tree'[p] # INVALID
               PROVE  \E i \in 1 .. ai - 1 : tree'[p] = alphabet[i]
    BY <1>2 DEF LettersHeld
  <2>1. CASE p = n  BY <1>1, <1>4, <1>5, <2>1
  <2>2. CASE p \in DOMAIN tree  BY <1>4, <2>2 DEF DInv, LettersHeld
  <2>. QED  BY <1>4, <2>1, <2>2
<1>12. DistinctValues'
  BY <1>3, <1>4, <1>9 DEF DInv, DistinctValues
<1>13. DepthOrder'
  <2> SUFFICES ASSUME NEW p \in DOMAIN tree', NEW q \in DOMAIN tree',
                      NEW i \in 1 .. ai - 1, NEW j \in 1 .. ai - 1,
                      tree'[p] = alphabet[i], tree'[q] = alphabet[j], i < j
               PROVE  Len(p) <= Len(q)
    BY <1>2 DEF DepthOrder
  <2>1. CASE p \in DOMAIN tree /\ q \in DOMAIN tree  BY <1>4, <2>1 DEF DInv, DepthOrder
  <2>2. CASE p \in DOMAIN tree /\ q = n  BY <1>1, <1>6, <2>2, NoNodeBelowMin
  <2>3. CASE p = n /\ q \in DOMAIN tree
    <3>1. i = ai - 1  BY <1>1, <1>4, <1>5, <2>3
    <3>. QED  BY <1>1, <3>1
  <2>4. CASE p = n /\ q = n  BY <2>4
  <2>. QED  BY <1>4, <2>1, <2>2, <2>3, <2>4
<1>14. BInv'  BY NextBInv DEF DInv, Next
<1>. QED  BY <1>2, <1>7, <1>8, <1>10, <1>11, <1>12, <1>13, <1>14
          DEF DInv, CursorMin, PendingLetter

\* Every step of the tree build keeps DInv.
LEMMA NextDInv == DInv /\ [Next]_treeVars => DInv'
<1> SUFFICES ASSUME DInv, [Next]_treeVars PROVE DInv'  OBVIOUS
<1>1. CASE BuildStep /\ UNCHANGED alphabet  BY <1>1, BuildStepDInv
<1>2. CASE InsertStep /\ UNCHANGED alphabet
  <2>1. CASE {Left(cur), Right(cur)} \subseteq DOMAIN tree  BY <1>2, <2>1, DescendDInv
  <2>2. CASE ~ {Left(cur), Right(cur)} \subseteq DOMAIN tree  BY <1>2, <2>2, FillDInv
  <2>. QED  BY <2>1, <2>2
<1>3. CASE Finished \/ UNCHANGED treeVars
  <2>1. BInv'  BY NextBInv DEF DInv
  <2>. QED  BY <1>3, <2>1
       DEF Finished, treeVars, DInv, Full, SomeMinMissing, MinMissing, CursorMin,
           LettersPlaced, LettersHeld, PendingLetter, DistinctValues, DepthOrder
<1>. QED  BY <1>1, <1>2, <1>3 DEF Next

\* DepthMonotone follows: a placed letter is the only node holding it, so
\* PositionOf finds it, and DepthOrder compares the two positions.
LEMMA DInvDepthMonotone == DInv => DepthMonotone
<1> SUFFICES ASSUME DInv, NEW i \in 1 .. ai - 1, NEW j \in 1 .. ai - 1, i < j,
                    \E p \in DOMAIN tree : tree[p] = alphabet[j]
             PROVE  Len(PositionOf(alphabet[i])) <= Len(PositionOf(alphabet[j]))
  BY DEF DepthMonotone
<1>1. /\ ai \in Nat /\ ai - 1 \in 0 .. Len(alphabet)
      /\ \A k, l \in 1 .. Len(alphabet) : alphabet[k] = alphabet[l] => k = l
      /\ \A k \in 1 .. Len(alphabet) : alphabet[k] \in Symbols
  BY DInvFacts
<1>2. PICK q \in DOMAIN tree : tree[q] = alphabet[j]  OBVIOUS
<1>3. cur = None \/ i < ai - 1
  <2>1. tree[q] # INVALID  BY <1>1, <1>2, TreeConstantsAssumption
  <2>2. PICK k \in 1 .. ai - 1 : tree[q] = alphabet[k] /\ (cur # None => k < ai - 1)
    BY <2>1 DEF DInv, LettersHeld
  <2>3. k \in 1 .. Len(alphabet) /\ j \in 1 .. Len(alphabet)
        /\ alphabet[k] = alphabet[j]
    BY <1>1, <1>2, <2>2
  <2>4. k = j  BY <1>1, <2>3
  <2>. QED  BY <1>1, <2>2, <2>4
<1>4. PICK p \in DOMAIN tree : tree[p] = alphabet[i]  BY <1>3 DEF DInv, LettersPlaced
<1>5. PositionOf(alphabet[i]) = p /\ PositionOf(alphabet[j]) = q
  BY <1>2, <1>4 DEF DInv, DistinctValues, PositionOf
<1>. QED  BY <1>2, <1>4, <1>5 DEF DInv, DepthOrder

\* Depth order of BinaryTree::insert, whatever the alphabet: a letter the
\* build loop inserts later never gets a shorter path than one it inserted
\* earlier, so encode, which inserts the letters most frequent first, gives
\* the frequent letters the short paths (spec 4.2, 4.3).  The count_nodes()
\* comparison of insert(parent, value), lines 203-210, is what keeps it.
THEOREM DepthMonotoneHolds == Spec => []DepthMonotone
<1>. QED  BY InitDInv, NextDInv, DInvDepthMonotone, PTL DEF Spec

=============================================================================

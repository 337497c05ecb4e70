# TLA+ models of the XKC codec (XKLib)

This directory holds TLA+ specifications of the XKC compressor in
`src/unnamed/part_002` (`XLib::XKC<alphabet_T>`). It also holds the TLC
configurations that model-check them and the TLAPS proofs about the tree.
It also models the load and unload of the winexts kernel module
(`src/winexts/main.c`), with a proof that neither leaks a kernel object.
The rest of the source tree is inventoried below, with what is not modelled
and why.

## 1. Inventory

### Components, their state and operations

| Component | Code | State | Operations |
|---|---|---|---|
| Balanced path tree | `BinaryTree`, lines 67-301 | nodes linked by owning `left`/`right` and non-owning `parent`/`root` pointers; a `value_t` value per node, `INVALID` (-1) in the empty root | `insert(value)`, recursive `insert(parent, value)`, `count_nodes`, `height`, `depth`, `path_info`, `find_value`, `dot_format` |
| Run-length collapser | `encode`, 455-480 | `value_index`, current `Occurrence`, `occurrences` | extend or close a run; `count` capped at 255 (`byte_t`) |
| Alphabet builder | `encode`, 483-510 | `alphabet` (`Letter{value, freq}`) | `find_if` + `freq +=`, or `push_back`; `std::sort` by `freq` descending |
| Bit stream writer | `encode`, 548-691 | `result_byte`, `written_bits_on_result_byte`, `written_bits` (uint32) | `write_bit`, `check_bit`, `method1`; trailing partial byte and the 4-byte counter |
| Encode driver | `encode`, 440-718 | all of the above and `result` | the header `[max_depth_bits, size-1, letters...]`; one `method1` per occurrence copy |
| Decode driver / bit reader | `decode`, 727-828 | `read_bytes`, `read_bits_on_result_byte`, `bits_read`, its own alphabet and tree | header parse, tree rebuild, `read_bit` loop, `find_value`, output |
| `BitsNeeded` | `bits.h` (not in the tree) | none | number of bits needed to write n |
| Kernel module | `src/winexts/main.c` | chrdev region, class, cdev, device, hooks | `init_mod` with unwinding on each failure, `free_mod` |
| ProcessBase | `src/unnamed/part_001` | a pid | getter and setter |
| PatternScanning, Asura test | `part_003`, `part_000` | declarations only | none in the source |

How they interact: encode runs the collapser, then the alphabet builder,
then builds a tree from the sorted alphabet. It then writes the header and,
for every occurrence, `count` copies of the letter's path through the bit
writer. Decode shares nothing with encode except the byte buffer. It reads
the alphabet from the header, builds its own tree with the same `insert`,
and walks that tree with the bits it reads. Correctness therefore rests on
four things: the two trees are equal, the two bit orders match, the depth
field is wide enough, and the trailing counter is exact.

### Hard behaviours

- The tree shape comes out of a long sequence of insertions. Each one
  descends by a `count_nodes()` comparison with ties going left, so a
  wrong comparison only shows after several insertions.
- `std::sort` is not stable. Letters of equal frequency can come out in any
  order, so the tree must never be rebuilt from anything but the header order.
- There are boundary values:
  - a one-letter alphabet gives a tree of height 0, and `BitsNeeded(0) = 0`;
  - the empty input makes `size() - 1` wrap;
  - a run reaches the 255 cap;
  - the bit count crosses a byte boundary;
  - the partial last byte has to be flushed;
  - the uint32 counter wraps.
- Symbols wider than a byte pass through one-byte header fields and a
  one-byte output.
- Decode trusts its input. It reads without bounds checks (749, 771), and
  `find_value` follows a missing child (292-300).

### Properties that make each component correct

- **Tree:**
  - shape: prefix-closed, left slot before right, `INVALID` only in a lone root;
  - balance: at every node, left size = right size or right size + 1;
  - depth order: a letter inserted later is never shallower.
- **Codec:**
  - round trip: `decode(encode(B)) = B`;
  - both trees are equal;
  - the counter equals the number of bits written, and decode consumes exactly that many;
  - decode never reads outside its buffer.
- **Kernel module:**
  - no object outlives a failed `init_mod` or a `free_mod`;
  - a return of 0 means every object exists;
  - no release call dereferences an error pointer;
  - no file stays open on a module whose init failed;
  - `init_mod` always returns.

## 2. Plan

Modules, leaf first:

1. `XKCTree`: the tree, with constants `Symbols`, `INVALID`, `None`
   and `TreeAlphabet`. `MCXKCTree` checks it.
2. `XKCFormat`: pure byte and bit conversions shared by both sides.
3. `XKCEncode`: extends `XKCFormat` and instantiates `XKCTree` for its tree.
4. `XKCDecode`: extends `XKCFormat` and instantiates `XKCTree` again, over
   byte-valued symbols.
5. `XKCCodec`: composes `XKCEncode` and `XKCDecode` by INSTANCE. Decode is
   called on encode's result. `MCXKCCodec` checks it.
6. `XKCTreeProofs`, `XKCBalanceProofs` and `XKCDepthProofs`: TLAPS proofs
   about `XKCTree`. `XKCCodecProofs`: the layout of encode's result.
7. `WinextsModule` models the kernel module. `WinextsAbstract` is the
   kernel's contract for it, and `WinextsModuleProofs` holds its proofs.

Planned for later:

- **Decode of arbitrary buffers.** A standalone run of `XKCDecode` over small
  byte buffers, to check the error paths (`oob`, `null`) and what
  `BitCountExact` needs from a corrupted counter.
- **An abstract codec, `XKCAbstract`.** It would return its input in one
  step. `XKCCodec` would be shown to refine it on the inputs with at least
  two distinct letters, by mapping `output` and the done flag.

## 3. Modules and their correspondence to the code

### `XKCTree`

A node is identified by its position: the sequence of left (0) and right
(1) turns from the root. So `tree` is a function from positions to values,
and the pointers become the prefix order.

| Code | Model |
|---|---|
| `insert(value)` | `Insert` |
| one call of `insert(parent, value)` | `InsertStep`; `cur` is `parent`, `pending` is `value` |
| the build loop `for (letter : alphabet) insert(...)` | `BuildStep` |
| `count_nodes`, `height`, `path_info`, `find_value` | `CountNodes`, `Height`, `PathInfo`, `DOMAIN tree` lookup |

`InsertStep` recurses through `Descend` and fills a slot through `FreeSlot`.
`PathInfo` picks the first holder of the value in pre-order, as the
depth-first search of lines 233-273 does.

### `XKCFormat`

- byte truncation: `ByteOf`;
- bit `c` of a byte: `BitOf`, `SetBit`;
- the little-endian counter: `LEBytes`, `FromLE`;
- the bytes of a symbol buffer: `SymbolBytes`;
- `BitsNeeded`: from the spec, since `bits.h` is not in the tree.

### `XKCEncode`

One loop turn per action, with `epc` naming the running loop:

- the collapser: `RunStart`, `RunExtend`, `RunClose`, `RunsDone`;
- the alphabet: `AlphaStep`, `AlphaDone`, `Sort`;
- the tree: `TreeBuild`, `TreeInsert`, `Header`;
- the bit stream: `PathStart`, `EmitBit`, `CopyDone`, `OccurrenceDone`,
  `PathsDone`, `Flush`.

`EmitBit` is one `write_bit` (if the bit is 1) followed by `check_bit`.
`Sort` picks any permutation ordered by non-increasing frequency. That is
what an unstable `std::sort` is allowed to produce.

### `XKCDecode`

One loop turn per action:

- the header and alphabet: `ReadHeader`, `ReadLetter`, `LettersRead`;
- the tree: `DTreeBuild`, `DTreeInsert`, `DTreeBuilt`;
- the bit loop: `LoopTest`, `ReadDepthBit`, `DepthRead`, `ReadPathBit`,
  `PathRead`, `FindValue`;
- the output: `WriteOutput`.

Two situations are undefined behaviour in C++, and the model stops in an
error state for each:

- a read at or past the buffer's end stops in `"oob"`;
- a path off the tree stops in `"null"`.

### `XKCCodec`

The two calls share only the buffer. `CallDecode` hands encode's `result`
to decode.

### `WinextsModule`

This module models `init_mod` (lines 17-120) and `free_mod` (122-131).

- **State.** The variables are:
  - `held`: the kernel objects that really exist (region, class, cdev,
    device, hooks);
  - `gcl`: what `g_cl` holds (valid, an ERR_PTR, or NULL);
  - `pc`: the next step of `init_mod`, or `live`/`done`/`unloaded`;
  - `ret`: the return value;
  - `opens`: the files open on the device node;
  - `oops`: set when a kernel call dereferences an error pointer.
- **Init actions.** There is one action per kernel call, and its failure
  branch is part of it:
  - `Load` is the `CONFIG_X86_64` check;
  - `AllocRegion`, `ClassCreate`, `CdevAdd` and `DeviceCreate` are the
    four allocation calls;
  - `Lookup(step)` covers the three symbol lookups;
  - `InitHooks` is the last step.
- **Unwinding.** Each failure branch is `Fail(calls)`, with exactly the
  release calls of the code's unwinding path. `Teardown` models the release
  calls:
  - `device_destroy` looks the device up through `g_cl`, so it faults on
    an ERR_PTR;
  - `class_destroy` ignores an ERR_PTR.
- **Other actions.** `FreeMod` is `free_mod`, run by rmmod once no file is
  open. `Reload` is insmod of a fresh copy, and `g_cl` is zero again.
  `Open`/`Close` are users of the device node, which exists once `cdev_add`
  and `device_create` have run.
- **The environment.** The kernel calls are the environment:
  - `CanFail` says which calls may fail;
  - `ClassResults`/`DeviceResults` say what `class_create` and
    `device_create` return. In the kernel they return an ERR_PTR on
    failure, never NULL.
  - The symbol lookups and `init_hooks` live in `main.h`, which is not in
    the source tree. They are abstracted to "succeed or fail".
- **Fairness.** None. `init_mod` is straight-line code with no loop and no
  wait, so a property saying it returns would hold whatever the calls
  return. No liveness is stated for it.

### `WinextsAbstract`

`WinextsAbstract` is what the kernel expects of `module_init` and
`module_exit` (lines 10-11), with no call of `main.c` in it. While init
runs it only acquires resources (`Acquire`). It then either returns 0 with
all of them in place (`InitOk`) or returns an error with none left
(`InitFail`). `Exit` releases everything, and `Load` starts a new copy.

`WinextsModule` maps onto it with:

- `Resources <- Objects`;
- `owned <- held`;
- `status <- ModuleStatus`: "live" after a return of 0, "gone" after a
  return of -1 or `free_mod`, and "loading" otherwise.

`AbstractSpec` is that instance's specification, and the runs check it as a
property.

## 4. Runs

| Run | Config | Expect | What it shows |
|---|---|---|---|
| `tree_build` | `MCXKCTree.cfg` | pass | `TypeOK`, `Shape`, `Balance` and `DepthMonotone` for a 40-letter build |
| `codec_roundtrip` | `MCXKCCodec.cfg` | pass | `RoundTrip`, `TreesAgree`, `BitCountExact` and `TypeOK` for every 1-byte buffer of 2-5 symbols over 4 letters with at least 2 distinct letters, and every sort outcome |
| `codec_single_letter` | `MCXKCCodecSingleLetter.cfg` | violation | `RoundTrip` fails for a one-letter buffer |
| `codec_empty_input` | `MCXKCCodecEmpty.cfg` | violation | `NoUndefinedRead` fails for the empty buffer |
| `codec_wide_symbols` | `MCXKCCodecWide.cfg` | violation | `TreesAgree` fails for 2-byte symbols 1 and 257 |
| `winexts_lifecycle` | `MCWinextsModule.cfg` | pass | `ReleasedWhenGone`, `SuccessMeansDevice` and the refinement `AbstractSpec`, with any call failing, both kernel configurations, reloads and up to 8 open files |
| `winexts_any_result` | `MCWinextsAnyResult.cfg` | pass | `SuccessKeepsChecked`: what a return of 0 still guarantees when `class_create` and `device_create` return a valid pointer, an ERR_PTR or NULL |
| `winexts_class_errptr` | `MCWinextsClassErrPtr.cfg` | violation | `SuccessMeansDevice` fails when `class_create` returns an ERR_PTR (`device_create` itself only fails because of that class) |
| `winexts_errptr_oops` | `MCWinextsOops.cfg` | violation | `NoOops` fails: `device_destroy` on an ERR_PTR `g_cl` |
| `winexts_open_during_init` | `MCWinextsOpenDuringInit.cfg` | violation | `NoFileOpenAfterFailedInit` fails: the device is opened mid-init, then init fails |

Bounds and why they are enough:

- **`tree_build`.** `insert` never looks at the values it stores, so the
  build is deterministic. 40 letters give trees up to height 5, with every
  kind of tie between the subtree counts at several levels. 40 distinct
  integers suffice, and symmetry would not shrink the space.
- **`codec_roundtrip`.** Four letters give a tree of height 2, so there are
  two depth bits, and paths of length 0, 1 and 2. Five symbols write up to
  20 bits, so the stream crosses one and two byte boundaries and ends both
  on a byte boundary and inside a byte.
- **`CountMax = 2`.** This stands for the 255 cap. Runs of 3 and more
  identical symbols exercise the split of a capped run and the merge of its
  parts in the alphabet.
- **`winexts_lifecycle`.** Every fallible call may fail, in every load, so
  each of the six unwinding paths runs. Each of them runs after reloads too,
  with files opened and closed around `free_mod`. `init_mod` never looks at
  how many files are open, so 8 open files (`MCMaxOpens`) show nothing that
  2 would not. They do show `FreeMod` waiting for the count to return to 0
  from any value. In the passing run the pointer results are `valid`, as in
  a kernel where `class_create` and `device_create` succeed. The ERR_PTR
  results are the subject of the two violation runs and of
  `winexts_any_result`.
- **`winexts_any_result`.** Both pointer calls may return any of the three
  results, so the NULL branches at lines 40 and 64 run as well as the
  ERR_PTR cases that slip past them.

`WinextsModule`'s `TypeOK` is in no run: no plausible change to `main.c`
can put a variable out of its range. It is proved for every value of the
constants instead (`TypeCorrect`).

Each property of a passing run is killed by a mutant of the code it is
about. The mutants are listed in `PROJECT.json`:

- `Insert` starting at the left child;
- `FreeSlot` testing the right slot first;
- `Descend` sending ties right, or off by one;
- `CheckBit` flushing one bit late;
- `NextBit` reading bits from the most significant end;
- `AlphabetSize` without the `+ 1`;
- `Trailer` losing the partial byte;
- `InitHooks` whose failure path returns 0 (`InitHooksFailReturnsZero`);
- `CdevAdd` whose failure path forgets `class_destroy` (`CdevAddLeakClass`).
  This one is checked against the refinement: `InitFail` requires nothing
  to be left.

## 5. Findings

1. **One distinct letter.** For a buffer such as `[0x43]` the tree is a
   lone root. `max_depth_bits = BitsNeeded(0) = 0` and no bit is written,
   so decode returns an empty buffer. This breaks the spec's round trip for
   non-empty buffers (run `codec_single_letter`).
2. **Empty input.** `alphabet.size() - 1` wraps and 255 is written as the
   size byte (line 541). Decode then reads 256 letters out of a 6-byte
   buffer. The comment at line 540 assumes this cannot happen (run
   `codec_empty_input`).
3. **Two-byte symbols.** Letters are cut to one byte in the header (545)
   and read back one byte each (749). The letter 257 becomes 1 and decode's
   tree differs from encode's (run `codec_wide_symbols`). The spec gives
   the header entries `sizeof(symbol)` bytes.
4. **ERR_PTR slips past the NULL checks** (`main.c:40`, `:64`).
   `class_create` and `device_create` return an ERR_PTR on failure, never
   NULL. If `class_create` fails, `init_mod` goes on. `device_create`,
   given that error pointer for a class, fails with an ERR_PTR too, which
   line 64 also misses. `init_mod` returns 0 with no class and no device
   node (run `winexts_class_errptr`).
5. **Oops on the stale ERR_PTR** (`main.c:77`, `:126`). Once `g_cl` holds
   an error pointer, `device_destroy(g_cl, ...)` dereferences it. This
   happens in every later unwinding path and in `free_mod` (run
   `winexts_errptr_oops`).
6. **Device live before init completes** (`main.c:52`). After `cdev_add`
   and `device_create` a user can open the node. A later lookup or
   `init_hooks` failure makes `init_mod` return -1 while the file is open on
   module code about to be freed (run `winexts_open_during_init`).

## 6. Proofs

`XKCTreeProofs` proves two theorems for every `Symbols`, `INVALID`, `None`
and `TreeAlphabet` that satisfy `TreeConstantsAssumption`. That assumption
has four parts: `INVALID` is not a symbol, `None` is not a position, and
the alphabet is an injective sequence of symbols.

- `TypeCorrect`: `Spec => []TypeOK`
- `ShapeInvariant`: `Spec => []Shape`

Neither invariant is inductive alone. The inductive invariant is
`IInv == TypeOK /\ Shape /\ CursorOK`, where `CursorOK` says that while a
recursive insert is running, its value is a real symbol and the root is
filled. Without `CursorOK`, the node `InsertStep` adds could hold `INVALID`,
and `Shape`'s third conjunct would fail.

The proof has one lemma per action:

- `BuildStepIInv` splits on whether the root is empty.
- `InsertStepIInv` splits on whether both child slots are taken. In the
  "fill" case it takes one step per conjunct of `Shape`. The new node's
  parent is the cursor; a right child is added only when the left one
  exists; and the new node has no children, since a child would need it in
  the old tree.

Two sequence lemmas support them: `ChildFacts` and `ChildInjective`. They
rest on `SequenceTheorems`.

`WinextsModuleProofs` proves `NoLeak`: `Spec => []ReleasedWhenGone`. It
holds for every kernel configuration, every set of failing calls and every
pointer result (`WinextsAssumption`). `ReleasedWhenGone` only speaks of
the states after `init_mod` has returned. On its own it says nothing about
what a failing step finds held.

- **The strengthening.** The inductive invariant is `TypeOK /\ HeldOK`.
  `HeldOK` bounds what is held at each step by what the calls before it
  create (`Expected`).
- **Lemmas.** `FailIInv` shows that an unwinding path releasing a superset
  of that keeps the invariant. `ContinueIInv` covers a step that goes on.
- **The proof.** `InitStepIInv` has one case per action. `ClassCreate` and
  `DeviceCreate` split on the pointer returned, and `InitHooks` on success
  or failure.

`XKCBalanceProofs` proves `BalanceInvariant`: `Spec => []Balance`, under
the same assumption. `Balance` is not inductive. Adding a node makes the
subtree of every ancestor one larger, and only the path the insert took
keeps the counts in balance. The inductive invariant is
`BInv == IInv /\ IsFiniteSet(DOMAIN tree) /\ Closed /\ Balance /\ CursorBalance`:

- `Closed`: every prefix of a position in the tree is in the tree.
- `CursorBalance`: every ancestor of the insertion cursor sent it left only
  when its two subtrees had equal size, and right only when the left one
  was one larger. Both children of each such ancestor exist.

With these, the node `InsertStep` adds makes each ancestor's chosen side one
larger, and that keeps its counts within one. The proof rests on lemmas
about `InSubtree` and `Size`:

- a child's subtree is the child plus its own subtree (`SubtreeOfChild`);
- sibling subtrees are disjoint (`SubtreesDisjoint`);
- adding a node grows exactly the subtrees that contain it (`SizeAddNode`).

These use `FiniteSetTheorems`. TLC checked `BInv` as an invariant of a
24-letter build before it was proved.

`WinextsModuleProofs` also proves:

- **`TypeCorrect`:** `Spec => []TypeOK`, from the same `TypeOK /\ HeldOK`.
- **`SuccessKeepsCheckedHolds`:** `Spec => []SuccessKeepsChecked`, for
  every pointer result, ERR_PTR and NULL included. A return of 0 means the
  region, cdev and hooks exist, the class exists exactly when `g_cl` is
  valid, and a device node only with a class. The inductive invariant adds
  `Checked` to `TypeOK /\ HeldOK`:
  - `Sure[pc]`: the objects each step surely finds. These are the ones whose
    failure an earlier step sees through a return code.
  - a held class means `g_cl` is valid, and after `class_create` a valid
    `g_cl` means the class is held;
  - a held device node means a held class.

  `InitStepChecked` has one case per action. `ClassCreate` splits on the
  three results.

The refinement `AbstractSpec` and `SuccessMeansDevice` hold only when
`class_create` and `device_create` succeed. The kernel lets them fail, and
then `winexts_class_errptr` breaks both. So they are model-checked in
`winexts_lifecycle` and not proved.

`XKCDepthProofs` proves `DepthMonotoneHolds`: `Spec => []DepthMonotone`,
under the same assumption. A letter inserted later is never shallower than
an earlier one. The argument is that insert always fills a missing position
of least length, and the tree stays level-complete. The inductive invariant
is `DInv`, which adds to `BInv`:

- `Full`: every position shorter than some node is a node.
- `MinMissing(x)`: x is a missing position of least length.
  `SomeMinMissing` says one exists.
- `CursorMin`: while an insert runs, the cursor's subtree holds a
  `MinMissing` position. This is what the `count_nodes()` rule keeps.
- The letter invariants tie nodes to the build loop:
  - `LettersPlaced`, `LettersHeld` and `PendingLetter` say which letters
    hold nodes;
  - `DistinctValues` says no two nodes hold one value;
  - `DepthOrder` is `DepthMonotone` phrased over nodes.

The hard step is `DescendDInv`, the recursive call of insert. It goes left
when the left subtree has no more nodes than the right one, and right
otherwise. `SiblingCount` shows the side it picks still holds a minimal
missing position. Take two siblings a and b, where b's subtree holds a
minimal missing x and a's subtree has every position of x's depth. Then
b's subtree is strictly smaller. `Transplant(a, y)`, which swaps b's
prefix of y for a, maps b's nodes injectively into a's subtree. It misses
`Transplant(a, x)`, a node of a's subtree. `FS_Injection` and
`FS_RemoveElement` turn this into the count. So insert never descends into
a side without a minimal missing position: that side would be the larger
one. Balance is not used. `FillDInv` shows that the node insert
adds is at a minimal missing position, so it is at least as deep as every
earlier node. TLC checked `DInv` as an invariant of a 40-letter build before
it was proved.

`XKCCodecProofs` proves `ResultLayoutHolds`:
`Spec => [](E!EncodeDone => ResultLayout)`. It holds for every width and
input buffer (`CodecAssumption`). `ResultLayout` is the first conjunct of
`BitCountExact`: the returned buffer is the header, the written bits
rounded up to whole bytes, and the four counter bytes. The inductive
invariant is `LInv`:

- `EncodeTyped`: the locals that lengths depend on are sequences and
  integers. The first header byte is `ByteOf(mdb)`, whose value the proof
  does not need (`ResultBytes`).
- `EmitLayout`: while paths are written, `result` holds the header and
  `wbits \div 8` bytes, and `rbits = wbits % 8`. `check_bit` pushes the byte
  exactly when its eighth bit is counted.
- Decode is called only after encode has returned.

There is one lemma per group of actions (`EarlyStepLInv`, `HeaderLInv`,
`PathStepLInv`, `EmitBitLInv`, `FlushLInv`, `DecodeStepLInv`), plus small
lemmas about the alphabet update, the sort's reordering and the counter
bytes. TLC checked `LInv` as an invariant of the `codec_roundtrip`
instance before it was proved, over 332,976 states.

What stays with TLC, and why:

- The codec's `TypeOK`. `mdb \in Nat` needs `BitsNeeded`'s CHOOSE to have a
  witness, that is n < 2^n for every n, which is an induction over Nat. The
  provers cannot instantiate the library's induction theorems. So do
  `PathInfo`'s and `Height`'s CHOOSEs, which need a least or greatest
  element of a finite set of paths.
- `RoundTrip` and `TreesAgree` compare the tree, the alphabet and the bytes
  that both sides compute from the whole input. That is induction over data.
- The two other conjuncts of `BitCountExact` (`dwritten = wbits`,
  `bread = dwritten`). The first needs `FromLE(LEBytes(x, 4)) = x`, an
  induction over the recursive function `FromLE`. The second follows the
  data-dependent decode loop bit by bit against encode's.
- For the codec, liveness is not stated. Every loop of encode and decode is
  bounded by its input, and deadlock checking shows that every behaviour
  reaches the final state.

## 7. Not modelled

- `dot_format`: a debugging string with no effect.
- The uint32 wrap of `written_bits` and `bitset<0>` for 4-byte symbols: both
  need 2^32-sized values. They are listed as hazards.
- The kernel module's `init_hooks`, `clean_hooks` and symbol lookups: their
  bodies are in `main.h`, not in the source tree. They are modelled as calls
  that succeed or fail.
- `ProcessBase`: one assignment.
- PatternScanning and the Asura test: no bodies in the source tree.

# A formal model of ALICE-VCS

ALICE-VCS is a version control library for procedural scenes. A scene is a
tree of nodes; a commit stores a whole tree together with the patch from its
parent; two branches are merged by merging two patches; snapshots that nothing
refers to are collected; patches travel as bytes; and a C interface offers all
of it to C# (Unity) and C++ (Unreal) objects.

This directory holds TLA+ modules translated from that code, configurations
that TLC checks on small instances, and proofs that TLAPS checks for every
value of the constants. Paths below are relative to the repository;
`PROJECT.json` maps each definition to the lines it stands for.

- [The system](#the-system)
- [The modules](#the-modules)
- [The runs](#the-runs)
- [Bounds, and why they are enough](#bounds-and-why-they-are-enough)
- [Fairness](#fairness)
- [The proofs](#the-proofs)
- [Divergences](#divergences)
- [What is not modelled](#what-is-not-modelled)
- [Plan](#plan)

## The system

| Component | State | Operations | What makes it correct |
|---|---|---|---|
| Scene tree, `src/ast.rs` | nodes in a vector, an index from ids to positions, `parent_index`, `next_id` | add, remove a subtree, edit through `get_node_mut`, hash a subtree | child lists and `parent_index` tell one tree, the index finds every node, a node that is lost stays lost |
| Diff, `src/diff.rs` | none | `diff_trees`, `apply_patch` | a patch names live nodes of the old tree, is silent exactly when nothing differs, and brings the old tree as close to the new one as its operations can |
| Merge, `src/merge.rs` | none | `merge_patches` | conflicts are the nodes both sides changed differently; a clean result loses and doubles nothing |
| Resolution, `src/resolve.rs` | none | `resolve_conflict`, `resolve_all`, `resolve_selective`, `resolve_merge` | the resolved tree carries for each node what was picked for it |
| Snapshot store, `src/store.rs` | hash -> tree and parents | `store`, `retrieve`, `parents`, `remove` | storing loses no commit and changes no parents, whatever hashes collide |
| Repository, `src/commit.rs` | commits, branches, the current branch, a store | `commit`, `create_branch`, `checkout`, `merge` | every head resolves to a history that can be walked to its root and that no later operation changes |
| Garbage collection, `src/gc.rs` | the locals of a call | `collect_garbage`, `dry_run` | exactly the snapshots reachable from the roots stay; every call ends |
| Codec, `src/codec.rs` | none | encode and decode of operations and patches | decoding undoes encoding; where a patch ends does not depend on what follows |
| C interface, `src/ffi.rs` | boxes owned by the caller | 20 functions on raw handles | null is refused; a handle is freed once |
| Unity binding, `bindings/unity/AliceVcs.cs` | `_handle` and `_disposed` of each object | methods, `Dispose`, finalizers | an object frees its own native object once, whichever thread disposes of it |
| Unreal binding, `bindings/ue5/AliceVcs.h` | a handle per object | move-only owners | each native object has one owner, and dies with it |

How they interact: `Repository` owns a store and calls diff in `commit`, and
diff, merge, `apply_patch` and then `commit` in `merge`. Diff and merge are
pure functions of trees and patches. The collector is given a mutable store by
whoever owns one (a repository does not lend its own). The bindings call the C
interface, which calls the tree, the diff and the repository.

Where it is hard:

- *Order within a patch.* The operations of a patch name nodes by the ids of
  the old tree and take effect one after another; operations of two patches
  are concatenated. An operation on a node that is gone is skipped in silence.
- *Order nobody chose.* `merge_patches` visits the nodes both patches affect
  in the order of a hash set, which differs between runs.
- *Ids that mean nothing yet.* Any number may be given for a parent or a node;
  the interface does not refuse one that is not there, and ids wrap at 2^32.
- *Ids that mean different things.* After a patch is applied, two copies of
  one scene number their nodes differently and list siblings in another order.
- *Values that are not equal to themselves.* `Float(NaN)` under a derived
  `PartialEq`.
- *A hash that leaves things out.* `subtree_hash` covers kinds and labels in
  preorder, no values and no shape; `store` overwrites on a collision.
- *Graphs that are no trees.* The collector must cope with parents that are
  missing or go in a circle.
- *A second thread.* Finalizers run while the application is in the middle of
  something, and freed addresses are handed out again.
- *Boundaries of varints.*

There is no persistence, no network and no locking in this repository; so
there are no crashes, lost messages or deadlocks to model.

## The modules

`Maps` has the one helper the community modules lack. `MC*` modules hold the
values TLC needs; `MCBindings` also puts three modules into one run. Operators
named "Mutant of ..." are deliberately wrong variants of the definition that
follows; no specification uses them. Each property is known to fail when one
of them is put in.

### AstTree, AstDiff, AstMerge, AstResolve - the algorithms

Operators on values, one per function of the code. A tree is `[node, parent,
next]`: what `get_node` answers, `parent_index` and `next_id`. `DiffTrees` is
`diff_trees`, and `DiffSubtree` one call of `diff_subtree` with its two passes
over the children; `Applied` is the tree at each turn of the loop of
`apply_patch`, and `ApplyPatch` the last of them; `Retain` is `Vec::retain`;
`MergePatches` yields the *set* of results, one for each order the hash set
may be visited in; `ResolveSelective` and `ResolveMerge` are those of
`resolve.rs`. Recursion is written as recursive functions.

`AstTree` and `AstDiff` also hold reference definitions that only properties
use: `Canon`, what a tree says up to the numbering of ids and the order of
siblings with different keys (kind and label); `Carried`, what one diff can
bring over; and `Paired`, the nodes it matches. Each is one step (`CanonNode`,
`CarriedNode`, `PairsBelow`) and the recursive function that repeats it down
the tree, so that a proof can speak of the step alone.

### DiffSync - two copies kept in step

Variables `mine` and `theirs`. `theirs` is edited through the interface of
`AstTree`; `mine` is cloned from it (`Clone`) or takes the patch from itself
to `theirs` (`Pull`). It is this loop that makes ids and orders drift apart,
which a single diff of two trees built in a test never shows.

### AstStorage, SceneTree - the flat storage

`AstStorage` has the fields of `AstTree` as they are: `nodes` (the vector),
`index` (id to position), `parentIndex`, `nextId`. Its callers pass any id, as
the C interface and patches from elsewhere do, and ids are counted modulo
`IdMod`. `RemoveNode` compacts the vector and rebuilds the index; where the
child lists go in a circle its recursion exhausts the stack (`overflown`).
`View` is what the accessors answer.

`SceneTree` is the abstract specification: one variable, the map of `AstTree`,
changed by the operators of `AstTree` and `AstDiff`. `Implements` says that
`AstStorage` with `View` for the tree is a `SceneTree`. This is what entitles
the modules on diff and merge to work on maps. It holds beyond the wrapping of
ids, since both sides take the last node added under an id for the node.

### ThreeWayMerge - two editors

`session` fixes where the editors start, what they write and how much. `base`,
`copy["ours"]` and `copy["theirs"]` are the trees. Both editors edit, then
`Merge` (a clean result) or `Resolve` (one strategy for all conflicts) gives
the base of the next round. Its reference definitions never look at patches:
`Changes` tells what an editor did to each node of the base, `Clashes` which
nodes both changed differently, `Taken` the change that counts at a node, and
`MergedBy` the tree in which each node has the change that counts
(`MergedNode` is its step).

### Repository - commits, branches, merge

`snapshots`, `commits`, `branches`, `current`, as in `Repository` with its
store. `CommitTree` is the body of `commit`, which `merge` calls as its last
step; `MergeFinds` collects the early returns of `merge`. Trees, the hash, the
diff and the merge are CONSTANTS, so what is proved does not depend on them,
but where a theorem names an assumption on them.
`MCRepository` gives them the definitions of `AstMerge`, and the hash of
`SymbolicHash` (`SymbolicTreeHash`, `SymbolicMix`): a hash is a set of atoms,
xor is the symmetric difference, and multiplication by the odd prime is
injective and keeps zero, the empty set. Thus the only collisions are those
the construction of the hash forces: equal kinds and labels in preorder, and
xor of a value with itself. The theorems on the history are about the same
hash.

`Named` is the part of the history that somebody can still name: the commits
of the branch heads and what they descend from. `OnlyResetLoses` says that
only one call makes it smaller, `create_branch` with the name of a branch that
exists.

### GarbageCollect - mark and sweep

One action per turn of a loop: `Visit` (a root or a parent), `Pop` (from the
queue, which is used as a stack), `Sweep` (a hash), and the ends of the loops.
Between calls the application stores and removes snapshots with any parents.
Trees are left out: a snapshot is its parents. `Live` is the reference
definition, the least set closed under parents.

`Collector` is the abstract specification, what the owner of the store sees.
Its state is the store and the call that runs: which function, on which roots,
and with which answer. The owner stores and removes snapshots only between
calls. A call (`Call`) fixes the roots; `CollectGarbage` takes away, in one
step, what cannot be reached from them and nothing else, and gives the figures
of the store it was called on; `DryRun` gives the same figures and changes no
store; `Return` ends the call. The refinement maps the store to `StoreSeen`,
which is the old store until the sweep is over, and the call to `CallSeen`. So
every turn of the mark and of the sweep is a stutter, and the end of the sweep
is `CollectGarbage`: it fails if the sweep took one snapshot too many or too
few, and so does a removal at any other time.

### Codec - binary patches

Encoding and decoding of operations over bytes, with the widths as parameters:
`Base` for the 128 of a seven-bit group, `IdMod` for 2^32, `Groups` for the
five bytes of a varint. The state is the data given to `decode_patch`: the
encoding of a patch that grows (`AddOp`), or bytes from elsewhere (`AddByte`).
An operation is a tag and a list of fields; `IsOp` says what the types of
`DiffOp` let the fields be, with texts and lists of bytes below 2^32 bytes:
`encode_usize` would write the length of a longer one wrong.

### CInterface, UnityHandles, UnrealHandles, SceneCalls - the C interface

`CInterface` names the objects and addresses both bindings have. In
`UnityHandles`: the native heap, the C# objects and two threads: the
application calls, disposes of and lets go of objects; the runtime finalizes
what the application cannot reach. `Dispose` is split into its statements
(`Check`, `Destroy`, `Clear`, `SuppressFinalize`). A native call has a
beginning (`Enter`) and an end (`Leave`), and the finalizer may run between
them. Addresses are reused.

`UnrealHandles` has one thread and no finalizer. Its objects are constructed,
destroyed at the end of a scope, and moved: `MoveConstruct` and `MoveAssign`
leave a null handle behind, and an object may be assigned to itself. The two
classes are kept apart, as the compiler does.

`SceneCalls` is the part of `src/ffi.rs` that works on a tree, called by a
program that gives back what it was answered: the id one call answers is the
parent or the node of a later call. A handle is the tree it points to, or
`Null`. A call that fails answers an id as well (`NoId`, which is
`u32::MAX`), and a program that does not look may use it as a parent: the call
with it succeeds. `answers` holds the ids answered so far and whether a
failure is behind them (`sound`).

`MCBindings` checks the three modules in one run: a program uses one binding
or the other, or calls the interface itself.

## The runs

| Run | Expect | What it shows |
|---|---|---|
| `diff` | pass | `TypeOK`; a patch is empty exactly when the trees say the same, NaN apart (`SilentIffSame`); applying it gives `Carried` (`PullCarries`); no operation hits a node that is not there (`OpsHitLiveNodes`); what a patch says of one node is coherent, which `merge_patches` relies on (`CoherentOnTarget`); repeated pulls make the copies equal (`PullConverges`) |
| `diff_roundtrip` | violation | one pull is not enough |
| `storage` | pass | `TypeOK`; the vector and its indexes implement the map (`Implements`) and the index is exact (`IndexIsExact`) for any ids; child lists and `parent_index` come apart only through a `Move` or a reused id (`ListsStayAgreed`); a node the root does not reach is never reached again, unless moved (`OrphansStay`); recursion ends unless a node is put below itself (`OnlySelfCloses`) |
| `storage_moves` | violation | after a `Move`, `parent_of` is wrong |
| `merge` | pass | conflicts are clashes (`ConflictsAreClashes`), clean merges are three-way merges (`CleanMergeIsThreeWay`), resolved ones are what was picked (`ResolutionIsPicked`), swapping the editors changes nothing (`MergeCommutes`) |
| `merge_lost` | violation | a clean merge drops an edit inside a removed subtree |
| `repo` | pass | `Resolvable`, `MergeFailsOnlyAtRoot`, `HistoryIsRooted`, `MergeHashIsDeterministic`, and of steps `HeadsMoveForward`, `HistoryIsStable`, `OnlyResetLoses` |
| `repo_immutable` | violation | a commit replaces the tree of another |
| `repo_base` | violation | the base of a merge is not a common ancestor |
| `gc` | pass | the loop invariants `GcInv`; `MarkIsExact`, `SweepIsExact`, `ResultIsExact`; a call is a call of `Collector` (`Implements`): a collection is one step on the roots of that call, a dry run changes nothing; calls end (`CallsReturn`) |
| `codec` | pass | `RoundTrip`; cut data is refused, longer data read alike (`SelfDelimiting`); `AcceptedIsWritable` |
| `bindings` | pass | Unity: `FreedByOwner`, `NothingLeaks`, `HeldCallsAreValid`; Unreal: `OneOwner`, `BoxesDieWithOwners`; C: nodes put below the answer of a failed call show in no hash and no diff (`FailuresLeaveNoTrace`), and an id names one node for good (`IdsKeepMeaning`) |

`CleanMergeIsThreeWay` and `CleanMergeKeepsEdits` do not contradict each
other: the first says what the code does with an edit inside a subtree the
other editor removed (the subtree is gone, and there is no conflict), and
holds; the second is the promise of the repository's README, and fails.

Deadlock is checked in `gc` only. In the other runs the bounds stop every
behaviour (no more edits, commits or operations), or there is nothing that
must go on.

## Bounds, and why they are enough

- `diff` (`MaxEdits = 3`, two kinds, two labels, an ordinary value and a NaN).
  Three edits give chains of three levels, three siblings, two of one key
  beside a third, a subtree removed and rebuilt; pulls and clones between them
  come free. Matching looks at two lists of children at a time and ranks them
  by key; three siblings and two keys have all its cases: matched out of
  position, one too many on either side, none. Kinds and labels are symmetric:
  only `==` is used on them, and the root has names of its own.
- `storage` (`IdMod = 4`, `MaxCalls = 6`, `MaxMoves = 1`, one kind, label and
  value). The fourth addition takes the id of the root; six calls leave room
  to remove and to move in between, so that ids are reused while in use, while
  free, and while orphans still name them as parents. A second kind, label or
  value would only be copied about. `storage_moves` has ids enough to not
  wrap.
- `merge`: two sessions. `Wide` has two edits, two labels and a NaN, `Deep`
  three edits on one label. The trees the editors start from have two nodes:
  one below another, or two siblings with different keys or the same. Two
  edits are one of each editor on every pair of nodes; three let one operation
  list be a proper prefix of the other, and let a second round start from a
  merged tree.
- `repo` (`MaxCommits = 5`, two branches, five trees). Four commits after the
  initial one make two branches of two commits each, so that merges, branch
  resets and collisions in the middle of a history happen. The trees are the
  empty one, two that differ in a value only, and two of different shapes that
  share a prefix. A colliding commit takes no new hash, so the bound does not
  limit the number of collisions.
- `gc` (three hashes, up to two parents, one root). Two parents give every
  graph on three nodes up to the third parent, with repetitions, and circles
  of all three. Roots are visited by the same loop as parents, so several or
  repeated roots meet the same code; the theorems cover any number of all.
- `codec` (`Base = 4`, `IdMod = 32`, `Groups = 3`, `FixedLen = 2`). The
  proportions are those of the code: the last group has a bit more than a
  value needs (5 bits in 3 groups of 2; 32 in 5 groups of 7), a length may
  take two groups, indices exceed the width. Sampled operations lie on both
  sides of each boundary; five arbitrary bytes hold overlong varints and
  complete operations of every kind but those with long payloads, and complete
  patches with bytes behind them. The last byte value, 7, is the one that no
  text holds.
- `bindings` (two trees, a repository, two addresses). Two addresses for three
  objects force reuse; a call takes at most two objects, a move two of a
  class. In `SceneCalls` (`MaxNodes = 4`, two labels, a NaN) four added nodes
  make a chain below a failed answer with sound nodes beside it, and removals
  with additions after them; the second label tells a node from one that took
  its id, and NaN is the value that shows in any diff that finds it. `MaxId`
  is out of reach of the ids: what happens when they wrap is the subject of
  `storage`.

## Fairness

Only `GarbageCollect` has any: `WF_vars(GcStep)`, because a call is a loop of
the thread that made it and nothing in it waits. Other modules have no
liveness property; the code has nothing there that must happen by itself.
(`PullConverges` is a variant: each step that pulls gets closer. It needs no
fairness.) That finalizers run is not guaranteed by the runtime, so
`NothingLeaks` says only that each object can still be disposed of.

## The proofs

`RepositoryProofs` - for any trees, diff, merge, names and bounds. The first
three hold for any hash. The next four are on the history and have the
hypothesis `HashIsSymbolic`: `TreeHash` and `Mix` are the operators of
`SymbolicHash`. These are the definitions `Repository.cfg` gives them, so
theorem and run are about one hash. The last two have a hypothesis on the diff
and the merge instead.

- `RepositoryResolves`: `Spec => []Resolvable`. `Resolvable` is inductive as
  it stands. Lemma `CommitEffect` says what a commit does when the repository
  resolves: the branch in question exists, so that the new hash is its head,
  and its parent is the old head, which has a commit. `create_branch` copies a
  resolved head, `checkout` asks for the branch first, and `merge` commits.
- `MergeFailsOnlyAtRootHolds`: follows from `Resolvable`.
- `HeadsMoveForwardHolds`: `Spec => HeadsMoveForward`, an action property,
  from `Resolvable` and the effect of each action. It holds whatever collides.
- `CollisionsKeepText`: a commit that collides with a stored one replaces its
  tree by one with the same kinds and labels in preorder, on the same parents.
  With the violation `repo_immutable` this bounds what a collision may cost:
  values, and where child lists end. The hash does not tell commits apart in
  general: `t` on `p` collides with `u` on `p` xor the hashes of `t` and `u`.
  But that is no parent a store can have. By the invariant `EntriesMatchHash`
  a stored hash is the one of the initial commit, zero, or a product of the
  odd prime, and for such parents a hash tells the parent it was made from
  (lemma `MixTellsParent`).
- `HistoryIsStableHolds`: no commit goes and none changes its parents.
- `HistoryIsRootedHolds`: history has one root and no circle. A commit whose
  hash is new is no parent of anything yet; one whose hash is known has the
  parents the hash had (`ParentsKept`). So a set of commits in which each has
  a parent would be one already before the step (lemma `RootedStep`). The
  empty tree committed with hash zero is covered.
- `OnlyResetLosesHolds`: a commit that a head leads to is led to by a head
  after every step but `create_branch` with a name in use. A set that has the
  new heads and is closed under parents has the old heads, since a commit
  points to the head it replaces (`HeadsStayNamed`), and with them all they
  descend from (`NamedMeet`).
- `SnapshotsAreTreesHolds` and `MergeHashIsDeterministicHolds`, under the
  hypothesis `AstEngine`: the diff, the merge and `Apply` are those of
  `AstMerge`, a repository starts with `NewTree`, what is given to `commit`
  are trees, and the hash of a tree depends on nothing but what `subtree_hash`
  feeds to it. `SymbolicTreeHash` and the other values `MCRepository` gives
  the parameters are of that kind by their definitions; of collisions nothing
  is assumed. Two results that `merge` may find agree on every node of the
  base (`MergesAgree`, below), so they give trees that say the same and are
  fed to the hash as the same text. The order of the hash set thus shows in
  the ids that added nodes get, and nowhere in the hash of the commit.

`GarbageCollectProofs` - for any set of hashes and any bounds:

- `TypeCorrect`: `Spec => []TypeOK`.
- `MarkIsExactHolds` and `SweepIsExactHolds`. `MarkIsExact` is not inductive:
  that mark misses nothing follows only at the end, when nothing is pending or
  queued. The strengthening is `GcInv`: what is marked or pending lies in
  every closed set (`MarkIsSound`), and every parent of a marked snapshot that
  has left the queue is marked or pending (`MarkIsComplete`). When both
  worklists are empty, the marked set is itself closed, hence the least closed
  set (lemma `MarkedIsLive`). In the sweep, the store is what is reachable and
  what is still to be looked at. Lemmas `HeadTailSet`, `AppendSet` and
  `FrontLastSet` tell how elements of a sequence move when it is used as a
  queue or stack.
- `ResultIsExactHolds`, through `CountInv`: the store is finite, and during
  the sweep `collected` is the number of hashes looked at and not reachable.
  The arithmetic comes from the library's theorems on cardinality.
- `ImplementsHolds`: `Spec => Implements`, from `GcInv`, `CountInv` and the
  fact that the store is a map from hashes to sequences (`StoreIsMap`). The
  turns of mark and sweep are stutters; the end of the sweep is
  `CollectGarbage` and the count of a dry run is `DryRun`, because what is
  marked is what can be reached from the roots of the call (`MarkedIsLive`,
  `LiveIsReachable`) and the figures are those of the store at the call
  (`AnswerIsExact`).

`BindingsProofs`, first part (`UnityHandles`) - for any objects and addresses:

- `FreedByOwnerHolds`, `NothingLeaksHolds`, `HeldCallsAreValidHolds`. None of
  the three is inductive. The strengthening `HandleInv` says how the pieces of
  state hang together between the statements of `Dispose`: the two threads
  never dispose of one object at a time (`Exclusive`; the finalizer only takes
  what the application cannot reach); each native object is the handle of its
  owner (`Owned`); a handle that is not null is good unless its owner is
  between `Destroy` and `Clear` (`Handles`, `Stages`); and the arguments of a
  native call are the handles its objects still have (`Calls`).

`BindingsProofs`, second part (`UnrealHandles`) - for any objects and
addresses:

- `OneOwnerHolds`, from the invariant `OwnerInv`, which says the same owner by
  owner: handles are live, of their class and different from each other, and
  every box is somebody's handle.
- `BoxesDieWithOwnersHolds`: of the actions only `Destruct` and `MoveAssign`
  free a box, and the latter only between two objects. `Taken` is written as a
  function, not as an EXCEPT with two updates: the prover reads such updates
  as simultaneous, which is wrong where an object is assigned to itself.

`AstProofs`, first part - lemmas about the operators on trees, which
`AstStorageProofs`, `DiffSyncProofs` and `ThreeWayMergeProofs` rest on:

- Induction. The library's induction theorem takes an operator for the
  property, which the provers here cannot instantiate. `SetInduction` takes
  the set of numbers that have the property instead, and is itself proved from
  the existence of a least counterexample. With it follow that a function can
  be iterated (`IterationExists`), so that the recursive function in
  `CollectSubtree` has the value its equation says, and `RetainProperties`:
  what `Vec::retain` leaves is what it should, in order, for any list.
- `CollectSubtreeLeast`, `CollectSubtreeClosed`: what `collect_subtree` finds
  is the least set with its first id that is closed under child lists. This
  needs that as many rounds as there are nodes are enough, and replaces, in
  all that follows, the recursion by a property of a set.
- `KidsOfAdd`, `KidsOfDetach`, `KidsOfRemove`, `KidsOfSet`, `KidsOfMove`: what
  each operation does to the child lists of any tree, well formed or not.

`AstStorageProofs` - for any kinds, labels, values and number of ids:

- `StorageTypeOK` and `StorageIndexIsExact`. The two are inductive only
  together (`StorageInv`). While the index is exact, a lookup of an id is its
  last node in the vector, and each of the writes of the code (`push`, the
  write through `get_node_mut`, `retain` with the rebuilt index) changes what
  the lookups answer in one place (lemmas `LookOfAppended`, `LookOfChanged`,
  `LookOfRetained`).
- `StorageImplements`: `Spec => Implements`, step by step. Each action's lemma
  (`AddNodeStep`, `RemoveNodeStep`, ...) ends in an equation between `View'`
  and an operator of `AstTree` on `View`. Ids that are not there, that are in
  use and that wrap are covered; so is the removal that exhausts the stack,
  which removes nothing.
- `StorageListsStayAgreed`, `StorageOrphansStay`, `StorageOnlySelfCloses`:
  action properties, proved on the map by the `KidsOf` lemmas and carried over
  by the equations for `View'`. For the second, the nodes reached before and
  the new one form a closed set of the new tree; for the third, a set that
  would show a circle after the step shows one before it.

`AstProofs`, second part, and `DiffSyncProofs` - for any kinds, labels and
values, NaN included, any trees, and any number of edits:

- `SyncTypeOK`, `SyncOpsHitLiveNodes`, `SyncCoherentOnTarget`, from the
  invariant `SyncInv`: both copies are trees (`IsTree`) in which every
  recorded parent is live (`Rooted`). That the root reaches every node, which
  `TypeOK` says, is not inductive in that form; it follows from `Rooted` by a
  walk up to the root (`RootedReaches`). `IsTree` says that a parent's id is
  below its child's; with it the recursion of `diff_subtree` ends
  (`DiffExists`), by induction on how far an id is below `next_id`.
- What that recursion computes is a patch (`DiffTreesIsPatch`): every
  operation names a node of the old tree, and of two of them neither removes
  the node of the other, and only insertions are made twice on one node
  (`Fits`). The proof goes over the parts of one call in their order: the
  operations of the pair itself, those of the matched children, the deletions,
  the insertions. Operations on different children fit because sibling
  subtrees have no node in common (`SiblingsApart`), and deletions fit because
  two matches never share a child (`AtMostOne`).
- A patch applies (`PatchApplies`): `Follows` relates the tree after the first
  n operations to the tree the patch was made for. What is live in the latter
  and not below a node deleted so far is still live, and what has been added
  has a new id; so the next operation finds its node.
- `PullCarriesHolds`, `SilentIffSameHolds` and `PullConvergesHolds` compare
  trees up to numbering and order, and rest on the third part of `AstProofs`.
  `SilentIffSame` needs one more conjunct of `SyncInv`: the roots have one
  kind, which `diff_trees` does not look at; no edit and no operation of a
  patch changes a kind. `PullConverges` follows from pairs that are kept
  (`PairsStay`) and a node left over that is inserted and paired the next time
  (`PairsGrow`).

`AstProofs`, third part - what patches mean, on which the theorems about
merges and pulls rest:

- What a patch does, node by node. `Effect` says of every node of the tree a
  patch is applied to what becomes of it: its label and value are those of the
  last operation on it that gives one, its children are those that are not
  deleted and then the inserted ones. `PatchEffect` proves this for any patch
  of operations that keep the tree one, in any order, merged patches with
  operations on nodes that are gone included. So the order of operations on
  different nodes is of no account (`EffectsAlike`).
- Recursion over trees. `CanonUnfold` and `HashUnfold` are the equations of
  `Canon` and of what `subtree_hash` feeds, by induction on ids, since a
  child's is above its parent's. Trees that look the same node by node agree
  in both (`AlikeSaysTheSame`).
- The matching. The code goes through the old children and gives each the
  first free new child of its key; so the k-th of a key meets the k-th
  (`SiblingsPair`), and the pairs of a diff are one to one and closed under
  parents (`PairedIsPairSet`).
- What a diff says (`DiffSays`): of a node with a partner what changed in it
  and what is new below it, of a child without one that it goes, of what is
  below such a child nothing. With `PatchEffect` this gives `PatchCarries`,
  and for trees with one canonical form and for empty patches `DiffOfAlike`
  and `SilenceMeansAlike`.
- `merge_patches`. What a result keeps of each node is a function of the two
  patches (`MergeKeeps`: `MergedOn`), and it is clean when no node is
  contested, in whatever order the common nodes are visited; hence
  `MergesAgree`.

`ThreeWayMergeProofs` - for any sessions:

- `MergeTypeOK`, from the invariant `MergeInv`. A merged patch is no patch in
  the sense above: the removal of one editor may come before the insertion of
  the other below what is removed, and orphans remain. What is left is that
  its operations come from the two patches (`MergeMakesResults`,
  `ResolvedPatch`), so that each is no `Move`, removes no root and names only
  ids below `next_id` of the base. Operations of that kind keep a tree one
  (`SafeOpsKeepTree`).
- `MergeCommutesHolds`: what a merge keeps of a node (`MergedOn`) does not
  depend on which patch comes first. Where only one affects the node, nothing
  is put before or behind its operations; where both do, the lists agree or
  are dropped.
- `ConflictsAreClashesHolds`. The reference definitions know trees, the code
  knows operations. `Does` relates them at one node: operations do to it what
  a change tells, and nothing that the change does not tell. The patch of an
  editor does to each node what the editor did to it (`SideDoes`), so that
  lists of operations are equal exactly where changes are
  (`ContestedAreClashes`); a value that is not equal to itself makes the lists
  differ and counts as changed.
- `CleanMergeIsThreeWayHolds` and `ResolutionIsPickedHolds`, by `PatchMerges`:
  a patch that does to every node the change that is taken there (`DoesAll`)
  makes, of the base, the tree `MergedBy` tells; what the root does not reach
  shows in neither. For a clean merge this is `UncontestedDone`. For a
  resolved one the picked operations are put behind the merged ones; they are
  on the contested nodes, of which the merged patch says nothing, and
  `SettledSorted` finds them whatever the order of conflicts.

`CodecProofs` - for any operations, any number of them and any widths:

- The recursive functions of the codec (the groups of a varint, the turns of
  the loops over fields and operations) have the values their equations say
  (`EncodeVarintSteps`, `DecodeVarintSteps`, `FieldsLoop`, `OpsLoop`), by the
  same `SetInduction`. Each reader is then restated as a condition on the
  answers of the readers it calls (`Readers`, `ValueReader`, `OpReader`).
- `RoundTripHolds`, from the invariant `CodecInv` (the data are bytes, and
  those of the patch when they were written). `At` says that the data go on
  with certain bytes after a position. `VarintReads` is the heart: by
  induction on the groups that are left, a number below their capacity is read
  back wherever its groups stand, so that five groups are enough for a u32
  exactly because `IdMod <= Capacity[Groups]`. Texts, values, fields,
  operations and the patch follow, each as its parts in their places
  (`AtConcat`, `AtParts`).
- `SelfDelimitingHolds`. `Local` relates what a reader says of some bytes to
  what it says of a beginning of them: it ends within the bytes, and the
  answers are the same if it ended within the beginning, while otherwise the
  beginning is refused. It is proved reader by reader, and passed on by one
  reader after another (`ChainLocal`) and by a loop of readers (`LoopLocal`).
- `AcceptedIsWritableHolds`. What a varint is read as fits in the groups that
  were read (`VarintTurns`), and is written in no more (`EncodeVarintFits`),
  also after the bits beyond the width are lost; so whatever is read meets
  `IsOp` and is written in no more bytes (`VarintWritable` to `OpsWritable`).
  That it is read again is then `PatchReads`, the lemma of `RoundTripHolds`.

Assumptions on constants: `MainAssumption`, `BoundsAssumption`,
`WidthAssumption`, `NaNsAssumption`, `NullAssumption`, `IdModAssumption`,
`MaxEditsAssumption`, `MaxNodesAssumption`, `SessionsAssumption` (the trees
the editors start from are trees), `OpsAssumption` (operations are what
`DiffOp` allows, and fewer than 2^32); TLC evaluates each. No theorem on diff,
merge or storage assumes that a set of kinds, labels or values is finite.

Only model-checked: `CallsReturn`, which is liveness; and the two properties
of `SceneCalls`.

## Divergences

Found while modelling; each has a run that shows it.

1. `diff_roundtrip`: `src/diff.rs:65` promises operations that transform the
   old tree into the new one; an inserted node arrives without its
   descendants.
2. `storage_moves`: applying a `Move` does not update `parent_index`
   (`src/diff.rs:203`), on which `parent_of` (`src/ast.rs:226`), the next
   `Move` and `remove_subtree` rely. `diff_trees` emits no `Move`.
3. `merge_lost`: `README.md:24` promises manual merge on conflicts; an edit
   inside a subtree the other side removed is dropped from a clean merge.
4. `repo_immutable`: `src/commit.rs:4` says commits are immutable; one that
   differs in values only has the hash of its sibling and replaces it.
5. `repo_base`: `src/merge.rs:3` speaks of a common ancestor; `merge` takes
   the first parent of the current head.

Also seen, without a run of their own:

- An empty tree committed to a fresh repository has the hash 0 (xor of the
  hash of the empty tree with itself, times the prime; `src/store.rs:53`),
  which means no head and failure elsewhere (`src/ffi.rs:564` asserts that a
  commit's hash is not 0).
- `merge` gives `None` at the initial commit too; `README.md:220` reads `None`
  as an unknown branch.
- After a commit was replaced, the `patch` of its children
  (`src/commit.rs:29`, "from parent") starts from a tree that is gone.
- A node whose value is NaN is in conflict in every merge, though neither side
  touched it (`src/merge.rs:4`). `ConflictsAreClashes` counts it as changed by
  both.
- The sizes of `serialized_size` (`src/ast.rs:81`, "Size in bytes when
  serialized") and `patch_size_bytes` (`src/diff.rs:223`, "Total patch size in
  bytes", `patch_bytes` at the C interface) are not those of the codec: a text
  is charged three bytes of overhead where the codec writes two, and the old
  value and label of an update or relabelling are written and not counted.
- A C# object may be finalized while its last native call runs: nothing in the
  methods keeps it alive past the reading of `_handle`, while `src/ffi.rs:69`
  asks for a valid handle. `HeldCallsAreValid` is therefore about objects the
  application keeps until the call returns.

## What is not modelled

- Messages and authors of commits, `log` and other accessors: they change
  nothing.
- `serialized_size`, `patch_size_bytes`: sums of string lengths.
- UTF-8, floating point and FNV-1a bit by bit: the first is a byte value no
  text has, the second an opaque payload with or without reflexive equality,
  the third symbolic.
- At the C interface: the allocation of strings and `string_free`, the
  version, and the functions on a repository, which test for null, convert
  and call `commit.rs`; of them only the lifetime of the handles is modelled.
  `lib.rs`, which only re-exports.
- P2P sync, ALICE-DB and ALICE-Auth, which `README.md` names: there is no code
  of them here.

## Plan

Done: every component with state of its own, two refinements (`AstStorage`
implements `SceneTree`, `GarbageCollect` implements `Collector`), and a proof
of every safety property the passing runs check, those of `SceneCalls` apart.
A collector over the store of a `Repository`, once planned, is not modelled:
`Repository` keeps its store private and never lends it. What is left:

1. Proofs of the two properties of `SceneCalls`; the lemmas of `AstProofs` on
   child lists and on the diff are what they need.
2. The cursor of `decode_op` after a failure (`src/codec.rs:248`).
3. A violation run for the hash 0 of the empty tree, in place of one whose
   answer is known for good.

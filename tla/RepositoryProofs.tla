-------------------------- MODULE RepositoryProofs -------------------------
(***************************************************************************)
(* Theorems about the repository, for every set of trees, diff and merge.  *)
(* The first ones hold for every hash function; those on the history are   *)
(* for the hash of SymbolicHash, which the runs have too (HashIsSymbolic); *)
(* the last two are about the diff and the merge of the code (AstEngine).  *)
(***************************************************************************)
EXTENDS Repository, AstProofs, SymbolicHash

----------------------------------------------------------------------------
(* Facts about the steps.                                                  *)

(* A merge is a commit of some tree.                                       *)
LEMMA MergeCommits ==
    ASSUME NEW other, Merge(other)
    PROVE  \E tree : CommitTree(tree)
BY DEF Merge

(* Every step is a commit of some tree, the creation of a branch, a        *)
(* checkout, or changes nothing.                                           *)
LEMMA StepKinds ==
    ASSUME [Next]_vars
    PROVE  \/ \E tree : CommitTree(tree)
           \/ \E name \in BranchNames : CreateBranch(name)
           \/ \E name \in BranchNames : Checkout(name)
           \/ UNCHANGED vars
<1>1. CASE \E tree \in InputTrees : Commit(tree)
  BY <1>1 DEF Commit
<1>2. CASE \E name \in BranchNames : Merge(name)
  BY <1>2, MergeCommits
<1>3. QED
  BY <1>1, <1>2 DEF Next

(* What a commit does to a repository that resolves.                       *)
LEMMA CommitEffect ==
    ASSUME Resolvable, NEW tree, CommitTree(tree)
    PROVE  LET head == branches[current]
               hash == CommitHash(tree, <<head>>)
           IN /\ current \in DOMAIN branches
              /\ head \in DOMAIN commits
              /\ snapshots' = Put(snapshots, hash,
                                  [tree |-> tree, parents |-> <<head>>])
              /\ \E patch : commits' = Put(commits, hash,
                                  [parents |-> <<head>>, patch |-> patch])
              /\ branches' = [branches EXCEPT ![current] = hash]
              /\ current' = current
BY DEF Resolvable, BranchesResolve, CommitTree, Store, HeadHash

----------------------------------------------------------------------------
(* The repository always resolves: head_hash never falls back to 0,        *)
(* head_tree is never None, and every parent of a commit is there.         *)
THEOREM RepositoryResolves == Spec => []Resolvable
<1>1. Init => Resolvable
  BY MainAssumption
     DEF Init, Resolvable, BranchesResolve, CommitsResolve
<1>2. Resolvable /\ [Next]_vars => Resolvable'
  <2> SUFFICES ASSUME Resolvable, [Next]_vars PROVE Resolvable'
    OBVIOUS
  <2>1. CASE \E tree : CommitTree(tree)
    <3>1. PICK tree : CommitTree(tree)
      BY <2>1
    <3> DEFINE head == branches[current]
               hash == CommitHash(tree, <<head>>)
    <3>2. /\ current \in DOMAIN branches
          /\ head \in DOMAIN commits
          /\ snapshots' = Put(snapshots, hash,
                              [tree |-> tree, parents |-> <<head>>])
          /\ branches' = [branches EXCEPT ![current] = hash]
          /\ current' = current
      BY <3>1, CommitEffect
    <3>3. PICK patch : commits' = Put(commits, hash,
                                      [parents |-> <<head>>, patch |-> patch])
      BY <3>1, CommitEffect
    <3> HIDE DEF hash
    <3>4. BranchesResolve'
      BY <3>2, <3>3 DEF Resolvable, BranchesResolve, Put
    <3>5. CommitsResolve'
      BY <3>2, <3>3 DEF Resolvable, CommitsResolve, Put
    <3>6. QED
      BY <3>4, <3>5 DEF Resolvable
  <2>2. CASE \E name \in BranchNames : CreateBranch(name)
    BY <2>2 DEF CreateBranch, HeadHash, Put,
                Resolvable, BranchesResolve, CommitsResolve
  <2>3. CASE \E name \in BranchNames : Checkout(name)
    BY <2>3 DEF Checkout, Resolvable, BranchesResolve, CommitsResolve
  <2>4. CASE UNCHANGED vars
    BY <2>4 DEF vars, Resolvable, BranchesResolve, CommitsResolve
  <2>5. QED
    BY <2>1, <2>2, <2>3, <2>4, StepKinds
<1>3. QED
  BY <1>1, <1>2, PTL DEF Spec

(* merge answers None only for a branch that does not exist or at the      *)
(* initial commit: the lookups of the other trees cannot fail.             *)
THEOREM MergeFailsOnlyAtRootHolds == Spec => []MergeFailsOnlyAtRoot
<1>1. Resolvable => MergeFailsOnlyAtRoot
  BY DEF Resolvable, BranchesResolve, CommitsResolve, MergeFailsOnlyAtRoot,
         MergeFinds, MergeBase, HeadHash
<1>2. QED
  BY <1>1, RepositoryResolves, PTL

(* Branch heads move by a commit on top of them while checked out, or by   *)
(* create_branch to the current head, and in no other way.                 *)
THEOREM HeadsMoveForwardHolds == Spec => HeadsMoveForward
<1> DEFINE Forward(b) ==
      /\ b \in DOMAIN branches'
      /\ branches'[b] # branches[b] =>
            \/ /\ b = current
               /\ commits'[branches'[b]].parents = <<branches[b]>>
            \/ branches'[b] = branches[current]
<1>1. ASSUME Resolvable, [Next]_vars, NEW b \in DOMAIN branches
      PROVE  Forward(b)
  <2>1. CASE \E tree : CommitTree(tree)
    <3>1. PICK tree : CommitTree(tree)
      BY <2>1
    <3> DEFINE head == branches[current]
               hash == CommitHash(tree, <<head>>)
    <3>2. /\ current \in DOMAIN branches
          /\ branches' = [branches EXCEPT ![current] = hash]
      BY <1>1, <3>1, CommitEffect
    <3>3. PICK patch : commits' = Put(commits, hash,
                                      [parents |-> <<head>>, patch |-> patch])
      BY <1>1, <3>1, CommitEffect
    <3> HIDE DEF hash
    <3>4. commits'[hash].parents = <<head>>
      BY <3>3 DEF Put
    <3>5. QED
      BY <3>2, <3>4
  <2>2. CASE \E name \in BranchNames : CreateBranch(name)
    BY <1>1, <2>2 DEF CreateBranch, HeadHash, Put, Resolvable, BranchesResolve
  <2>3. CASE \E name \in BranchNames : Checkout(name)
    BY <2>3 DEF Checkout
  <2>4. CASE UNCHANGED vars
    BY <2>4 DEF vars
  <2>5. QED
    BY <1>1, <2>1, <2>2, <2>3, <2>4, StepKinds
<1>2. Resolvable /\ [Next]_vars => [\A b \in DOMAIN branches : Forward(b)]_vars
  BY <1>1
<1>3. QED
  BY <1>2, RepositoryResolves, PTL DEF Spec, HeadsMoveForward

----------------------------------------------------------------------------
(* Where hashes come from.                                                 *)

(* A commit without parents is stored under the hash of its tree.          *)
LEMMA HashWithoutParents ==
    ASSUME NEW tree
    PROVE  CommitHash(tree, << >>) = TreeHash(tree)
<1> DEFINE folds(g) == [s \in SUBSET DOMAIN << >> |->
              IF s = {} THEN TreeHash(tree)
              ELSE LET i == Max(s) IN Mix(g[s \ {i}], << >>[i])]
<1>1. DOMAIN << >> = {}
  OBVIOUS
<1>2. [s \in {{}} |-> TreeHash(tree)] = folds([s \in {{}} |-> TreeHash(tree)])
  BY <1>1
<1>3. CommitHash(tree, << >>) = (CHOOSE g : g = folds(g))[{}]
  BY <1>1 DEF CommitHash, FoldLeft, MapThenFoldSet
<1> QED
  BY <1>1, <1>2, <1>3

(* A commit with one parent is stored under the hash of its tree with the  *)
(* parent mixed in.                                                        *)
LEMMA HashWithParent ==
    ASSUME NEW tree, NEW p
    PROVE  CommitHash(tree, <<p>>) = Mix(TreeHash(tree), p)
<1> DEFINE folds(g) == [s \in SUBSET DOMAIN <<p>> |->
              IF s = {} THEN TreeHash(tree)
              ELSE LET i == Max(s) IN Mix(g[s \ {i}], <<p>>[i])]
           f == [s \in SUBSET {1} |->
                    IF s = {} THEN TreeHash(tree) ELSE Mix(TreeHash(tree), p)]
           c == CHOOSE g : g = folds(g)
<1>1. DOMAIN <<p>> = {1} /\ <<p>>[1] = p
  OBVIOUS
<1>2. Max({1}) = 1
  BY DEF Max
<1>3. f = folds(f)
  <2>1. f[{}] = TreeHash(tree) /\ {1} \ {1} = {} /\ {1} # {}
    OBVIOUS
  <2>2. \A s \in SUBSET {1} : s = {} \/ s = {1}
    OBVIOUS
  <2>3. \A s \in SUBSET {1} :
           f[s] = IF s = {} THEN TreeHash(tree)
                  ELSE LET i == Max(s) IN Mix(f[s \ {i}], <<p>>[i])
    BY <1>1, <1>2, <2>1, <2>2
  <2> QED
    BY <1>1, <2>3
<1>4. c = folds(c)
  <2> HIDE DEF folds, f
  <2> QED
    BY <1>3
<1>5. CommitHash(tree, <<p>>) = c[{1}]
  BY <1>1 DEF CommitHash, FoldLeft, MapThenFoldSet
<1> HIDE DEF c
<1>6. c[{}] = TreeHash(tree)
  BY <1>1, <1>4
<1>7. c[{1}] = Mix(c[{}], p)
  <2>1. {1} \in SUBSET DOMAIN <<p>> /\ {1} # {} /\ {1} \ {1} = {}
    BY <1>1
  <2> QED
    BY <1>1, <1>2, <1>4, <2>1
<1> QED
  BY <1>5, <1>6, <1>7

(* Every entry of the store is the empty tree the repository began with,   *)
(* or a tree with one parent that is in the store, and its key is the hash *)
(* of that.                                                                *)
IsInitialEntry(h) ==
    /\ snapshots[h] = [tree |-> EmptyTree, parents |-> << >>]
    /\ h = TreeHash(EmptyTree)

IsEntryOn(h, tree, p) ==
    /\ p \in DOMAIN snapshots
    /\ snapshots[h] = [tree |-> tree, parents |-> <<p>>]
    /\ h = Mix(TreeHash(tree), p)

EntriesMatchHash ==
    \A h \in DOMAIN snapshots :
        IsInitialEntry(h) \/ \E tree, p : IsEntryOn(h, tree, p)

(* A commit stores one entry: its tree on a head that is in the store,     *)
(* under their hash.                                                       *)
LEMMA StoreEffect ==
    ASSUME Resolvable, NEW tree, CommitTree(tree)
    PROVE  \E p \in DOMAIN snapshots :
              snapshots' = Put(snapshots, Mix(TreeHash(tree), p),
                               [tree |-> tree, parents |-> <<p>>])
<1>1. branches[current] \in DOMAIN snapshots
  BY CommitEffect DEF Resolvable, CommitsResolve
<1>2. snapshots' = Put(snapshots, CommitHash(tree, <<branches[current]>>),
                       [tree |-> tree, parents |-> <<branches[current]>>])
  BY CommitEffect
<1> QED
  BY <1>1, <1>2, HashWithParent

(* No step breaks the link between an entry and its key.                   *)
LEMMA EntriesMatchHashHolds == Spec => []EntriesMatchHash
<1>1. Init => EntriesMatchHash
  <2> SUFFICES ASSUME Init
               PROVE  EntriesMatchHash
    OBVIOUS
  <2>1. \A h \in DOMAIN snapshots :
           /\ h = CommitHash(EmptyTree, << >>)
           /\ snapshots[h] = [tree |-> EmptyTree, parents |-> << >>]
    BY DEF Init
  <2> QED
    BY <2>1, HashWithoutParents DEF EntriesMatchHash, IsInitialEntry
<1>2. Resolvable /\ EntriesMatchHash /\ [Next]_vars => EntriesMatchHash'
  <2> SUFFICES ASSUME Resolvable, EntriesMatchHash, [Next]_vars
               PROVE  EntriesMatchHash'
    OBVIOUS
  <2>1. CASE \E tree : CommitTree(tree)
    <3>1. PICK tree, p : /\ p \in DOMAIN snapshots
                         /\ snapshots' = Put(snapshots, Mix(TreeHash(tree), p),
                                             [tree |-> tree, parents |-> <<p>>])
      BY <2>1, StoreEffect
    <3> DEFINE new == Mix(TreeHash(tree), p)
               entry == [tree |-> tree, parents |-> <<p>>]
    <3>2. /\ DOMAIN snapshots' = DOMAIN snapshots \union {new}
          /\ snapshots'[new] = entry
          /\ \A h \in DOMAIN snapshots : h # new => snapshots'[h] = snapshots[h]
      <4> HIDE DEF new, entry
      <4> QED
        BY <3>1 DEF Put, new, entry
    <3>3. IsEntryOn(new, tree, p)'
      BY <3>1, <3>2 DEF IsEntryOn
    <3>4. ASSUME NEW h \in DOMAIN snapshots', h # new
          PROVE  IsInitialEntry(h)' \/ \E u, q : IsEntryOn(h, u, q)'
      BY <3>2, <3>4 DEF EntriesMatchHash, IsInitialEntry, IsEntryOn
    <3> QED
      BY <3>3, <3>4 DEF EntriesMatchHash
  <2>2. CASE UNCHANGED snapshots
    BY <2>2 DEF EntriesMatchHash, IsInitialEntry, IsEntryOn
  <2> QED
    BY <2>1, <2>2, StepKinds DEF CreateBranch, Checkout, vars
<1> QED
  BY <1>1, <1>2, RepositoryResolves, PTL DEF Spec

----------------------------------------------------------------------------
(* What a hash tells.                                                      *)

(* The hash is that of SymbolicHash, as in the runs: FNV-1a tells texts    *)
(* apart, and what the xor and the multiplication of store.rs:53-54 let    *)
(* collide, collides.                                                      *)
HashIsSymbolic ==
    /\ \A t : TreeHash(t) = SymbolicTreeHash(t)
    /\ \A h, p : Mix(h, p) = SymbolicMix(h, p)

(* The hashes a store has: the initial commit's, and what mixing gives.    *)
IsMixed(h) == h = ZeroHash \/ \E x : h = {<<"mul", x>>}

IsStoredHash(h) == h = TreeHash(EmptyTree) \/ IsMixed(h)

(* Mixing in a parent gives no hash of a tree.                             *)
LEMMA MixedIsNoTreeHash ==
    ASSUME HashIsSymbolic, NEW t, NEW u, NEW p
    PROVE  IsMixed(Mix(TreeHash(t), p)) /\ ~ IsMixed(TreeHash(u))
<1>1. IsMixed(Mix(TreeHash(t), p))
  BY DEF HashIsSymbolic, SymbolicMix, IsMixed, ZeroHash
<1>2. \A x, y : {<<"mul", x>>} # {<<"tree", y>>} /\ {<<"tree", y>>} # {}
  <2> SUFFICES ASSUME NEW x, NEW y
               PROVE  <<"mul", x>> # <<"tree", y>>
    OBVIOUS
  <2>1. <<"mul", x>>[1] = "mul" /\ <<"tree", y>>[1] = "tree"
    OBVIOUS
  <2> QED
    BY <2>1
<1> QED
  BY <1>1, <1>2 DEF HashIsSymbolic, SymbolicTreeHash, IsMixed, ZeroHash

(* A hash that has a parent of the store mixed in tells the parent and the *)
(* hash of the tree: the xor that any two pairs can be made to share is    *)
(* not one of two trees with two parents of one store.                     *)
LEMMA MixTellsParent ==
    ASSUME HashIsSymbolic, NEW t, NEW u, NEW p, NEW q,
           IsStoredHash(p), IsStoredHash(q),
           Mix(TreeHash(t), p) = Mix(TreeHash(u), q)
    PROVE  p = q /\ TreeHash(t) = TreeHash(u)
<1> DEFINE root == <<"tree", HashedText(EmptyTree, RootId)>>
           a == <<"tree", HashedText(t, RootId)>>
           b == <<"tree", HashedText(u, RootId)>>
<1>1. TreeHash(EmptyTree) = {root} /\ TreeHash(t) = {a} /\ TreeHash(u) = {b}
  BY DEF HashIsSymbolic, SymbolicTreeHash
<1>2. \A x : <<"mul", x>> # root /\ <<"mul", x>> # a /\ <<"mul", x>> # b
  <2> TAKE x
  <2>1. <<"mul", x>>[1] = "mul" /\ root[1] = "tree" /\ a[1] = "tree" /\ b[1] = "tree"
    OBVIOUS
  <2> HIDE DEF root, a, b
  <2> QED
    BY <2>1
<1> HIDE DEF root, a, b
<1>3. SymDiff({a}, p) = SymDiff({b}, q)
  <2>1. SymbolicMix({a}, p) = SymbolicMix({b}, q)
    BY <1>1 DEF HashIsSymbolic
  <2>2. \A x, y : {<<"mul", x>>} = {<<"mul", y>>} => x = y
    <3> TAKE x, y
    <3>1. <<"mul", x>>[2] = x /\ <<"mul", y>>[2] = y
      OBVIOUS
    <3> QED
      BY <3>1
  <2> QED
    BY <2>1, <2>2 DEF SymbolicMix
<1>4. /\ p = {} \/ p = {root} \/ \E x : p = {<<"mul", x>>}
      /\ q = {} \/ q = {root} \/ \E x : q = {<<"mul", x>>}
  BY <1>1 DEF IsStoredHash, IsMixed, ZeroHash
<1>5. \A e : (e \in p <=> e # a) <=> (e \in q <=> e # b)
  <2>1. \A e : e \in SymDiff({a}, p) <=> ~ (e \in p <=> e = a)
    BY DEF SymDiff
  <2>2. \A e : e \in SymDiff({b}, q) <=> ~ (e \in q <=> e = b)
    BY DEF SymDiff
  <2> QED
    BY <1>3, <2>1, <2>2
<1>6. p = q
  <2>1. ASSUME NEW x PROVE <<"mul", x>> \in p <=> <<"mul", x>> \in q
    BY <1>2, <1>5
  <2>2. CASE \E x : p = {<<"mul", x>>}
    BY <1>2, <1>4, <2>1, <2>2
  <2>3. CASE \E x : q = {<<"mul", x>>}
    BY <1>2, <1>4, <2>1, <2>3
  <2>4. CASE p = {} /\ q = {root}
    BY <1>5, <2>4
  <2>5. CASE p = {root} /\ q = {}
    BY <1>5, <2>5
  <2> QED
    BY <1>4, <2>2, <2>3, <2>4, <2>5
<1>7. a = b
  BY <1>5, <1>6
<1> QED
  BY <1>1, <1>6, <1>7

(* Every key of the store is such a hash.                                  *)
LEMMA KeysAreStoredHashes ==
    ASSUME HashIsSymbolic, EntriesMatchHash, NEW h \in DOMAIN snapshots
    PROVE  IsStoredHash(h)
BY MixedIsNoTreeHash DEF EntriesMatchHash, IsInitialEntry, IsEntryOn, IsStoredHash

(* No step takes a snapshot away, or gives a hash other parents or a tree  *)
(* with another hash.                                                      *)
LEMMA SnapshotsKept ==
    ASSUME HashIsSymbolic, EntriesMatchHash, Resolvable, [Next]_vars,
           NEW h \in DOMAIN snapshots
    PROVE  /\ h \in DOMAIN snapshots'
           /\ snapshots'[h].parents = snapshots[h].parents
           /\ TreeHash(snapshots'[h].tree) = TreeHash(snapshots[h].tree)
<1>1. CASE \E tree : CommitTree(tree)
  <2>1. PICK tree, p : /\ p \in DOMAIN snapshots
                       /\ snapshots' = Put(snapshots, Mix(TreeHash(tree), p),
                                           [tree |-> tree, parents |-> <<p>>])
    BY <1>1, StoreEffect
  <2> DEFINE new == Mix(TreeHash(tree), p)
             entry == [tree |-> tree, parents |-> <<p>>]
  <2>2. /\ h \in DOMAIN snapshots'
        /\ h # new => snapshots'[h] = snapshots[h]
        /\ h = new => snapshots'[h] = entry
    <3> HIDE DEF new, entry
    <3> QED
      BY <2>1 DEF Put, new, entry
  <2>3. CASE h = new
    <3>1. ~ IsInitialEntry(h)
      BY <2>3, MixedIsNoTreeHash DEF IsInitialEntry
    <3>2. PICK u, q : IsEntryOn(h, u, q)
      BY <3>1 DEF EntriesMatchHash
    <3>3. IsStoredHash(p) /\ IsStoredHash(q)
      BY <2>1, <3>2, KeysAreStoredHashes DEF IsEntryOn
    <3>4. p = q /\ TreeHash(tree) = TreeHash(u)
      BY <2>3, <3>2, <3>3, MixTellsParent DEF IsEntryOn
    <3> QED
      BY <2>2, <2>3, <3>2, <3>4 DEF IsEntryOn
  <2> QED
    BY <2>2, <2>3
<1>2. CASE UNCHANGED snapshots
  BY <1>2
<1> QED
  BY <1>1, <1>2, StepKinds DEF CreateBranch, Checkout, vars

(* A commit that collides with a stored one replaces its tree by one with  *)
(* the same kinds and labels in the same order, on the same parents: of    *)
(* what "Commits are immutable" (commit.rs:4) says, only the values and    *)
(* the extent of child lists can be lost.                                  *)
THEOREM CollisionsKeepText ==
    ASSUME HashIsSymbolic
    PROVE  Spec => [][\A h \in DOMAIN snapshots :
                        /\ h \in DOMAIN snapshots'
                        /\ snapshots'[h].parents = snapshots[h].parents
                        /\ HashedText(snapshots'[h].tree, RootId)
                             = HashedText(snapshots[h].tree, RootId)]_vars
<1> DEFINE Kept(h) == /\ h \in DOMAIN snapshots'
                      /\ snapshots'[h].parents = snapshots[h].parents
                      /\ HashedText(snapshots'[h].tree, RootId)
                           = HashedText(snapshots[h].tree, RootId)
<1>1. \A t, u : TreeHash(t) = TreeHash(u)
                  => HashedText(t, RootId) = HashedText(u, RootId)
  <2> SUFFICES ASSUME NEW t, NEW u, TreeHash(t) = TreeHash(u)
               PROVE  HashedText(t, RootId) = HashedText(u, RootId)
    OBVIOUS
  <2> DEFINE a == <<"tree", HashedText(t, RootId)>>
             b == <<"tree", HashedText(u, RootId)>>
  <2>1. {a} = {b}
    BY DEF HashIsSymbolic, SymbolicTreeHash
  <2>2. a = b
    <3> HIDE DEF a, b
    <3> QED
      BY <2>1
  <2>3. a[2] = HashedText(t, RootId) /\ b[2] = HashedText(u, RootId)
    OBVIOUS
  <2> QED
    BY <2>2, <2>3
<1>2. Resolvable /\ EntriesMatchHash /\ [Next]_vars
        => [\A h \in DOMAIN snapshots : Kept(h)]_vars
  BY <1>1, SnapshotsKept, HashIsSymbolic
<1> QED
  BY <1>2, EntriesMatchHashHolds, RepositoryResolves, PTL DEF Spec

(* No step takes a commit away or gives it other parents.                  *)
ParentsKept ==
    \A h \in DOMAIN commits :
        /\ h \in DOMAIN commits' /\ h \in DOMAIN snapshots'
        /\ commits'[h].parents = commits[h].parents

(* A commit that collides with another one never changes the history: no   *)
(* commit goes, and none changes its parents.                              *)
THEOREM HistoryIsStableHolds ==
    ASSUME HashIsSymbolic
    PROVE  Spec => HistoryIsStable
<1>1. EntriesMatchHash /\ Resolvable /\ Resolvable' /\ [Next]_vars => ParentsKept
  BY SnapshotsKept, HashIsSymbolic DEF Resolvable, CommitsResolve, ParentsKept
<1> QED
  BY <1>1, EntriesMatchHashHolds, RepositoryResolves, PTL
     DEF Spec, HistoryIsStable, ParentsKept

(* While no commit goes or changes its parents, a step keeps the history   *)
(* a tree.                                                                 *)
LEMMA RootedStep ==
    ASSUME HistoryIsRooted, ParentsKept, Resolvable, [Next]_vars
    PROVE  HistoryIsRooted'
<1>1. \A h \in DOMAIN commits :
         h \in DOMAIN commits' /\ commits'[h].parents = commits[h].parents
  BY DEF ParentsKept
<1>2. \A h \in DOMAIN commits : ToSet(commits[h].parents) \subseteq DOMAIN commits
  BY DEF Resolvable, CommitsResolve, ToSet
<1>3. CASE \E tree : CommitTree(tree)
  <2>1. PICK tree : CommitTree(tree)
    BY <1>3
  <2> DEFINE head == branches[current]
             new == CommitHash(tree, <<head>>)
  <2>2. /\ head \in DOMAIN commits
        /\ DOMAIN commits' = DOMAIN commits \union {new}
        /\ commits'[new].parents = <<head>>
    <3>1. PICK patch : commits' = Put(commits, new,
                                      [parents |-> <<head>>, patch |-> patch])
      BY <2>1, CommitEffect
    <3>2. head \in DOMAIN commits
      BY <2>1, CommitEffect
    <3> HIDE DEF head, new
    <3>3. QED
      BY <3>1, <3>2 DEF Put
  <2>3. ToSet(<<head>>) = {head} /\ <<head>> # << >>
    BY DEF ToSet
  <2> HIDE DEF head, new
  <2>4. ASSUME NEW S \in SUBSET DOMAIN commits', S # {}
        PROVE  \E h \in S : ToSet(commits'[h].parents) \intersect S = {}
    <3> DEFINE old == S \intersect DOMAIN commits
    <3>1. CASE old = {}
      <4>1. new \in S /\ new \notin DOMAIN commits
        BY <2>2, <2>4, <3>1
      <4>2. ToSet(commits'[new].parents) \intersect S = {}
        BY <2>2, <2>3, <3>1
      <4>3. QED
        BY <4>1, <4>2
    <3>2. CASE old # {}
      <4>1. PICK h \in old : ToSet(commits[h].parents) \intersect old = {}
        BY <3>2 DEF HistoryIsRooted
      <4>2. ToSet(commits'[h].parents) \intersect S = {}
        BY <1>1, <1>2, <4>1
      <4>3. QED
        BY <4>1, <4>2
    <3>3. QED
      BY <3>1, <3>2
  <2>5. \E root \in DOMAIN commits' :
           \A h \in DOMAIN commits' : commits'[h].parents = << >> <=> h = root
    <3>1. PICK root \in DOMAIN commits :
             \A h \in DOMAIN commits : commits[h].parents = << >> <=> h = root
      BY DEF HistoryIsRooted
    <3>2. new # root
      BY <1>1, <2>2, <2>3, <3>1
    <3>3. QED
      BY <1>1, <2>2, <2>3, <3>1, <3>2
  <2>6. QED
    BY <2>4, <2>5 DEF HistoryIsRooted
<1>4. CASE UNCHANGED commits
  BY <1>4 DEF HistoryIsRooted
<1>5. QED
  BY <1>3, <1>4, StepKinds DEF CreateBranch, Checkout, vars

(* History stays a tree: one commit without parents, and no circles,       *)
(* however commits collide.                                                *)
THEOREM HistoryIsRootedHolds ==
    ASSUME HashIsSymbolic
    PROVE  Spec => []HistoryIsRooted
<1>1. Init => HistoryIsRooted
  BY DEF Init, HistoryIsRooted, ToSet
<1>2. HistoryIsRooted /\ ParentsKept /\ Resolvable /\ [Next]_vars
        => HistoryIsRooted'
  BY RootedStep
<1>3. HistoryIsRooted /\ UNCHANGED vars => HistoryIsRooted'
  BY DEF HistoryIsRooted, vars
<1> QED
  BY <1>1, <1>2, <1>3, HistoryIsStableHolds, RepositoryResolves, PTL
     DEF Spec, HistoryIsStable, ParentsKept

(* The sets of commits that have the heads and, with a commit, its         *)
(* parents.  Named is what they have in common.                            *)
HasHeads(S) == \A b \in DOMAIN branches : branches[b] \in S

IsClosed(S) == \A h \in S : ToSet(commits[h].parents) \subseteq S

NamedIsMeet ==
    Named = {h \in DOMAIN commits :
                \A S \in SUBSET DOMAIN commits :
                   HasHeads(S) /\ IsClosed(S) => h \in S}

(* Named is the least of these sets.                                       *)
LEMMA NamedMeet == BranchesResolve => NamedIsMeet
<1> SUFFICES ASSUME BranchesResolve
             PROVE  NamedIsMeet
  OBVIOUS
<1> DEFINE heads == {branches[b] : b \in DOMAIN branches} \intersect DOMAIN commits
           above == {heads \union R : R \in SUBSET (DOMAIN commits \ heads)}
<1>1. \A S \in SUBSET DOMAIN commits : HasHeads(S) <=> heads \subseteq S
  BY DEF HasHeads, BranchesResolve
<1>2. \A S : S \in above <=> S \in SUBSET DOMAIN commits /\ heads \subseteq S
  <2>1. ASSUME NEW S \in above
        PROVE  S \in SUBSET DOMAIN commits /\ heads \subseteq S
    BY <2>1
  <2>2. ASSUME NEW S \in SUBSET DOMAIN commits, heads \subseteq S
        PROVE  S \in above
    <3> DEFINE R == S \ heads
    <3>1. R \in SUBSET (DOMAIN commits \ heads) /\ S = heads \union R
      BY <2>2
    <3> HIDE DEF R, heads
    <3> QED
      BY <3>1
  <2> QED
    BY <2>1, <2>2
<1> HIDE DEF above
<1>3. Named = {h \in DOMAIN commits :
                  \A S \in {T \in above : IsClosed(T)} : h \in S}
  BY DEF Named, IsClosed, above
<1> HIDE DEF heads
<1> QED
  BY <1>1, <1>2, <1>3 DEF NamedIsMeet

(* The same of the next state.                                             *)
LEMMA NamedMeetNext == (BranchesResolve => NamedIsMeet)'
BY NamedMeet, PTL

(* Unless a step resets another branch, a set that has the new heads and,  *)
(* with a commit, its parents has the old heads too.                       *)
LEMMA HeadsStayNamed ==
    ASSUME Resolvable, ParentsKept, [Next]_vars,
           ~ \E name \in DOMAIN branches \ {current} : CreateBranch(name),
           NEW S, HasHeads(S)', IsClosed(S)'
    PROVE  HasHeads(S)
<1>1. CASE \E tree : CommitTree(tree)
  <2>1. PICK tree : CommitTree(tree)
    BY <1>1
  <2> DEFINE head == branches[current]
             new == CommitHash(tree, <<head>>)
  <2>2. current \in DOMAIN branches /\ branches' = [branches EXCEPT ![current] = new]
    BY <2>1, CommitEffect
  <2>3. PICK patch : commits' = Put(commits, new,
                                    [parents |-> <<head>>, patch |-> patch])
    BY <2>1, CommitEffect
  <2> HIDE DEF new
  <2>4. commits'[new].parents = <<head>>
    BY <2>3 DEF Put
  <2>5. new \in S
    BY <2>2 DEF HasHeads
  <2>6. head \in S
    <3>1. ToSet(commits'[new].parents) \subseteq S
      BY <2>5 DEF IsClosed
    <3>2. head \in ToSet(<<head>>)
      BY DEF ToSet
    <3> QED
      BY <2>4, <3>1, <3>2
  <2> QED
    BY <2>2, <2>6 DEF HasHeads
<1>2. CASE \E name \in BranchNames : CreateBranch(name)
  <2>1. PICK name : CreateBranch(name) /\ name \notin DOMAIN branches \ {current}
    BY <1>2
  <2>2. branches' = Put(branches, name, branches[current])
    BY <2>1 DEF CreateBranch, HeadHash, Resolvable, BranchesResolve
  <2>3. \A b \in DOMAIN branches : b \in DOMAIN branches' /\ branches'[b] = branches[b]
    BY <2>1, <2>2 DEF Put
  <2> QED
    BY <2>3 DEF HasHeads
<1>3. CASE UNCHANGED branches
  BY <1>3 DEF HasHeads
<1> QED
  BY <1>1, <1>2, <1>3, StepKinds DEF Checkout, vars

(* What is committed stays in a history one can name: only create_branch   *)
(* with the name of another branch that exists can lose commits, whatever  *)
(* trees are committed, merged, and collide.                               *)
THEOREM OnlyResetLosesHolds ==
    ASSUME HashIsSymbolic
    PROVE  Spec => OnlyResetLoses
<1> DEFINE Kept == \/ \E name \in DOMAIN branches \ {current} : CreateBranch(name)
                   \/ Named \subseteq Named'
<1>1. ASSUME Resolvable, Resolvable', ParentsKept, [Next]_vars,
             ~ \E name \in DOMAIN branches \ {current} : CreateBranch(name)
      PROVE  Named \subseteq Named'
  <2> SUFFICES ASSUME NEW h \in Named
               PROVE  h \in Named'
    OBVIOUS
  <2>1. h \in DOMAIN commits /\ DOMAIN commits \subseteq DOMAIN commits'
    BY <1>1 DEF Named, ParentsKept
  <2>2. ASSUME NEW S \in SUBSET DOMAIN commits', HasHeads(S)', IsClosed(S)'
        PROVE  h \in S
    <3> DEFINE old == S \intersect DOMAIN commits
    <3>1. HasHeads(old)
      <4>1. HasHeads(S)
        BY <1>1, <2>2, HeadsStayNamed
      <4> QED
        BY <1>1, <4>1 DEF HasHeads, Resolvable, BranchesResolve
    <3>2. IsClosed(old)
      <4> SUFFICES ASSUME NEW g \in old
                   PROVE  ToSet(commits[g].parents) \subseteq old
        BY DEF IsClosed
      <4>1. ToSet(commits[g].parents) \subseteq S
        BY <1>1, <2>2 DEF ParentsKept, IsClosed
      <4>2. ToSet(commits[g].parents) \subseteq DOMAIN commits
        BY <1>1 DEF Resolvable, CommitsResolve, ToSet
      <4> QED
        BY <4>1, <4>2
    <3>3. old \in SUBSET DOMAIN commits
      OBVIOUS
    <3> HIDE DEF old
    <3>4. h \in old
      BY <1>1, <3>1, <3>2, <3>3, NamedMeet DEF Resolvable, NamedIsMeet
    <3> QED
      BY <3>4 DEF old
  <2>3. Named' = {g \in DOMAIN commits' :
                     \A S \in SUBSET DOMAIN commits' :
                        HasHeads(S)' /\ IsClosed(S)' => g \in S}
    BY <1>1, NamedMeetNext DEF Resolvable, NamedIsMeet
  <2> QED
    BY <2>1, <2>2, <2>3
<1>2. Resolvable /\ Resolvable' /\ ParentsKept /\ [Next]_vars
        => [Kept]_<<commits, branches>>
  BY <1>1
<1>3. UNCHANGED vars => [Kept]_<<commits, branches>>
  BY DEF vars
<1> QED
  BY <1>2, <1>3, HistoryIsStableHolds, RepositoryResolves, PTL
     DEF Spec, HistoryIsStable, ParentsKept, OnlyResetLoses

----------------------------------------------------------------------------
(* The repository with the trees and the engine of the code.               *)

(* The parameters are those of AstMerge: the repository starts with a new  *)
(* tree, what is committed are trees, and a tree is hashed by what         *)
(* subtree_hash feeds to the hash, whatever the hash makes of it.          *)
AstEngine ==
    /\ EmptyTree = NewTree
    /\ \A t \in InputTrees : IsTree(t)
    /\ \A t, u : Diff(t, u) = DiffTrees(t, u)
    /\ \A a, b : Merges(a, b) = MergePatches(a, b)
    /\ \A t, a : Apply(t, a) = ApplyPatch(t, a)
    /\ \A t, u : HashedText(t, RootId) = HashedText(u, RootId)
                   => TreeHash(t) = TreeHash(u)

(* A new tree is one.                                                      *)
LEMMA NewTreeIsTree == IsTree(NewTree)
<1> DEFINE t == NewTree
<1>1. /\ DOMAIN t.node = {RootId} /\ t.parent = << >> /\ t.next = 1
      /\ t.node[RootId].children = << >>
  BY DEF NewTree, NewNode
<1> HIDE DEF t
<1>2. DOMAIN t.parent = {} /\ RootId = 0
  BY <1>1, EmptySeq DEF RootId
<1>3. << >> \in Seq(DOMAIN t.parent)
  BY EmptySeq
<1>4. IsInjective(t.node[RootId].children) /\ ToSet(t.node[RootId].children) = {}
  BY <1>1, EmptySeq DEF IsInjective, ToSet
<1>5. \A p \in DOMAIN t.node :
          /\ t.node[p].children \in Seq(DOMAIN t.parent)
          /\ IsInjective(t.node[p].children)
          /\ \A c \in ToSet(t.node[p].children) : t.parent[c] = p
  BY <1>1, <1>3, <1>4
<1>6. DOMAIN t.node \subseteq 0..(t.next - 1)
  BY <1>1, <1>2
<1>7. IsTree(t)
  BY <1>1, <1>2, <1>5, <1>6 DEF IsTree
<1> QED
  BY <1>7 DEF t

(* Every snapshot is a tree.                                               *)
SnapshotsAreTrees ==
    /\ Resolvable
    /\ \A h \in DOMAIN snapshots : IsTree(snapshots[h].tree)

(* A commit of a tree keeps it so.                                         *)
LEMMA CommitKeepsTrees ==
    ASSUME SnapshotsAreTrees, Resolvable', NEW tree, IsTree(tree), CommitTree(tree)
    PROVE  SnapshotsAreTrees'
<1> DEFINE parents == <<branches[current]>>
           hash == CommitHash(tree, parents)
           entry == [tree |-> tree, parents |-> parents]
<1>1. snapshots' = Put(snapshots, hash, entry)
  BY CommitEffect DEF SnapshotsAreTrees
<1>2. entry.tree = tree
  OBVIOUS
<1> HIDE DEF hash, entry
<1>3. \A h \in DOMAIN snapshots' : \/ h \in DOMAIN snapshots /\ snapshots'[h] = snapshots[h]
                                   \/ snapshots'[h] = entry
  BY <1>1 DEF Put
<1> QED
  BY <1>2, <1>3 DEF SnapshotsAreTrees

(* What a merge commits is a tree, and the results it might find agree.    *)
LEMMA MergeFindsTree ==
    ASSUME AstEngine, SnapshotsAreTrees, NEW other, MergeFinds(other),
           NEW r \in MergeResults(other), NEW q \in MergeResults(other)
    PROVE  /\ IsTree(Apply(snapshots[MergeBase].tree, r.merged))
           /\ IsCleanMerge(r) <=> IsCleanMerge(q)
           /\ TreeHash(Apply(snapshots[MergeBase].tree, r.merged))
                = TreeHash(Apply(snapshots[MergeBase].tree, q.merged))
<1> DEFINE b == snapshots[MergeBase].tree
           t == snapshots[HeadHash].tree
           u == snapshots[branches[other]].tree
           a == DiffTrees(b, t)
           c == DiffTrees(b, u)
           S == DiffOps(b, t) \union DiffOps(b, u)
<1>1. IsTree(b) /\ IsTree(t) /\ IsTree(u)
  BY DEF SnapshotsAreTrees, MergeFinds
<1>2. MergeResults(other) = MergePatches(a, c)
  BY DEF MergeResults, AstEngine
<1> HIDE DEF b, t, u
<1>3. SafeFor(b, S) /\ a \in Seq(S) /\ c \in Seq(S)
  BY <1>1, TwoDiffs
<1>4. r \in MergePatches(a, c) /\ q \in MergePatches(a, c)
  BY <1>2
<1> HIDE DEF a, c, S
<1>5. /\ IsClean(r) <=> IsClean(q)
      /\ IsTree(ApplyPatch(b, r.merged))
      /\ HashedText(ApplyPatch(b, r.merged), RootId)
           = HashedText(ApplyPatch(b, q.merged), RootId)
  BY <1>1, <1>3, <1>4, MergesAgree
<1>6. TreeHash(ApplyPatch(b, r.merged)) = TreeHash(ApplyPatch(b, q.merged))
  BY <1>5 DEF AstEngine
<1> QED
  BY <1>5, <1>6 DEF AstEngine, IsClean, IsCleanMerge, b

(* Whatever is committed and merged, every snapshot is a tree.             *)
THEOREM SnapshotsAreTreesHolds ==
    ASSUME AstEngine
    PROVE  Spec => []SnapshotsAreTrees
<1>1. Resolvable /\ Init => SnapshotsAreTrees
  <2> SUFFICES ASSUME Resolvable, Init
               PROVE  SnapshotsAreTrees
    OBVIOUS
  <2>1. \A h \in DOMAIN snapshots : snapshots[h].tree = NewTree
    BY DEF Init, AstEngine
  <2> QED
    BY <2>1, NewTreeIsTree DEF SnapshotsAreTrees
<1>2. Resolvable' /\ SnapshotsAreTrees /\ [Next]_vars => SnapshotsAreTrees'
  <2> SUFFICES ASSUME Resolvable', SnapshotsAreTrees, [Next]_vars
               PROVE  SnapshotsAreTrees'
    OBVIOUS
  <2>1. ASSUME NEW tree \in InputTrees, Commit(tree)
        PROVE  SnapshotsAreTrees'
    <3>1. IsTree(tree) /\ CommitTree(tree)
      BY <2>1 DEF AstEngine, Commit
    <3> QED
      BY <3>1, CommitKeepsTrees
  <2>2. ASSUME NEW name \in BranchNames, CreateBranch(name) \/ Checkout(name)
        PROVE  SnapshotsAreTrees'
    BY <2>2 DEF CreateBranch, Checkout, SnapshotsAreTrees
  <2>3. ASSUME NEW name \in BranchNames, Merge(name)
        PROVE  SnapshotsAreTrees'
    <3>1. PICK r \in MergeResults(name) :
              CommitTree(Apply(snapshots[MergeBase].tree, r.merged))
      BY <2>3 DEF Merge
    <3>2. MergeFinds(name)
      BY <2>3 DEF Merge
    <3>3. IsTree(Apply(snapshots[MergeBase].tree, r.merged))
      BY <3>2, MergeFindsTree
    <3> QED
      BY <3>1, <3>3, CommitKeepsTrees
  <2>4. CASE UNCHANGED vars
    BY <2>4 DEF vars, SnapshotsAreTrees
  <2> QED
    BY <2>1, <2>2, <2>3, <2>4 DEF Next
<1> QED
  BY <1>1, <1>2, RepositoryResolves, PTL DEF Spec

(* The hash of a merge commit does not depend on the order in which        *)
(* merge_patches visited its hash set, for every hash function.            *)
THEOREM MergeHashIsDeterministicHolds ==
    ASSUME AstEngine
    PROVE  Spec => []MergeHashIsDeterministic
<1>1. SnapshotsAreTrees => MergeHashIsDeterministic
  BY MergeFindsTree DEF MergeHashIsDeterministic
<1> QED
  BY <1>1, SnapshotsAreTreesHolds, PTL
============================================================================

----------------------------- MODULE Repository ----------------------------
(***************************************************************************)
(* The repository of src/src/commit.rs over the snapshot store of          *)
(* src/src/store.rs: commits, branches, checkout and three-way merge.      *)
(*                                                                         *)
(* Trees, the hash and the diff/merge engine are parameters, so that what  *)
(* is proved here holds for every tree format, hash function and merge     *)
(* strategy; MCRepository gives them the definitions of AstMerge.          *)
(* Messages and authors are left out.                                      *)
(***************************************************************************)
EXTENDS Naturals, Sequences, FiniteSets, SequencesExt, Maps

CONSTANTS
    EmptyTree,      \* AstTree::new()
    InputTrees,     \* the trees callers commit
    BranchNames,    \* the names callers give to branches
    Main,           \* "main"
    TreeHash(_),    \* subtree_hash of the root
    Mix(_, _),      \* one parent mixed into a hash: xor, then multiply
    NoHash,         \* the hash 0
    Diff(_, _),     \* diff_trees
    Merges(_, _),   \* the results merge_patches may return for two patches
    Apply(_, _),    \* the tree after apply_patch
    MaxCommits      \* bound on the commits of a behaviour

ASSUME MainAssumption == Main \in BranchNames

VARIABLES
    snapshots,  \* hash -> [tree, parents], the SnapshotStore
    commits,    \* hash -> [parents, patch]
    branches,   \* branch name -> hash of its head
    current     \* name of the branch that is checked out

vars == <<snapshots, commits, branches, current>>

----------------------------------------------------------------------------
(* Mutant of CommitHash: parents are left out.                             *)
CommitHashOfTree(tree, parents) == TreeHash(tree)

(* SnapshotStore::store: the hash of a commit covers its tree and parents, *)
(* and the entry of a hash that is already taken is replaced.              *)
CommitHash(tree, parents) == FoldLeft(Mix, TreeHash(tree), parents)

Store(tree, parents) ==
    snapshots' = Put(snapshots, CommitHash(tree, parents),
                     [tree |-> tree, parents |-> parents])

HeadHash == IF current \in DOMAIN branches THEN branches[current] ELSE NoHash

Init ==
    LET hash == CommitHash(EmptyTree, << >>) IN
    /\ snapshots = [h \in {hash} |-> [tree |-> EmptyTree, parents |-> << >>]]
    /\ commits = [h \in {hash} |-> [parents |-> << >>, patch |-> << >>]]
    /\ branches = [b \in {Main} |-> hash]
    /\ current = Main

(* Mutant of CommitTree: it is always main that advances.                  *)
CommitTreeOnMain(tree) ==
    LET head  == HeadHash
        hash  == CommitHash(tree, <<head>>)
        patch == IF head \in DOMAIN snapshots
                 THEN Diff(snapshots[head].tree, tree) ELSE << >>
    IN /\ Store(tree, <<head>>)
       /\ commits' = Put(commits, hash, [parents |-> <<head>>, patch |-> patch])
       /\ branches' = [branches EXCEPT ![Main] = hash]
       /\ UNCHANGED current

(* Mutant of CommitTree: the new commit takes the place of the head.       *)
CommitTreeAmends(tree) ==
    LET head    == HeadHash
        parents == IF head \in DOMAIN commits /\ commits[head].parents # << >>
                   THEN commits[head].parents ELSE <<head>>
        hash    == CommitHash(tree, parents)
        patch   == IF head \in DOMAIN snapshots
                   THEN Diff(snapshots[head].tree, tree) ELSE << >>
    IN /\ Store(tree, parents)
       /\ commits' = Put(commits, hash, [parents |-> parents, patch |-> patch])
       /\ branches' = IF current \in DOMAIN branches
                      THEN [branches EXCEPT ![current] = hash] ELSE branches
       /\ UNCHANGED current

(* The body of commit, which merge calls too.                              *)
CommitTree(tree) ==
    LET head  == HeadHash
        hash  == CommitHash(tree, <<head>>)
        patch == IF head \in DOMAIN snapshots
                 THEN Diff(snapshots[head].tree, tree) ELSE << >>
    IN /\ Store(tree, <<head>>)
       /\ commits' = Put(commits, hash, [parents |-> <<head>>, patch |-> patch])
       /\ branches' = IF current \in DOMAIN branches
                      THEN [branches EXCEPT ![current] = hash] ELSE branches
       /\ UNCHANGED current

RoomForCommit == Cardinality(DOMAIN commits) < MaxCommits

Commit(tree) ==
    /\ RoomForCommit
    /\ CommitTree(tree)

(* Mutant of CreateBranch: the new branch has no head yet.                 *)
CreateBranchUnborn(name) ==
    /\ branches' = Put(branches, name, NoHash)
    /\ UNCHANGED <<snapshots, commits, current>>

(* An existing branch of that name is pointed at the current head.         *)
CreateBranch(name) ==
    /\ branches' = Put(branches, name, HeadHash)
    /\ UNCHANGED <<snapshots, commits, current>>

(* Mutant of Checkout: contains_key is not asked.                          *)
CheckoutAnything(name) ==
    /\ current' = name
    /\ UNCHANGED <<snapshots, commits, branches>>

Checkout(name) ==
    /\ name \in DOMAIN branches
    /\ current' = name
    /\ UNCHANGED <<snapshots, commits, branches>>

(* The commit merge takes for the common ancestor: the first parent of the *)
(* current head.                                                           *)
MergeBase == commits[HeadHash].parents[1]

(* merge returns a result, as opposed to None.                             *)
MergeFinds(other) ==
    /\ other \in DOMAIN branches
    /\ HeadHash \in DOMAIN commits
    /\ commits[HeadHash].parents # << >>
    /\ {MergeBase, HeadHash, branches[other]} \subseteq DOMAIN snapshots

MergeResults(other) ==
    LET base == snapshots[MergeBase].tree IN
    Merges(Diff(base, snapshots[HeadHash].tree),
           Diff(base, snapshots[branches[other]].tree))

IsCleanMerge(result) == result.conflicts = << >>

(* A merge that commits; one that returns None or conflicts changes        *)
(* nothing.  The merge commit has one parent, the current head.            *)
Merge(other) ==
    /\ RoomForCommit
    /\ MergeFinds(other)
    /\ \E result \in MergeResults(other) :
          /\ IsCleanMerge(result)
          /\ CommitTree(Apply(snapshots[MergeBase].tree, result.merged))

Next ==
    \/ \E tree \in InputTrees : Commit(tree)
    \/ \E name \in BranchNames : CreateBranch(name)
    \/ \E name \in BranchNames : Checkout(name)
    \/ \E name \in BranchNames : Merge(name)

Spec == Init /\ [][Next]_vars

----------------------------------------------------------------------------
(* Ancestors(h) is h and every commit it descends from.                    *)
Ancestors(h) ==
    LET within[n \in Nat] ==
            IF n = 0 THEN {h}
            ELSE LET later == within[n - 1] IN
                 later \union UNION {ToSet(commits[c].parents) : c \in later}
    IN within[Cardinality(DOMAIN commits)]

(* The repository resolves: the branch that is checked out exists, its     *)
(* head and that of every other branch is a commit, commits and snapshots  *)
(* are the same hashes with the same parents, and the parents are there    *)
(* too.  So head_tree never answers None, head_hash never falls back to 0, *)
(* and a history can be walked from any head to its end.                   *)
BranchesResolve ==
    /\ current \in DOMAIN branches
    /\ DOMAIN branches \subseteq BranchNames
    /\ \A b \in DOMAIN branches : branches[b] \in DOMAIN commits

CommitsResolve ==
    /\ DOMAIN snapshots = DOMAIN commits
    /\ \A h \in DOMAIN commits :
          /\ commits[h].parents = snapshots[h].parents
          /\ \/ commits[h].parents = << >>
             \/ \E p \in DOMAIN commits : commits[h].parents = <<p>>

Resolvable == BranchesResolve /\ CommitsResolve

(* Of the early returns of merge only two can be taken: the other branch   *)
(* does not exist, or the current head is the initial commit.              *)
MergeFailsOnlyAtRoot ==
    \A other \in DOMAIN branches :
        \/ MergeFinds(other)
        \/ HeadHash \in DOMAIN commits /\ commits[HeadHash].parents = << >>

(* Heads move forward and only on their own branch: a step changes the     *)
(* head of an existing branch either by a commit on top of it while it is  *)
(* checked out, or by create_branch, to where the current branch is.       *)
HeadsMoveForward ==
    [][\A b \in DOMAIN branches :
          /\ b \in DOMAIN branches'
          /\ branches'[b] # branches[b] =>
                \/ /\ b = current
                   /\ commits'[branches'[b]].parents = <<branches[b]>>
                \/ branches'[b] = branches[current]]_vars

(* No commit or snapshot disappears, and a hash keeps the parents it was   *)
(* stored with: what a colliding commit replaces is never the history.     *)
HistoryIsStable ==
    [][\A h \in DOMAIN commits :
          /\ h \in DOMAIN commits' /\ h \in DOMAIN snapshots'
          /\ commits'[h].parents = commits[h].parents]_vars

(* History is a tree that grows from the initial commit: there is one      *)
(* commit without parents, and in every set of commits one that has no     *)
(* parent in the set.  So no commit descends from itself, and the walk     *)
(* from any commit through its parents ends at the initial one.            *)
HistoryIsRooted ==
    /\ \E root \in DOMAIN commits :
          \A h \in DOMAIN commits : commits[h].parents = << >> <=> h = root
    /\ \A S \in SUBSET DOMAIN commits :
          S = {} \/ \E h \in S : ToSet(commits[h].parents) \intersect S = {}

(* The commits a history can be walked to from the head of some branch:    *)
(* what every set has that has the heads and, with a commit, its parents.  *)
Named ==
    LET heads  == {branches[b] : b \in DOMAIN branches} \intersect DOMAIN commits
        closed == {S \in {heads \union R : R \in SUBSET (DOMAIN commits \ heads)} :
                      \A h \in S : ToSet(commits[h].parents) \subseteq S}
    IN {h \in DOMAIN commits : \A S \in closed : h \in S}

(* What is committed stays in a history one can name: a commit that can be *)
(* walked to from some head stays so through further commits, merges,      *)
(* checkouts and colliding hashes.  The one exception is create_branch     *)
(* with the name of another branch that exists.                            *)
OnlyResetLoses ==
    [][\/ \E name \in DOMAIN branches \ {current} : CreateBranch(name)
       \/ Named \subseteq Named']_<<commits, branches>>

(* The hash of a merge commit does not depend on the order in which        *)
(* merge_patches happened to visit its hash set.                           *)
MergeHashIsDeterministic ==
    \A other \in DOMAIN branches : MergeFinds(other) =>
        \A r, q \in MergeResults(other) :
            /\ IsCleanMerge(r) <=> IsCleanMerge(q)
            /\ IsCleanMerge(r) =>
                 TreeHash(Apply(snapshots[MergeBase].tree, r.merged))
                   = TreeHash(Apply(snapshots[MergeBase].tree, q.merged))

(* "Commits are immutable" (commit.rs:4): the tree under a hash stays.     *)
CommitsAreImmutable ==
    [][\A h \in DOMAIN snapshots :
          h \in DOMAIN snapshots' /\ snapshots'[h] = snapshots[h]]_vars

(* "Merges patches from two branches against a common ancestor"            *)
(* (merge.rs:3): the base of a merge is in the history of both heads.      *)
MergeBaseIsCommonAncestor ==
    \A other \in DOMAIN branches : MergeFinds(other) =>
        MergeBase \in Ancestors(HeadHash) \intersect Ancestors(branches[other])
============================================================================

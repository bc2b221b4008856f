----------------------------- MODULE MountTree -----------------------------
(***************************************************************************)
(* The mount tree of a policy (policy/mounts.rs): its builder, and the     *)
(* validator that walks it in path order with a stack of ancestors.        *)
(*                                                                         *)
(* A guest path is the sequence of its components (paths.rs keeps it       *)
(* normalised), and a component is a number: only its order matters.       *)
(***************************************************************************)
EXTENDS Integers, Sequences, FiniteSets

CONSTANTS
  Paths,      \* the guest paths a caller may mount at
  Mounts,     \* the mounts a caller may ask for
  MaxMounts   \* bound: the mounts of one tree

Kind == {"bindFile", "bindDirectory", "kernel", "tmpfs", "overlay",
         "file", "symlink", "directory"}

\* MountInner.  procfs and mqueue are both "kernel".  Only an overlay has
\* layers: lower and data count its directories, upper says what it writes to.
Mount == [kind : Kind, lower : Nat, data : Nat, upper : {"none", "fd", "tmpfs"}]

\* The empty path is the root, which GuestInner::new refuses.
Root == <<>>

ASSUME MountTreeAssumption ==
  /\ Paths \subseteq Seq(Nat) \ {Root}
  /\ Mounts \subseteq Mount

VARIABLES
  tree,            \* tree[path]: the mount at path
  stage,           \* what the caller, the validator or the guest is doing
  unvisited,       \* the entries that the iterator has not returned yet
  stack,           \* the walk's stack of destinations
  counted,         \* host_mount_count while the tree is walked
  hostMountCount   \* MountTree::host_mount_count

walkVars == <<unvisited, stack, counted>>
treeVars == <<tree, stage, walkVars, hostMountCount>>

-----------------------------------------------------------------------------
\* Paths and mounts.

\* GuestInner::starts_with.
StartsWith(p, q) == Len(q) <= Len(p) /\ \A i \in 1 .. Len(q) : p[i] = q[i]

Beneath(p, q) == p # q /\ StartsWith(p, q)

\* Mutant: the order derived from the fields, parent_dir and then file_name.
BeforeByParent(p, q) ==
  LET parent(r) == SubSeq(r, 1, Len(r) - 1)
      lower(r, s) == \E i \in 1 .. Len(s) :
        /\ \A j \in 1 .. i - 1 : j <= Len(r) /\ r[j] = s[j]
        /\ i = Len(r) + 1 \/ (i <= Len(r) /\ r[i] < s[i])
  IN \/ lower(parent(p), parent(q))
     \/ parent(p) = parent(q) /\ p[Len(p)] < q[Len(q)]

\* Ord for GuestInner: component by component, a prefix comes first.
Before(p, q) ==
  \E i \in 1 .. Len(q) :
    /\ \A j \in 1 .. i - 1 : j <= Len(p) /\ p[j] = q[j]
    /\ i = Len(p) + 1 \/ (i <= Len(p) /\ p[i] < q[i])

\* The entry of a BTreeMap that its iterator returns next.
IsFirst(p, S) == p \in S /\ \A q \in S \ {p} : Before(p, q)

\* Mount::is_synthetic.
IsSynthetic(m) ==
  /\ m.kind \notin {"bindFile", "bindDirectory"}
  /\ ~(m.kind = "overlay" /\ m.upper = "fd")

\* Mutant: the detached mount of the upper directory has no room.
HostMountsOfLayers(m) == IF m.kind = "overlay" THEN m.lower + m.data ELSE 0

\* What the validator counts for one mount.
HostMounts(m) ==
  IF m.kind # "overlay" THEN 0
  ELSE m.lower + m.data + (IF m.upper # "none" THEN 1 ELSE 0)

TreeTypeOK ==
  /\ DOMAIN tree \subseteq Paths /\ tree \in [DOMAIN tree -> Mounts]
  /\ unvisited \subseteq DOMAIN tree
  /\ stack \in Seq(DOMAIN tree)
  /\ counted \in Nat
  /\ hostMountCount \in Nat

TreeInit ==
  /\ tree = <<>>
  /\ stage = "built"
  /\ unvisited = {}
  /\ stack = <<>>
  /\ counted = 0
  /\ hostMountCount = 0

-----------------------------------------------------------------------------
\* The builder: what the closure given to Policy::mount_tree does.

Configure(newTree) ==
  /\ stage \in {"built", "configure"}
  /\ Cardinality(DOMAIN newTree) <= MaxMounts
  /\ stage' = "configure"
  /\ tree' = newTree
  /\ stack' = <<>>
  /\ UNCHANGED <<unvisited, counted, hostMountCount>>

\* mount replaces what is at the path.
AddMount(p, m) ==
  Configure([q \in DOMAIN tree \cup {p} |-> IF q = p THEN m ELSE tree[q]])

Unmount(p) == Configure([q \in DOMAIN tree \ {p} |-> tree[q]])

Clear == Configure(<<>>)

-----------------------------------------------------------------------------
\* is_valid_mount_tree.

StartWalk ==
  /\ stage \in {"built", "configure"}
  /\ stage' = "walk"
  /\ unvisited' = DOMAIN tree
  /\ stack' = <<>>
  /\ counted' = 0
  /\ UNCHANGED <<tree, hostMountCount>>

Top == stack[Len(stack)]

\* Mutant: whatever follows a non-synthetic mount is refused.
RefusesNeighbour(d) == stack # <<>> /\ ~IsSynthetic(tree[Top])

\* The top of the stack is an ancestor that must not have mounts beneath it.
Refuses(d) ==
  stack # <<>> /\ StartsWith(d, Top) /\ ~IsSynthetic(tree[Top])

\* The stack is cut to k entries before d is pushed.  If the top is no ancestor
\* of d, the loop pops until it has popped an ancestor, and pops that one too.
PopsTo(d, k) ==
  IF stack = <<>> \/ StartsWith(d, Top) THEN k = Len(stack)
  ELSE /\ k < Len(stack)
       /\ k = 0 \/ StartsWith(d, stack[k + 1])
       /\ \A j \in k + 2 .. Len(stack) : ~StartsWith(d, stack[j])

Visit(d) ==
  /\ stage = "walk" /\ IsFirst(d, unvisited) /\ ~Refuses(d)
  /\ unvisited' = unvisited \ {d}
  /\ \E k \in 0 .. Len(stack) :
       PopsTo(d, k) /\ stack' = Append(SubSeq(stack, 1, k), d)
  /\ counted' = counted + HostMounts(tree[d])
  /\ UNCHANGED <<tree, stage, hostMountCount>>

\* Policy::mount_tree answers InvalidMountPolicy; the policy is gone.
Reject(d) ==
  /\ stage = "walk" /\ IsFirst(d, unvisited) /\ Refuses(d)
  /\ stage' = "rejected"
  /\ UNCHANGED <<tree, walkVars, hostMountCount>>

Accept ==
  /\ stage = "walk" /\ unvisited = {}
  /\ stage' = "built"
  /\ hostMountCount' = counted
  /\ UNCHANGED <<tree, walkVars>>

TreeNext ==
  \/ \E p \in Paths : \E m \in Mounts : AddMount(p, m)
  \/ \E p \in DOMAIN tree : Unmount(p)
  \/ Clear
  \/ StartWalk
  \/ \E d \in unvisited : Visit(d) \/ Reject(d)
  \/ Accept

-----------------------------------------------------------------------------
\* Properties.

\* Writes to the mount, or to a mount point in it, reach a file of the host.
HostBacked(m) ==
  \/ m.kind \in {"bindFile", "bindDirectory"}
  \/ m.kind = "overlay" /\ m.upper = "fd"

\* The documented condition: no mount is beneath one that the host backs,
\* whatever siblings the walk has met in between.
NothingUnderHost ==
  stage = "built" =>
    \A p, q \in DOMAIN tree : Beneath(p, q) => ~HostBacked(tree[q])

\* The validator refuses a tree for no other reason.
RejectedForReason ==
  stage = "rejected" =>
    \E p, q \in DOMAIN tree : Beneath(p, q) /\ HostBacked(tree[q])

=============================================================================

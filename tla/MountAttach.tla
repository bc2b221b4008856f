---------------------------- MODULE MountAttach ----------------------------
(***************************************************************************)
(* What the guest does with an accepted mount tree: the loop of            *)
(* guest_post_clone (spawn/mod.rs) that creates mount points, files,       *)
(* symlinks and directories in the guest's root, and attaches the mounts   *)
(* that were resolved before.                                              *)
(***************************************************************************)
EXTENDS MountTree

VARIABLES
  pending,   \* the entries that the loop has still to handle
  at,        \* at[path]: what is seen at the path in the guest's root
  mounted,   \* where a mount is attached and seen, the root's tmpfs included
  placed,    \* the entries whose object is what is seen at their path
  touched    \* the mounts in which something was created or attached

attachVars == <<pending, at, mounted, placed, touched>>
vars == <<treeVars, attachVars>>

Object == {"absent", "directory", "file", "symlink"}

\* The mounts that are attached to a directory, and those made in place.
IsDirectoryMount(m) == m.kind \in {"bindDirectory", "kernel", "tmpfs", "overlay"}
IsMade(m) == m.kind \in {"file", "symlink", "directory"}

\* Mutant: an entry shows its kind.
ShapeByKind(m) ==
  IF IsDirectoryMount(m) THEN "directory" ELSE m.kind

\* What an entry is to show at its path.
Shape(m) ==
  IF IsDirectoryMount(m) THEN "directory"
  ELSE IF m.kind = "bindFile" THEN "file" ELSE m.kind

TypeOK ==
  /\ TreeTypeOK
  /\ stage \in {"built", "configure", "walk", "rejected", "attach", "attached", "failed"}
  /\ pending \subseteq DOMAIN tree
  /\ at \in [Paths -> Object]
  /\ mounted \subseteq DOMAIN tree \cup {Root}
  /\ placed \subseteq DOMAIN tree
  /\ touched \subseteq DOMAIN tree \cup {Root}

Init ==
  /\ TreeInit
  /\ pending = {}
  /\ at = [p \in Paths |-> "absent"]
  /\ mounted = {Root}
  /\ placed = {}
  /\ touched = {}

-----------------------------------------------------------------------------
\* Mutant: a tree is used as it was configured.
StartAttachUnchecked ==
  /\ stage \in {"built", "configure"}
  /\ stage' = "attach"
  /\ pending' = DOMAIN tree
  /\ UNCHANGED <<tree, walkVars, hostMountCount, at, mounted, placed, touched>>

\* The guest has resolved every mount, and has an empty tmpfs for its root.
StartAttach ==
  /\ stage = "built"
  /\ stage' = "attach"
  /\ pending' = DOMAIN tree
  /\ UNCHANGED <<tree, walkVars, hostMountCount, at, mounted, placed, touched>>

Parent(p) == SubSeq(p, 1, Len(p) - 1)

IsDirectory(p) == p = Root \/ (p \in Paths /\ at[p] = "directory")

\* q is the mount whose filesystem the directory is on.
Holds(q, directory) ==
  /\ q \in mounted /\ StartsWith(directory, q)
  /\ \A r \in mounted : StartsWith(directory, r) => Len(r) <= Len(q)

\* What a new mount at d may show beneath itself: a fresh tmpfs nothing, any
\* other filesystem what it happens to hold.
Content(d) ==
  {c \in [{p \in Paths : Beneath(p, d)} -> Object] :
     IF tree[d].kind \in {"tmpfs", "bindFile"} THEN \A p \in DOMAIN c : c[p] = "absent"
     ELSE \A p \in DOMAIN c :
       c[p] # "absent" /\ Parent(p) # d => Parent(p) \in DOMAIN c /\ c[Parent(p)] = "directory"}

\* Handle d, the next entry in path order.  open_parent_in_root refuses
\* symlinks on the way, and a parent that is not there.
Handle(d) ==
  /\ stage = "attach" /\ IsFirst(d, pending)
  /\ IsDirectory(Parent(d))
  /\ pending' = pending \ {d}
  /\ \E q \in mounted : Holds(q, Parent(d)) /\ touched' = touched \cup {q}
  /\ UNCHANGED treeVars

\* The mount point is there, or is created; then move_mount hides whatever was
\* seen beneath.
Attach(d) ==
  /\ ~IsMade(tree[d])
  /\ Handle(d)
  /\ at[d] \in {"absent", Shape(tree[d])}
  /\ \E c \in Content(d) :
       at' = [p \in Paths |-> IF p = d THEN Shape(tree[d])
                              ELSE IF Beneath(p, d) THEN c[p] ELSE at[p]]
  /\ mounted' = {q \in mounted : ~StartsWith(q, d)} \cup {d}
  /\ placed' = {p \in placed : ~StartsWith(p, d)} \cup {d}

\* Mutant: a symlink that is in the way is left where it is.
MakeOver(d) ==
  /\ IsMade(tree[d])
  /\ Handle(d)
  /\ at' = [at EXCEPT ![d] = IF @ = "symlink" THEN @ ELSE Shape(tree[d])]
  /\ placed' = placed \cup {d}
  /\ UNCHANGED mounted

\* Files, symlinks and empty directories: DestinationExists if something is
\* there already.
Make(d) ==
  /\ IsMade(tree[d])
  /\ Handle(d)
  /\ at[d] = "absent"
  /\ at' = [at EXCEPT ![d] = Shape(tree[d])]
  /\ placed' = placed \cup {d}
  /\ UNCHANGED mounted

\* An unusable mount point, a missing parent, or any system call that fails.
Fail ==
  /\ stage = "attach" /\ pending # {}
  /\ stage' = "failed"
  /\ UNCHANGED <<tree, walkVars, hostMountCount, attachVars>>

\* The loop is done; the root is made read-only and becomes the guest's.
Finish ==
  /\ stage = "attach" /\ pending = {}
  /\ stage' = "attached"
  /\ UNCHANGED <<tree, walkVars, hostMountCount, attachVars>>

Next ==
  \/ TreeNext /\ UNCHANGED attachVars
  \/ StartAttach
  \/ \E d \in pending : Attach(d) \/ Make(d)
  \/ Fail
  \/ Finish

Spec == Init /\ [][Next]_vars

-----------------------------------------------------------------------------
\* Properties.

\* Nothing is created in, or mounted on, a file system of the host: not by an
\* attachment that succeeds, and not by one that fails half-way.
HostUntouched == \A q \in touched \ {Root} : ~HostBacked(tree[q])

\* The guest's root shows every entry of the tree at its path, so that no
\* mount is hidden by one attached after it.
GuestSeesTree ==
  stage = "attached" =>
    /\ placed = DOMAIN tree
    /\ \A p \in placed : at[p] = Shape(tree[p])
    /\ mounted = {Root} \cup {p \in DOMAIN tree : ~IsMade(tree[p])}

=============================================================================

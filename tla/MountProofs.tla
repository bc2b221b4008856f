---------------------------- MODULE MountProofs ----------------------------
(***************************************************************************)
(* Proofs about MountTree, MountAttach and MountResolution, for every set  *)
(* of paths, of mounts and every size of a tree.                           *)
(*                                                                         *)
(* The heart is the order of paths: what is beneath a path follows it      *)
(* without a gap.  So the validator meets the first mount beneath a        *)
(* non-synthetic one right after it, with that one on top of its stack,    *)
(* and what the stack holds further down does not matter.                  *)
(*                                                                         *)
(* The resolution relies on the same order twice: it is total, so that the *)
(* ranks of a tree are the slots of a vector, each once; and the validator *)
(* and the guest walk a tree alike, so that what the one has counted ahead *)
(* of an entry is room enough for what the other writes ahead of it.       *)
(***************************************************************************)
EXTENDS MountAttach, MountResolution, FiniteSetTheorems, SequenceTheorems, TLAPS

Visited == DOMAIN tree \ unvisited

\* What has been walked precedes what has not, the top of the stack comes
\* last, and nothing that has been walked is beneath a mount of the host.
WalkSound ==
  stage = "walk" =>
    /\ \A p \in Visited : \A q \in unvisited : Before(p, q)
    /\ Visited # {} => stack # <<>> /\ \A p \in Visited \ {Top} : Before(p, Top)
    /\ stack # <<>> => Top \in Visited
    /\ \A p, q \in Visited : Beneath(p, q) => ~HostBacked(tree[q])

Attaching == {"attach", "attached", "failed"}

\* The tree stays accepted once the guest works on it.
TreeSound ==
  stage \in Attaching =>
    \A p, q \in DOMAIN tree : Beneath(p, q) => ~HostBacked(tree[q])

Handled == DOMAIN tree \ pending

NothingYet == pending = {} /\ mounted = {Root} /\ placed = {} /\ touched = {}

\* What has been handled precedes what has not, and is there to see.
AttachSound ==
  IF stage \in Attaching
  THEN /\ \A p \in Handled : \A q \in pending : Before(p, q)
       /\ placed = Handled
       /\ \A p \in placed : at[p] = Shape(tree[p])
       /\ mounted = {Root} \cup {p \in placed : ~IsMade(tree[p])}
  ELSE NothingYet

\* Something is touched only for the sake of an entry beneath it.
TouchedSound ==
  \A q \in touched \ {Root} : \E p \in DOMAIN tree : Beneath(p, q)

\* The loops have ended.
LoopsSound ==
  /\ stage \in {"built", "configure"} => unvisited = {}
  /\ stage = "attached" => pending = {}

IInv ==
  /\ TypeOK
  /\ WalkSound
  /\ TreeSound
  /\ NothingUnderHost
  /\ RejectedForReason
  /\ AttachSound
  /\ TouchedSound
  /\ LoopsSound

-----------------------------------------------------------------------------
\* Paths.

\* What comes between a path and something beneath it is beneath it too: Ord for
\* GuestInner compares components, never the bytes of a whole path.
LEMMA NoGap ==
  ASSUME NEW p \in Seq(Nat), NEW q \in Seq(Nat), NEW r \in Seq(Nat),
         Before(q, p), Before(p, r), StartsWith(r, q)
  PROVE  StartsWith(p, q)
<1>1. PICK i \in 1 .. Len(p) :
        /\ \A j \in 1 .. i - 1 : j <= Len(q) /\ q[j] = p[j]
        /\ i = Len(q) + 1 \/ (i <= Len(q) /\ q[i] < p[i])
  BY DEF Before
<1>2. PICK k \in 1 .. Len(r) :
        /\ \A j \in 1 .. k - 1 : j <= Len(p) /\ p[j] = r[j]
        /\ k = Len(p) + 1 \/ (k <= Len(p) /\ p[k] < r[k])
  BY DEF Before
<1>3. Len(q) <= Len(r) /\ \A j \in 1 .. Len(q) : r[j] = q[j]
  BY DEF StartsWith
<1>4. Len(p) \in Nat /\ Len(q) \in Nat /\ Len(r) \in Nat
  OBVIOUS
<1>5. \A j \in 1 .. Len(p) : p[j] \in Nat
  OBVIOUS
<1>6. \A j \in 1 .. Len(q) : q[j] \in Nat
  OBVIOUS
<1>7. CASE i = Len(q) + 1
  BY <1>1, <1>4, <1>7 DEF StartsWith
<1>8. CASE i <= Len(q) /\ q[i] < p[i]
  <2>1. CASE i < k
    <3>1. i \in 1 .. k - 1 /\ i <= Len(q) /\ i <= Len(p)
      BY <1>1, <1>2, <1>4, <1>8, <2>1
    <3>2. p[i] = r[i] /\ r[i] = q[i] /\ p[i] \in Nat
      BY <1>2, <1>3, <1>5, <3>1
    <3> QED
      BY <1>8, <3>2
  <2>2. CASE k = i
    BY <1>1, <1>2, <1>3, <1>4, <1>5, <1>6, <1>8, <2>2, SMTT(60)
  <2>3. CASE k < i
    <3>1. k \in 1 .. i - 1 /\ k <= Len(q) /\ k <= Len(p)
      BY <1>1, <1>4, <2>3
    <3>2. q[k] = p[k] /\ r[k] = q[k]
      BY <1>1, <1>3, <3>1
    <3>3. k # Len(p) + 1 /\ p[k] \in Nat
      BY <1>4, <1>5, <3>1
    <3> QED
      BY <1>2, <3>2, <3>3
  <2> QED
    BY <1>4, <2>1, <2>2, <2>3
<1> QED
  BY <1>1, <1>7, <1>8

\* A path comes before everything beneath it.
LEMMA PrefixFirst ==
  ASSUME NEW p \in Seq(Nat), NEW q \in Seq(Nat), Before(p, q)
  PROVE  ~StartsWith(p, q)
<1> SUFFICES ASSUME StartsWith(p, q) PROVE FALSE
  OBVIOUS
<1>1. PICK i \in 1 .. Len(q) :
        /\ \A j \in 1 .. i - 1 : j <= Len(p) /\ p[j] = q[j]
        /\ i = Len(p) + 1 \/ (i <= Len(p) /\ p[i] < q[i])
  BY DEF Before
<1>2. Len(q) <= Len(p) /\ \A j \in 1 .. Len(q) : p[j] = q[j]
  BY DEF StartsWith
<1>3. Len(p) \in Nat /\ Len(q) \in Nat
  OBVIOUS
<1>4. q[i] \in Nat
  OBVIOUS
<1> QED
  BY <1>1, <1>2, <1>3, <1>4

\* What holds the parent's directory of a path holds the path beneath it.
LEMMA ParentBeneath ==
  ASSUME NEW p \in Seq(Nat) \ {Root}, NEW q \in Seq(Nat), StartsWith(Parent(p), q)
  PROVE  Beneath(p, q)
<1>1. Len(p) \in Nat \ {0}
  BY DEF Root
<1>2. Len(Parent(p)) = Len(p) - 1 /\ \A i \in 1 .. Len(p) - 1 : Parent(p)[i] = p[i]
  <2>1. Parent(p) = [i \in 1 .. Len(p) - 1 |-> p[i]]
    BY <1>1 DEF Parent
  <2>2. Len(p) - 1 \in Nat
    BY <1>1
  <2> QED
    BY <2>1, <2>2
<1>3. Len(q) <= Len(p) - 1 /\ \A i \in 1 .. Len(q) : p[i] = q[i]
  BY <1>1, <1>2 DEF StartsWith
<1> QED
  BY <1>1, <1>3 DEF Beneath, StartsWith

\* The two ways the source tells what may have mounts beneath it agree.
LEMMA SyntheticIsNotHost ==
  ASSUME NEW m
  PROVE  IsSynthetic(m) <=> ~HostBacked(m)
  BY DEF IsSynthetic, HostBacked

LEMMA PathsAreSequences == Paths \subseteq Seq(Nat) /\ Root \notin Paths
  BY MountTreeAssumption

-----------------------------------------------------------------------------
\* The invariant.

LEMMA Initially == Init => IInv
<1> SUFFICES ASSUME Init PROVE IInv
  OBVIOUS
<1> USE DEF Init, TreeInit
<1>1. DOMAIN tree = {}
  OBVIOUS
<1>2. tree \in [DOMAIN tree -> Mounts] /\ stack \in Seq(DOMAIN tree)
  BY <1>1
<1>3. TypeOK
  BY <1>1, <1>2 DEF TypeOK, TreeTypeOK, Object
<1>4. stage = "built" /\ NothingYet
  BY DEF NothingYet
<1> QED
  BY <1>1, <1>3, <1>4 DEF IInv, WalkSound, TreeSound, NothingUnderHost, RejectedForReason,
     AttachSound, TouchedSound, LoopsSound, Attaching, NothingYet

\* The builder may make any tree, before the walk and before the clone.
LEMMA ConfigureKeeps ==
  ASSUME IInv, NEW T, DOMAIN T \subseteq Paths, T \in [DOMAIN T -> Mounts],
         Configure(T), UNCHANGED attachVars
  PROVE  IInv'
<1>1. stage' = "configure" /\ tree' = T /\ stack' = <<>>
  BY DEF Configure
<1>2. stage \in {"built", "configure"} /\ UNCHANGED <<unvisited, counted, hostMountCount>>
  BY DEF Configure
<1>3. NothingYet /\ unvisited = {}
  BY <1>2 DEF IInv, AttachSound, LoopsSound, Attaching
<1>4. NothingYet' /\ at' = at
  BY <1>3 DEF NothingYet, attachVars
<1>5. TypeOK'
  BY <1>1, <1>2, <1>3, <1>4 DEF IInv, TypeOK, TreeTypeOK, NothingYet
<1> QED
  BY <1>1, <1>4, <1>3, <1>2, <1>5
     DEF IInv, WalkSound, TreeSound, NothingUnderHost, RejectedForReason,
     AttachSound, TouchedSound, LoopsSound, Attaching, NothingYet

LEMMA StartWalkKeeps == IInv /\ StartWalk /\ UNCHANGED attachVars => IInv'
<1> SUFFICES ASSUME IInv, StartWalk, UNCHANGED attachVars PROVE IInv'
  OBVIOUS
<1>1. /\ stage \in {"built", "configure"} /\ stage' = "walk"
      /\ unvisited' = DOMAIN tree /\ stack' = <<>> /\ counted' = 0
      /\ UNCHANGED <<tree, hostMountCount>>
  BY DEF StartWalk
<1>2. NothingYet /\ UNCHANGED attachVars
  BY <1>1 DEF IInv, AttachSound, Attaching
<1>3. TypeOK'
  BY <1>1, <1>2 DEF IInv, TypeOK, TreeTypeOK, attachVars
<1>4. WalkSound'
  BY <1>1 DEF WalkSound, Visited
<1> QED
  BY <1>1, <1>2, <1>3, <1>4 DEF IInv, TreeSound, NothingUnderHost, RejectedForReason,
     AttachSound, TouchedSound, LoopsSound, Attaching, NothingYet, attachVars

\* The entry that the walk is at comes after all that it has visited; if it is
\* beneath one of them, then so is the top, or it is the top.
LEMMA TopDecides ==
  ASSUME IInv, stage = "walk", NEW d, IsFirst(d, unvisited),
         NEW q \in Visited, Beneath(d, q)
  PROVE  /\ stack # <<>> /\ Top \in Visited
         /\ q = Top \/ Beneath(Top, q)
<1>1. d \in unvisited /\ unvisited \subseteq DOMAIN tree /\ DOMAIN tree \subseteq Paths
  BY DEF IsFirst, IInv, TypeOK, TreeTypeOK
<1>2. stack # <<>> /\ Top \in Visited /\ (q # Top => Before(q, Top)) /\ Before(Top, d)
  BY <1>1 DEF IInv, WalkSound, Visited
<1>3. d \in Seq(Nat) /\ q \in Seq(Nat) /\ Top \in Seq(Nat)
  BY <1>1, <1>2, PathsAreSequences DEF Visited
<1> QED
  BY <1>2, <1>3, NoGap DEF Beneath

\* What is visited is on top of the stack.
LEMMA VisitPushes ==
  ASSUME TreeTypeOK, NEW d \in unvisited, Visit(d)
  PROVE  stack' \in Seq(DOMAIN tree) /\ stack' # <<>> /\ Top' = d
<1>1. PICK k \in 0 .. Len(stack) : stack' = Append(SubSeq(stack, 1, k), d)
  BY DEF Visit
<1>2. d \in DOMAIN tree /\ stack \in Seq(DOMAIN tree)
  BY DEF TreeTypeOK
<1>3. SubSeq(stack, 1, k) \in Seq(DOMAIN tree)
  <2>1. \A i \in 1 .. k : stack[i] \in DOMAIN tree
    BY <1>2
  <2> QED
    BY <1>2, <2>1
<1>4. /\ stack' \in Seq(DOMAIN tree) /\ Len(stack') = Len(SubSeq(stack, 1, k)) + 1
      /\ stack'[Len(SubSeq(stack, 1, k)) + 1] = d
  BY <1>1, <1>2, <1>3, AppendProperties
<1>5. stack' # <<>>
  BY <1>1, <1>2, <1>3, AppendProperties
<1> QED
  BY <1>4, <1>5 DEF Top

LEMMA VisitKeeps ==
  ASSUME IInv, NEW d \in unvisited, Visit(d), UNCHANGED attachVars
  PROVE  IInv'
<1>1. /\ stage = "walk" /\ stage' = "walk" /\ IsFirst(d, unvisited) /\ ~Refuses(d)
      /\ unvisited' = unvisited \ {d}
      /\ counted' = counted + HostMounts(tree[d])
      /\ UNCHANGED <<tree, hostMountCount>>
  BY DEF Visit
<1>3. /\ unvisited \subseteq DOMAIN tree /\ stack \in Seq(DOMAIN tree) /\ counted \in Nat
      /\ DOMAIN tree \subseteq Paths /\ tree[d] \in Mount
  BY MountTreeAssumption DEF IInv, TypeOK, TreeTypeOK
<1>5. stack' \in Seq(DOMAIN tree) /\ stack' # <<>> /\ Top' = d
  BY VisitPushes DEF IInv, TypeOK
<1>6. HostMounts(tree[d]) \in Nat
  BY <1>3 DEF HostMounts, Mount
<1>7. TypeOK'
  BY <1>1, <1>3, <1>5, <1>6 DEF IInv, TypeOK, TreeTypeOK, attachVars
<1>8. Visited' = Visited \cup {d} /\ d \notin Visited
  BY <1>1, <1>3 DEF Visited
<1>9. ASSUME NEW p \in Visited', NEW q \in unvisited' PROVE Before(p, q)
  BY <1>1, <1>8, <1>9 DEF IInv, WalkSound, IsFirst
<1>10. \A p \in Visited' \ {d} : Before(p, d)
  BY <1>1, <1>8 DEF IInv, WalkSound
<1>11. ASSUME NEW p \in Visited', NEW q \in Visited', Beneath(p, q)
       PROVE  ~HostBacked(tree[q])
  <2>1. CASE p # d /\ q # d
    BY <1>1, <1>8, <1>11, <2>1 DEF IInv, WalkSound
  <2>2. CASE p = d /\ q # d
    <3>1. stack # <<>> /\ Top \in Visited /\ (q = Top \/ Beneath(Top, q))
      BY <1>1, <1>8, <1>11, <2>2, TopDecides
    <3>2. CASE q = Top
      BY <1>1, <1>11, <2>2, <3>1, <3>2, SyntheticIsNotHost DEF Refuses, Beneath
    <3>3. CASE Beneath(Top, q)
      BY <1>1, <1>8, <2>2, <3>1, <3>3 DEF IInv, WalkSound
    <3> QED
      BY <3>1, <3>2, <3>3
  <2>3. CASE q = d /\ p # d
    <3>1. Before(p, d) /\ p \in Seq(Nat) /\ d \in Seq(Nat)
      BY <1>3, <1>8, <1>10, <2>3, PathsAreSequences DEF Visited
    <3> QED
      BY <1>11, <2>3, <3>1, PrefixFirst DEF Beneath
  <2>4. CASE q = d /\ p = d
    BY <1>11, <2>4 DEF Beneath
  <2> QED
    BY <2>1, <2>2, <2>3, <2>4
<1>12. WalkSound'
  BY <1>1, <1>5, <1>8, <1>9, <1>10, <1>11 DEF WalkSound
<1> QED
  BY <1>1, <1>7, <1>12 DEF IInv, TreeSound, NothingUnderHost, RejectedForReason,
     AttachSound, TouchedSound, LoopsSound, Attaching, NothingYet, attachVars, Handled

LEMMA RejectKeeps ==
  ASSUME IInv, NEW d \in unvisited, Reject(d), UNCHANGED attachVars
  PROVE  IInv'
<1>1. /\ stage = "walk" /\ stage' = "rejected" /\ Refuses(d)
      /\ UNCHANGED <<tree, walkVars, hostMountCount>>
  BY DEF Reject
<1>2. TypeOK'
  BY <1>1 DEF IInv, TypeOK, TreeTypeOK, attachVars, walkVars
<1>3. d \in DOMAIN tree /\ d \notin Visited /\ Top \in DOMAIN tree /\ Top \in Visited
  BY <1>1 DEF IInv, TypeOK, TreeTypeOK, WalkSound, Visited, Refuses
<1>4. Beneath(d, Top) /\ HostBacked(tree[Top])
  BY <1>1, <1>3, SyntheticIsNotHost DEF Refuses, Beneath
<1>5. RejectedForReason'
  BY <1>1, <1>3, <1>4 DEF RejectedForReason
<1> QED
  BY <1>1, <1>2, <1>5 DEF IInv, WalkSound, TreeSound, NothingUnderHost,
     AttachSound, TouchedSound, LoopsSound, Attaching, NothingYet, attachVars

LEMMA AcceptKeeps == IInv /\ Accept /\ UNCHANGED attachVars => IInv'
<1> SUFFICES ASSUME IInv, Accept, UNCHANGED attachVars PROVE IInv'
  OBVIOUS
<1>1. /\ stage = "walk" /\ unvisited = {} /\ stage' = "built"
      /\ hostMountCount' = counted /\ UNCHANGED <<tree, walkVars>>
  BY DEF Accept
<1>2. TypeOK'
  BY <1>1 DEF IInv, TypeOK, TreeTypeOK, attachVars, walkVars
<1>3. NothingUnderHost'
  BY <1>1 DEF IInv, NothingUnderHost, WalkSound, Visited
<1> QED
  BY <1>1, <1>2, <1>3 DEF IInv, WalkSound, TreeSound, RejectedForReason,
     AttachSound, TouchedSound, LoopsSound, Attaching, NothingYet, attachVars, walkVars

LEMMA TreeStepKeeps == IInv /\ TreeNext /\ UNCHANGED attachVars => IInv'
<1> SUFFICES ASSUME IInv, TreeNext, UNCHANGED attachVars PROVE IInv'
  OBVIOUS
<1>1. DOMAIN tree \subseteq Paths /\ tree \in [DOMAIN tree -> Mounts]
  BY DEF IInv, TypeOK, TreeTypeOK
<1>2. ASSUME NEW p \in Paths, NEW m \in Mounts, AddMount(p, m) PROVE IInv'
  <2> DEFINE T == [q \in DOMAIN tree \cup {p} |-> IF q = p THEN m ELSE tree[q]]
  <2>1. DOMAIN T \subseteq Paths /\ T \in [DOMAIN T -> Mounts]
    BY <1>1
  <2>2. Configure(T)
    BY <1>2 DEF AddMount
  <2> QED
    BY <2>1, <2>2, ConfigureKeeps
<1>3. ASSUME NEW p \in DOMAIN tree, Unmount(p) PROVE IInv'
  <2> DEFINE T == [q \in DOMAIN tree \ {p} |-> tree[q]]
  <2>1. DOMAIN T \subseteq Paths /\ T \in [DOMAIN T -> Mounts]
    BY <1>1
  <2>2. Configure(T)
    BY <1>3 DEF Unmount
  <2> QED
    BY <2>1, <2>2, ConfigureKeeps
<1>4. CASE Clear
  <2>1. DOMAIN <<>> = {} /\ <<>> \in [DOMAIN <<>> -> Mounts]
    OBVIOUS
  <2> QED
    BY <1>4, <2>1, ConfigureKeeps DEF Clear
<1> QED
  BY <1>2, <1>3, <1>4, StartWalkKeeps, VisitKeeps, RejectKeeps, AcceptKeeps DEF TreeNext

-----------------------------------------------------------------------------
\* The guest.

\* Nothing handled so far is beneath the next entry.
LEMMA NothingBeneathNext ==
  ASSUME IInv, stage \in Attaching, NEW d, IsFirst(d, pending)
  PROVE  \A p \in Handled \cup {Root} : ~StartsWith(p, d)
<1>1. d \in pending /\ pending \subseteq DOMAIN tree /\ DOMAIN tree \subseteq Paths
  BY DEF IsFirst, IInv, TypeOK, TreeTypeOK
<1>2. \A p \in Handled : Before(p, d) /\ p \in Seq(Nat)
  BY <1>1, PathsAreSequences DEF IInv, AttachSound, Handled
<1>3. d \in Seq(Nat) /\ d # Root
  BY <1>1, PathsAreSequences
<1>4. ~StartsWith(Root, d)
  BY <1>3 DEF StartsWith, Root
<1> QED
  BY <1>2, <1>3, <1>4, PrefixFirst

\* What Attach and Make share.
LEMMA HandleEffect ==
  ASSUME IInv, NEW d \in pending, Handle(d)
  PROVE  /\ stage = "attach" /\ UNCHANGED treeVars
         /\ pending' = pending \ {d} /\ Handled' = Handled \cup {d}
         /\ d \in DOMAIN tree /\ d \notin Handled /\ IsFirst(d, pending)
         /\ touched' \subseteq DOMAIN tree \cup {Root}
         /\ TouchedSound'
         /\ \A p \in Handled' : \A q \in pending' : Before(p, q)
<1>1. /\ stage = "attach" /\ UNCHANGED treeVars /\ IsFirst(d, pending)
      /\ pending' = pending \ {d}
  BY DEF Handle
<1>2. pending \subseteq DOMAIN tree /\ DOMAIN tree \subseteq Paths /\ tree' = tree
  BY <1>1 DEF IInv, TypeOK, TreeTypeOK, treeVars
<1>3. PICK q \in mounted : Holds(q, Parent(d)) /\ touched' = touched \cup {q}
  BY DEF Handle
<1>4. q \in DOMAIN tree \cup {Root} /\ touched \subseteq DOMAIN tree \cup {Root}
  BY DEF IInv, TypeOK
<1>5. d \in Seq(Nat) \ {Root} /\ q \in Seq(Nat)
  <2>1. Root \in Seq(Nat)
    BY DEF Root
  <2>2. d \in Paths /\ q \in Paths \cup {Root}
    BY <1>2, <1>4
  <2> QED
    BY <2>1, <2>2, PathsAreSequences
<1>6. Beneath(d, q)
  BY <1>3, <1>5, ParentBeneath DEF Holds
<1>7. TouchedSound'
  BY <1>2, <1>3, <1>6 DEF IInv, TouchedSound
<1>8. Handled' = Handled \cup {d} /\ d \notin Handled
  BY <1>1, <1>2 DEF Handled
<1>9. \A p \in Handled' : \A r \in pending' : Before(p, r)
  BY <1>1, <1>8 DEF IInv, AttachSound, Attaching, IsFirst
<1> QED
  BY <1>1, <1>2, <1>3, <1>4, <1>7, <1>8, <1>9

LEMMA ShapeIsObject ==
  ASSUME NEW m \in Mount PROVE Shape(m) \in Object
  BY DEF Mount, Kind, Shape, IsDirectoryMount, Object

LEMMA AttachKeeps ==
  ASSUME IInv, NEW d \in pending, Attach(d)
  PROVE  IInv'
<1>1. Handle(d) /\ ~IsMade(tree[d])
  BY DEF Attach
<1>2. /\ stage = "attach" /\ UNCHANGED treeVars
      /\ pending' = pending \ {d} /\ Handled' = Handled \cup {d}
      /\ d \in DOMAIN tree /\ d \notin Handled /\ IsFirst(d, pending)
      /\ touched' \subseteq DOMAIN tree \cup {Root}
      /\ TouchedSound'
      /\ \A p \in Handled' : \A q \in pending' : Before(p, q)
  BY <1>1, HandleEffect
<1>3. tree' = tree /\ stage' = stage
  BY <1>2 DEF treeVars
<1>4. \A p \in Handled \cup {Root} : ~StartsWith(p, d)
  BY <1>2, NothingBeneathNext DEF Attaching
<1>5. placed = Handled /\ mounted = {Root} \cup {p \in Handled : ~IsMade(tree[p])}
  BY <1>2 DEF IInv, AttachSound, Attaching
<1>6. placed' = Handled' /\ mounted' = {Root} \cup {p \in Handled' : ~IsMade(tree'[p])}
  BY <1>1, <1>2, <1>3, <1>4, <1>5 DEF Attach
<1>7. PICK c \in Content(d) :
        at' = [p \in Paths |-> IF p = d THEN Shape(tree[d])
                               ELSE IF Beneath(p, d) THEN c[p] ELSE at[p]]
  BY DEF Attach
<1>8. c \in [{p \in Paths : Beneath(p, d)} -> Object]
  BY <1>7 DEF Content
<1>9. DOMAIN tree \subseteq Paths /\ tree[d] \in Mount /\ at \in [Paths -> Object]
  BY <1>2, MountTreeAssumption DEF IInv, TypeOK, TreeTypeOK
<1>10. at' \in [Paths -> Object]
  BY <1>7, <1>8, <1>9, ShapeIsObject
<1>11. \A p \in placed' : at'[p] = Shape(tree'[p])
  <2> SUFFICES ASSUME NEW p \in Handled' PROVE at'[p] = Shape(tree[p])
    BY <1>3, <1>6
  <2>1. p \in Paths
    BY <1>2, <1>9 DEF Handled
  <2>2. CASE p = d
    BY <1>7, <2>1, <2>2
  <2>3. CASE p # d
    <3>1. p \in Handled /\ ~Beneath(p, d) /\ at[p] = Shape(tree[p])
      BY <1>2, <1>4, <1>5, <2>3 DEF IInv, AttachSound, Attaching, Beneath
    <3> QED
      BY <1>7, <2>1, <2>3, <3>1
  <2> QED
    BY <2>2, <2>3
<1>12. AttachSound'
  BY <1>2, <1>3, <1>6, <1>11 DEF AttachSound, Attaching
<1>13. TypeOK'
  <2>1. pending' \subseteq DOMAIN tree' /\ placed' \subseteq DOMAIN tree'
        /\ mounted' \subseteq DOMAIN tree' \cup {Root}
    BY <1>2, <1>3, <1>6 DEF IInv, TypeOK, Handled
  <2> QED
    BY <1>2, <1>3, <1>10, <2>1 DEF IInv, TypeOK, TreeTypeOK, treeVars, walkVars
<1> QED
  BY <1>2, <1>3, <1>12, <1>13 DEF IInv, WalkSound, TreeSound, NothingUnderHost, RejectedForReason,
     LoopsSound, Attaching, treeVars

LEMMA MakeKeeps ==
  ASSUME IInv, NEW d \in pending, Make(d)
  PROVE  IInv'
<1>1. /\ Handle(d) /\ IsMade(tree[d])
      /\ at' = [at EXCEPT ![d] = Shape(tree[d])]
      /\ placed' = placed \cup {d} /\ mounted' = mounted
  BY DEF Make
<1>2. /\ stage = "attach" /\ UNCHANGED treeVars
      /\ pending' = pending \ {d} /\ Handled' = Handled \cup {d}
      /\ d \in DOMAIN tree /\ d \notin Handled
      /\ touched' \subseteq DOMAIN tree \cup {Root}
      /\ TouchedSound'
      /\ \A p \in Handled' : \A q \in pending' : Before(p, q)
  BY <1>1, HandleEffect
<1>3. tree' = tree /\ stage' = stage
  BY <1>2 DEF treeVars
<1>4. /\ placed = Handled /\ mounted = {Root} \cup {p \in placed : ~IsMade(tree[p])}
      /\ \A p \in placed : at[p] = Shape(tree[p])
  BY <1>2 DEF IInv, AttachSound, Attaching
<1>5. DOMAIN tree \subseteq Paths /\ tree[d] \in Mount /\ at \in [Paths -> Object]
  BY <1>2, MountTreeAssumption DEF IInv, TypeOK, TreeTypeOK
<1>6. at' \in [Paths -> Object]
  BY <1>1, <1>5, ShapeIsObject
<1>7. \A p \in placed' : at'[p] = Shape(tree'[p])
  <2> SUFFICES ASSUME NEW p \in placed' PROVE at'[p] = Shape(tree[p])
    BY <1>3
  <2>1. CASE p = d
    BY <1>1, <1>2, <1>5, <2>1
  <2>2. CASE p # d
    BY <1>1, <1>4, <1>5, <2>2
  <2> QED
    BY <2>1, <2>2
<1>8. mounted' = {Root} \cup {p \in placed' : ~IsMade(tree'[p])}
  BY <1>1, <1>3, <1>4
<1>9. AttachSound'
  BY <1>1, <1>2, <1>3, <1>4, <1>7, <1>8 DEF AttachSound, Attaching
<1>10. TypeOK'
  <2>1. pending' \subseteq DOMAIN tree' /\ placed' \subseteq DOMAIN tree'
        /\ mounted' \subseteq DOMAIN tree' \cup {Root}
    BY <1>1, <1>2, <1>3 DEF IInv, TypeOK
  <2> QED
    BY <1>2, <1>3, <1>6, <2>1 DEF IInv, TypeOK, TreeTypeOK, treeVars, walkVars
<1> QED
  BY <1>2, <1>3, <1>9, <1>10 DEF IInv, WalkSound, TreeSound, NothingUnderHost, RejectedForReason,
     LoopsSound, Attaching, treeVars

LEMMA StartAttachKeeps == IInv /\ StartAttach => IInv'
<1> SUFFICES ASSUME IInv, StartAttach PROVE IInv'
  OBVIOUS
<1>1. /\ stage = "built" /\ stage' = "attach" /\ pending' = DOMAIN tree
      /\ UNCHANGED <<tree, walkVars, hostMountCount, at, mounted, placed, touched>>
  BY DEF StartAttach
<1>2. NothingYet
  BY <1>1 DEF IInv, AttachSound, Attaching
<1>3. TypeOK'
  BY <1>1 DEF IInv, TypeOK, TreeTypeOK, walkVars
<1>4. TreeSound'
  BY <1>1 DEF IInv, NothingUnderHost, TreeSound
<1>5. AttachSound'
  BY <1>1, <1>2 DEF AttachSound, Attaching, NothingYet, Handled
<1> QED
  BY <1>1, <1>3, <1>4, <1>5 DEF IInv, WalkSound, NothingUnderHost, RejectedForReason,
     TouchedSound, LoopsSound

LEMMA EndKeeps == IInv /\ (Fail \/ Finish) => IInv'
<1> SUFFICES ASSUME IInv, Fail \/ Finish PROVE IInv'
  OBVIOUS
<1>1. /\ stage = "attach" /\ stage' \in {"failed", "attached"}
      /\ stage' = "attached" => pending = {}
      /\ UNCHANGED <<tree, walkVars, hostMountCount, attachVars>>
  BY DEF Fail, Finish
<1>2. TypeOK'
  BY <1>1 DEF IInv, TypeOK, TreeTypeOK, walkVars, attachVars
<1>3. AttachSound'
  BY <1>1 DEF IInv, AttachSound, Attaching, Handled, attachVars
<1> QED
  BY <1>1, <1>2, <1>3 DEF IInv, WalkSound, TreeSound, NothingUnderHost, RejectedForReason,
     TouchedSound, LoopsSound, Attaching, attachVars

LEMMA StutterKeeps == IInv /\ UNCHANGED vars => IInv'
  BY DEF IInv, TypeOK, TreeTypeOK, WalkSound, TreeSound, NothingUnderHost, RejectedForReason,
     AttachSound, TouchedSound, LoopsSound, NothingYet, Visited, Handled, Top,
     vars, treeVars, walkVars, attachVars

LEMMA Invariance == Spec => []IInv
<1>1. IInv /\ [Next]_vars => IInv'
  BY TreeStepKeeps, StartAttachKeeps, AttachKeeps, MakeKeeps, EndKeeps, StutterKeeps DEF Next
<1> QED
  BY Initially, <1>1, PTL DEF Spec

-----------------------------------------------------------------------------
\* Theorems.

\* Type correctness of the tree, its validator and the attachment.
THEOREM TypeCorrect == Spec => []TypeOK
  BY Invariance, PTL DEF IInv

\* The validator accepts no tree with a mount beneath one that the host backs,
\* although its stack forgets ancestors.
THEOREM AcceptedTreesAreSafe == Spec => []NothingUnderHost
  BY Invariance, PTL DEF IInv

\* The validator refuses no other tree.
THEOREM RejectedTreesAreNot == Spec => []RejectedForReason
  BY Invariance, PTL DEF IInv

\* Setting up the guest's root creates nothing in the host's file systems.
THEOREM HostStaysUntouched == Spec => []HostUntouched
<1>1. IInv => HostUntouched
  <2> SUFFICES ASSUME IInv, NEW q \in touched \ {Root} PROVE ~HostBacked(tree[q])
    BY DEF HostUntouched
  <2>1. q \in DOMAIN tree
    BY DEF IInv, TypeOK
  <2>2. PICK p \in DOMAIN tree : Beneath(p, q)
    BY DEF IInv, TouchedSound
  <2>3. stage \in Attaching
    BY DEF IInv, AttachSound, NothingYet
  <2> QED
    BY <2>1, <2>2, <2>3 DEF IInv, TreeSound
<1> QED
  BY Invariance, <1>1, PTL

\* A guest whose root is complete sees every entry of the tree, and no mount
\* hides another.
THEOREM GuestSeesWholeTree == Spec => []GuestSeesTree
<1>1. IInv => GuestSeesTree
  BY DEF IInv, AttachSound, LoopsSound, Attaching, Handled, GuestSeesTree
<1> QED
  BY Invariance, <1>1, PTL

-----------------------------------------------------------------------------
\* Induction, without an operator for the predicate: a set of counterexamples
\* has a least one.

\* Among finite sets one is minimal.
LEMMA MinimalSet ==
  ASSUME NEW F, F # {}, \A T \in F : IsFiniteSet(T)
  PROVE  \E T \in F : \A U \in F : U \subseteq T => U = T
<1> DEFINE S == UNION F
<1>1. IsWellFoundedOn(StrictSubsetOrdering(S), FiniteSubsetsOf(S))
  BY FS_StrictSubsetOrderingWellFounded
<1>2. F \subseteq FiniteSubsetsOf(S)
  BY DEF FiniteSubsetsOf
<1>3. PICK T \in F : \A U \in F : ~(<<U, T>> \in StrictSubsetOrdering(S))
  BY <1>1, <1>2, WFMin
<1>4. \A U \in F : <<U, T>> \in (SUBSET S) \X (SUBSET S)
  OBVIOUS
<1> QED
  BY <1>3, <1>4 DEF StrictSubsetOrdering

\* Among natural numbers one is the least.
LEMMA LeastNumber ==
  ASSUME NEW T \in SUBSET Nat, T # {}
  PROVE  \E x \in T : \A y \in T : x <= y
<1> DEFINE Upto(n) == {s \in T : s <= n}
           F == {Upto(n) : n \in T}
<1>1. \A n \in T : IsFiniteSet(Upto(n))
  <2> SUFFICES ASSUME NEW n \in T PROVE IsFiniteSet(Upto(n))
    OBVIOUS
  <2>1. Upto(n) \in SUBSET Nat /\ n \in Nat /\ \A s \in Upto(n) : s <= n
    OBVIOUS
  <2> HIDE DEF Upto
  <2> QED
    BY <2>1, FS_BoundedSetOfNaturals
<1>2. F # {} /\ \A U \in F : IsFiniteSet(U)
  BY <1>1
<1>3. PICK U \in F : \A V \in F : V \subseteq U => V = U
  <2> HIDE DEF F
  <2> QED
    BY <1>2, MinimalSet
<1>4. PICK x \in T : U = Upto(x)
  OBVIOUS
<1>5. \A y \in T : x <= y
  <2> SUFFICES ASSUME NEW y \in T, ~(x <= y) PROVE FALSE
    OBVIOUS
  <2>0. x \in Nat /\ y \in Nat /\ \A s \in T : s \in Nat
    OBVIOUS
  <2>1. \A s \in T : s <= y => s <= x
    BY <2>0
  <2>2. Upto(y) \subseteq Upto(x)
    BY <2>1
  <2>3. x \in Upto(x) /\ x \notin Upto(y)
    BY <2>0
  <2> QED
    BY <1>3, <1>4, <2>2, <2>3
<1> QED
  BY <1>5

-----------------------------------------------------------------------------
\* The order of paths is a strict total order, whatever their length.

LEMMA BeforeIrreflexive ==
  ASSUME NEW p \in Seq(Nat) PROVE ~Before(p, p)
<1> SUFFICES ASSUME NEW i \in 1 .. Len(p), i = Len(p) + 1 \/ p[i] < p[i] PROVE FALSE
  BY DEF Before
<1>1. Len(p) \in Nat /\ p[i] \in Nat
  OBVIOUS
<1> QED
  BY <1>1

LEMMA BeforeTransitive ==
  ASSUME NEW p \in Seq(Nat), NEW q \in Seq(Nat), NEW r \in Seq(Nat),
         Before(p, q), Before(q, r)
  PROVE  Before(p, r)
<1>1. PICK i \in 1 .. Len(q) :
        /\ \A j \in 1 .. i - 1 : j <= Len(p) /\ p[j] = q[j]
        /\ i = Len(p) + 1 \/ (i <= Len(p) /\ p[i] < q[i])
  BY DEF Before
<1>2. PICK k \in 1 .. Len(r) :
        /\ \A j \in 1 .. k - 1 : j <= Len(q) /\ q[j] = r[j]
        /\ k = Len(q) + 1 \/ (k <= Len(q) /\ q[k] < r[k])
  BY DEF Before
<1>3. Len(p) \in Nat /\ Len(q) \in Nat /\ Len(r) \in Nat /\ i \in Nat /\ k \in Nat
  OBVIOUS
<1>4. \A j \in 1 .. Len(p) : p[j] \in Nat
  OBVIOUS
<1>5. \A j \in 1 .. Len(q) : q[j] \in Nat
  OBVIOUS
<1>6. \A j \in 1 .. Len(r) : r[j] \in Nat
  OBVIOUS
<1>7. CASE i < k
  <2>1. i \in 1 .. k - 1 /\ i \in 1 .. Len(r) /\ q[i] = r[i]
    BY <1>2, <1>3, <1>7
  <2>2. \A j \in 1 .. i - 1 : j <= Len(p) /\ p[j] = r[j]
    <3> SUFFICES ASSUME NEW j \in 1 .. i - 1 PROVE j <= Len(p) /\ p[j] = r[j]
      OBVIOUS
    <3>1. j \in 1 .. k - 1
      BY <1>3, <1>7
    <3> QED
      BY <1>1, <1>2, <3>1
  <2>3. i = Len(p) + 1 \/ (i <= Len(p) /\ p[i] < r[i])
    BY <1>1, <2>1
  <2> QED
    BY <2>1, <2>2, <2>3 DEF Before
<1>8. CASE i = k
  <2>1. \A j \in 1 .. k - 1 : j <= Len(p) /\ p[j] = r[j]
    BY <1>1, <1>2, <1>8
  <2>2. k <= Len(q)
    BY <1>8
  <2>3. k = Len(p) + 1 \/ (k <= Len(p) /\ p[k] < r[k])
    <3>1. q[k] < r[k] /\ k \in 1 .. Len(q)
      BY <1>2, <1>3, <2>2
    <3>2. CASE k = Len(p) + 1
      BY <3>2
    <3>3. CASE k <= Len(p) /\ p[k] < q[k]
      <4>1. p[k] \in Nat /\ q[k] \in Nat /\ r[k] \in Nat
        BY <1>3, <1>4, <1>5, <1>6, <3>1, <3>3
      <4>2. p[k] < r[k]
        BY <3>1, <3>3, <4>1, SMTT(30)
      <4> QED
        BY <3>3, <4>2
    <3> QED
      BY <1>1, <1>8, <3>2, <3>3
  <2> QED
    BY <2>1, <2>3 DEF Before
<1>9. CASE k < i
  <2>1. k \in 1 .. i - 1 /\ k <= Len(p) /\ p[k] = q[k] /\ k <= Len(q)
    BY <1>1, <1>3, <1>9
  <2>2. \A j \in 1 .. k - 1 : j <= Len(p) /\ p[j] = r[j]
    <3> SUFFICES ASSUME NEW j \in 1 .. k - 1 PROVE j <= Len(p) /\ p[j] = r[j]
      OBVIOUS
    <3>1. j \in 1 .. i - 1
      BY <1>3, <1>9
    <3> QED
      BY <1>1, <1>2, <3>1
  <2>3. p[k] < r[k]
    BY <1>2, <1>3, <2>1
  <2> QED
    BY <2>1, <2>2, <2>3 DEF Before
<1> QED
  BY <1>3, <1>7, <1>8, <1>9

\* Two paths first differ somewhere, or one is a prefix of the other.
LEMMA BeforeTotal ==
  ASSUME NEW p \in Seq(Nat), NEW q \in Seq(Nat), p # q
  PROVE  Before(p, q) \/ Before(q, p)
<1> DEFINE Differ == {i \in Nat \ {0} :
              \/ i = Len(p) + 1 /\ i <= Len(q)
              \/ i = Len(q) + 1 /\ i <= Len(p)
              \/ i <= Len(p) /\ i <= Len(q) /\ p[i] # q[i]}
<1>1. Len(p) \in Nat /\ Len(q) \in Nat
  OBVIOUS
<1>2. Differ # {}
  <2>1. CASE Len(p) < Len(q)
    <3>1. Len(p) + 1 \in Differ
      BY <1>1, <2>1
    <3> QED
      BY <3>1
  <2>2. CASE Len(q) < Len(p)
    <3>1. Len(q) + 1 \in Differ
      BY <1>1, <2>2
    <3> QED
      BY <3>1
  <2>3. CASE Len(p) = Len(q)
    <3>1. PICK i \in 1 .. Len(p) : p[i] # q[i]
      BY <2>3, SeqEqual
    <3>2. i \in Differ
      BY <1>1, <2>3, <3>1
    <3> QED
      BY <3>2
  <2> QED
    BY <1>1, <2>1, <2>2, <2>3
<1>3. PICK i \in Differ : \A j \in Differ : i <= j
  <2>1. Differ \in SUBSET Nat
    OBVIOUS
  <2> HIDE DEF Differ
  <2> QED
    BY <1>2, <2>1, LeastNumber
<1>4. \A j \in 1 .. i - 1 : j \notin Differ
  BY <1>3
<1>5. \A j \in 1 .. i - 1 : j <= Len(p) /\ j <= Len(q)
  <2> SUFFICES ASSUME NEW j \in 1 .. i - 1 PROVE j <= Len(p) /\ j <= Len(q)
    OBVIOUS
  <2>1. i \in Nat /\ j \in Nat /\ (i <= Len(p) + 1 \/ i <= Len(q) + 1)
    BY <1>1
  <2>2. i <= Len(p) + 1 /\ i <= Len(q) + 1
    BY <1>1, <2>1
  <2> QED
    BY <1>1, <2>1, <2>2
<1>6. \A j \in 1 .. i - 1 : p[j] = q[j]
  BY <1>4, <1>5
<1>7. CASE i = Len(p) + 1 /\ i <= Len(q)
  <2>1. i \in 1 .. Len(q) /\ \A j \in 1 .. i - 1 : j <= Len(p) /\ p[j] = q[j]
    BY <1>1, <1>5, <1>6, <1>7
  <2> QED
    BY <2>1, <1>7 DEF Before
<1>8. CASE i = Len(q) + 1 /\ i <= Len(p)
  <2>1. i \in 1 .. Len(p) /\ \A j \in 1 .. i - 1 : j <= Len(q) /\ q[j] = p[j]
    BY <1>1, <1>5, <1>6, <1>8
  <2> QED
    BY <2>1, <1>8 DEF Before
<1>9. CASE i <= Len(p) /\ i <= Len(q) /\ p[i] # q[i]
  <2>1. p[i] \in Nat /\ q[i] \in Nat /\ i \in 1 .. Len(p) /\ i \in 1 .. Len(q)
    BY <1>1, <1>9
  <2>2. p[i] < q[i] \/ q[i] < p[i]
    BY <1>9, <2>1
  <2> QED
    BY <1>5, <1>6, <2>1, <2>2 DEF Before
<1> QED
  BY <1>7, <1>8, <1>9

-----------------------------------------------------------------------------
\* Ranks: the slots of a vector, each for one entry of the tree.

\* What Rank counts.
Earlier(p) == {q \in DOMAIN tree \ {p} : Before(q, p)}

FiniteTree == IsFiniteSet(DOMAIN tree) /\ DOMAIN tree \subseteq Seq(Nat)

LEMMA RankRange ==
  ASSUME FiniteTree, NEW p \in DOMAIN tree
  PROVE  Rank(p) \in 0 .. Cardinality(DOMAIN tree) - 1
<1>1. IsFiniteSet(DOMAIN tree \ {p}) /\ Cardinality(DOMAIN tree \ {p}) = Cardinality(DOMAIN tree) - 1
  BY FS_RemoveElement DEF FiniteTree
<1>2. Earlier(p) \in SUBSET (DOMAIN tree \ {p})
  BY DEF Earlier
<1>3. IsFiniteSet(Earlier(p)) /\ Cardinality(Earlier(p)) <= Cardinality(DOMAIN tree \ {p})
  BY <1>1, <1>2, FS_Subset
<1>4. Cardinality(Earlier(p)) \in Nat /\ Cardinality(DOMAIN tree) \in Nat
  BY <1>3, FS_CardinalityType DEF FiniteTree
<1>5. Rank(p) = Cardinality(Earlier(p))
  BY DEF Rank, Earlier
<1> QED
  BY <1>1, <1>3, <1>4, <1>5

LEMMA RankMonotone ==
  ASSUME FiniteTree, NEW p \in DOMAIN tree, NEW q \in DOMAIN tree, Before(p, q)
  PROVE  Rank(p) < Rank(q)
<1>1. p \in Seq(Nat) /\ q \in Seq(Nat) /\ p # q
  BY BeforeIrreflexive DEF FiniteTree
<1>2. Earlier(p) \subseteq Earlier(q)
  <2> SUFFICES ASSUME NEW r \in Earlier(p) PROVE r \in Earlier(q)
    OBVIOUS
  <2>1. r \in DOMAIN tree /\ r \in Seq(Nat) /\ Before(r, p)
    BY DEF Earlier, FiniteTree
  <2>2. Before(r, q)
    BY <1>1, <2>1, BeforeTransitive
  <2>3. r # q
    BY <1>1, <2>2, BeforeIrreflexive
  <2> QED
    BY <2>1, <2>2, <2>3 DEF Earlier
<1>3. p \in Earlier(q) /\ p \notin Earlier(p)
  BY <1>1 DEF Earlier
<1>4. IsFiniteSet(Earlier(q))
  <2>1. Earlier(q) \in SUBSET DOMAIN tree
    BY DEF Earlier
  <2> QED
    BY <2>1, FS_Subset DEF FiniteTree
<1>5. /\ IsFiniteSet(Earlier(p)) /\ Cardinality(Earlier(p)) <= Cardinality(Earlier(q))
      /\ Cardinality(Earlier(q)) = Cardinality(Earlier(p)) => Earlier(q) = Earlier(p)
  BY <1>2, <1>4, FS_Subset
<1>6. Cardinality(Earlier(p)) \in Nat /\ Cardinality(Earlier(q)) \in Nat
  BY <1>4, <1>5, FS_CardinalityType
<1>7. Cardinality(Earlier(q)) # Cardinality(Earlier(p))
  BY <1>3, <1>5
<1>8. Cardinality(Earlier(p)) < Cardinality(Earlier(q))
  BY <1>5, <1>6, <1>7
<1> QED
  BY <1>8 DEF Rank, Earlier

LEMMA RankInjective ==
  ASSUME FiniteTree, NEW p \in DOMAIN tree, NEW q \in DOMAIN tree, p # q
  PROVE  Rank(p) # Rank(q)
<1>1. Before(p, q) \/ Before(q, p)
  BY BeforeTotal DEF FiniteTree
<1>2. Rank(p) < Rank(q) \/ Rank(q) < Rank(p)
  BY <1>1, RankMonotone
<1>3. Rank(p) \in Int /\ Rank(q) \in Int
  <2>1. /\ Rank(p) \in 0 .. Cardinality(DOMAIN tree) - 1
        /\ Rank(q) \in 0 .. Cardinality(DOMAIN tree) - 1
    BY RankRange
  <2> QED
    BY <2>1
<1> QED
  BY <1>2, <1>3

\* The slots are used without a gap.
LEMMA RanksAreAll ==
  ASSUME FiniteTree
  PROVE  {Rank(p) : p \in DOMAIN tree} = 0 .. Cardinality(DOMAIN tree) - 1
<1> DEFINE D == DOMAIN tree
           N == Cardinality(D)
           f == [p \in D |-> Rank(p)]
<1>1. IsFiniteSet(D) /\ N \in Nat
  BY FS_CardinalityType DEF FiniteTree
<1>2. IsFiniteSet(0 .. N - 1) /\ Cardinality(0 .. N - 1) = N
  <2>1. /\ IsFiniteSet(0 .. N - 1)
        /\ Cardinality(0 .. N - 1) = IF 0 > N - 1 THEN 0 ELSE (N - 1) - 0 + 1
    BY <1>1, FS_Interval, SMTT(30)
  <2> QED
    BY <1>1, <2>1
<1>3. \A p \in D : f[p] = Rank(p) /\ Rank(p) \in 0 .. N - 1
  BY RankRange
<1>4. \A p, q \in D : f[p] = f[q] => p = q
  BY <1>3, RankInjective
<1>5. f \in Injection(D, 0 .. N - 1)
  BY <1>3, <1>4 DEF Injection, IsInjective
<1>6. f \in Surjection(D, 0 .. N - 1)
  <2>1. Cardinality(D) = Cardinality(0 .. N - 1)
    BY <1>2
  <2> HIDE DEF f, D, N
  <2> QED
    BY <1>1, <1>2, <1>5, <2>1, FS_Injection
<1>7. \A i \in 0 .. N - 1 : \E p \in D : f[p] = i
  BY <1>6 DEF Surjection
<1> QED
  BY <1>3, <1>7

-----------------------------------------------------------------------------
\* The inductive invariant of the resolution.

AnyLayer ==
  [path : Paths, role : {"lower", "data", "upper"}, n : Nat, form : {"namespace", "mount"}]

BeforeResolving == {"built", "configure", "walk", "rejected"}

\* What is bound from the host, put together, or made anew.
Bound(S) == {d \in S : IsBind(tree[d])}
Overlaid(S) == {d \in S : IsOverlay(tree[d])}
\* The entries that a vector holds.
Elements(s) == {s[i] : i \in DOMAIN s}

Slot == [path : DOMAIN tree, layers : Seq(AnyLayer), genuine : BOOLEAN]

SlotsTyped == slots \in [DOMAIN slots -> Slot]

ResolutionTypeOK ==
  /\ TreeTypeOK
  /\ stage \in BeforeResolving \cup Resolving \cup {"ready", "failed"}
  /\ namespaces \in Seq(DOMAIN tree)
  /\ layers \in Seq(AnyLayer)
  /\ overlays \in Seq(DOMAIN tree)
  /\ cursor \in Nat /\ nextLayer \in Nat /\ nResolved \in Nat
  /\ SlotsTyped
  /\ found \in {"none", "genuine", "other"}
  /\ replaced \subseteq Paths

\* Nothing has been written before the policy is spawned with.
NothingResolved ==
  stage \in BeforeResolving =>
    /\ namespaces = <<>> /\ layers = <<>> /\ overlays = <<>> /\ slots = <<>>
    /\ nextLayer = 0 /\ found = "none"

\* The walks go through the tree in its order, and to its end.
InOrder ==
  /\ stage \in {"walk", "collect"} => \A p \in Visited : \A q \in unvisited : Before(p, q)
  /\ stage \in {"built", "configure"} => unvisited = {}

\* before[p] mounts are enough for what is walked before p.
Budget(before, S, total) ==
  /\ before \in [S -> Nat]
  /\ \A p \in S :
       /\ before[p] + HostMounts(tree[p]) <= total
       /\ \A q \in S : Before(p, q) => before[p] + HostMounts(tree[p]) <= before[q]

\* What the validator has counted is room for the layers of what is not yet
\* collected: the walk before the clone has met the entries in the same order.
CountSound ==
  /\ stage = "walk" => \E before \in [Visited -> Nat] : Budget(before, Visited, counted)
  /\ stage = "built" =>
       \E before \in [DOMAIN tree -> Nat] : Budget(before, DOMAIN tree, hostMountCount)
  /\ stage = "collect" =>
       \E before \in [DOMAIN tree -> Nat] :
         /\ Budget(before, DOMAIN tree, hostMountCount)
         /\ \A p \in unvisited : Len(layers) <= before[p]
  /\ stage \in Resolving => Len(layers) <= hostMountCount

Fresh(S) == {d \in S : ~IsBind(tree[d]) /\ ~IsOverlay(tree[d])}

\* Every source is in one vector, once, and what is not is made in the last loop.
EntriesCounted ==
  stage \in Resolving =>
    LET seen == IF stage = "collect" THEN Visited ELSE DOMAIN tree
    IN  Len(namespaces) + Len(overlays) = Cardinality(Bound(seen) \cup Overlaid(seen))

\* n_resolved, loop by loop.
ResolvedCounted ==
  /\ stage \in {"convert", "overlays"} => nResolved = Len(namespaces)
  /\ stage = "fresh" =>
       nResolved = Len(namespaces) + Len(overlays) + Cardinality(Fresh(Visited))

\* The vectors hold what has been walked, and nothing else.
Gathered ==
  stage \in Resolving =>
    LET seen == IF stage = "collect" THEN Visited ELSE DOMAIN tree
    IN  Elements(namespaces) = Bound(seen) /\ Elements(overlays) = Overlaid(seen)

\* A loop goes no further than one step beyond the end of its vector.
CursorInRange ==
  /\ stage = "capture" => cursor \in 1 .. Len(namespaces) + 1
  /\ stage = "capture" /\ found # "none" => cursor <= Len(namespaces)
  /\ stage = "convert" => cursor \in 1 .. Len(layers) + 1
  /\ stage = "overlays" => cursor \in 1 .. Len(overlays) + 1
  /\ stage \in Resolving \ {"capture"} => found = "none"

\* The entries that have been resolved.
Resolved ==
  CASE stage = "capture" -> {namespaces[i] : i \in 1 .. cursor - 1}
    [] stage = "convert" -> Bound(DOMAIN tree)
    [] stage = "overlays" -> Bound(DOMAIN tree) \cup {overlays[i] : i \in 1 .. cursor - 1}
    [] stage = "fresh" -> Bound(DOMAIN tree) \cup Overlaid(DOMAIN tree) \cup Visited
    [] stage = "ready" -> DOMAIN tree
    [] OTHER -> {}

\* What has been resolved is in its slot, and the other slots are not written.
SlotsSound ==
  stage \in Resolving \cup {"ready"} =>
    /\ DOMAIN slots = {Rank(p) : p \in Resolved}
    /\ \A p \in Resolved : slots[Rank(p)].path = p

\* What the layer at an index of the vector is by now.
FormAt(i) ==
  IF stage = "overlays" \/ (stage = "convert" /\ i < cursor) THEN "mount" ELSE "namespace"

\* The layers of one overlay after the other, from[i] before those of overlay i.
Laid(from) ==
  /\ from[1] = 0 /\ from[Len(overlays) + 1] = Len(layers)
  /\ \A i \in 1 .. Len(overlays) :
       /\ from[i + 1] = from[i] + LayersUsed(overlays[i])
       /\ \A n \in 1 .. LayersUsed(overlays[i]) :
            layers[from[i] + n] = LayersOf(overlays[i], FormAt(from[i] + n))[n]

\* mount_i is between the layers of two overlays, those of the next one ahead.
LayersSound ==
  stage \in Resolving \ {"fresh"} =>
    \E from \in [1 .. Len(overlays) + 1 -> 0 .. Len(layers)] :
      /\ Laid(from)
      /\ nextLayer = IF stage = "overlays" THEN from[cursor] ELSE 0

\* The invariant that every step keeps.
ResolutionIInv ==
  /\ ResolutionTypeOK
  /\ IsFiniteSet(DOMAIN tree)
  /\ NothingResolved
  /\ InOrder
  /\ CountSound
  /\ EntriesCounted
  /\ ResolvedCounted
  /\ Gathered
  /\ CursorInRange
  /\ SlotsSound
  /\ LayersSound
  /\ OverlaysGetTheirLayers
  /\ FilesAreGenuine

-----------------------------------------------------------------------------
\* The tree.

LEMMA EntryIsMount ==
  ASSUME TreeTypeOK, NEW p \in DOMAIN tree
  PROVE  tree[p] \in Mount /\ p \in Paths /\ p \in Seq(Nat)
  BY MountTreeAssumption DEF TreeTypeOK

LEMMA TreeIsFinite ==
  ASSUME TreeTypeOK, IsFiniteSet(DOMAIN tree) PROVE FiniteTree
  BY MountTreeAssumption DEF TreeTypeOK, FiniteTree

-----------------------------------------------------------------------------
\* Layers.

LEMMA LayersOfOverlay ==
  ASSUME NEW p \in Paths, tree[p] \in Mount, NEW form \in {"namespace", "mount"}
  PROVE  /\ LayersUsed(p) \in Nat
         /\ LayersOf(p, form) \in Seq(AnyLayer)
         /\ Len(LayersOf(p, form)) = LayersUsed(p)
         /\ \A n \in 1 .. LayersUsed(p) :
              LayersOf(p, form)[n] =
                IF n <= tree[p].lower THEN Layer(p, "lower", n, form)
                ELSE IF n <= tree[p].lower + tree[p].data
                     THEN Layer(p, "data", n - tree[p].lower, form)
                     ELSE Layer(p, "upper", 1, form)
<1> DEFINE lower == [n \in 1 .. tree[p].lower |-> Layer(p, "lower", n, form)]
           data == [n \in 1 .. tree[p].data |-> Layer(p, "data", n, form)]
           upper == IF tree[p].upper = "fd" THEN <<Layer(p, "upper", 1, form)>> ELSE <<>>
<1>1. tree[p].lower \in Nat /\ tree[p].data \in Nat
  BY DEF Mount
<1>2. \A n \in Nat : \A role \in {"lower", "data", "upper"} : Layer(p, role, n, form) \in AnyLayer
  BY DEF AnyLayer, Layer
<1>3. lower \in Seq(AnyLayer) /\ Len(lower) = tree[p].lower
  BY <1>1, <1>2
<1>4. data \in Seq(AnyLayer) /\ Len(data) = tree[p].data
  BY <1>1, <1>2
<1>5. /\ upper \in Seq(AnyLayer)
      /\ Len(upper) = IF tree[p].upper = "fd" THEN 1 ELSE 0
      /\ Len(upper) = 1 => upper[1] = Layer(p, "upper", 1, form)
  BY <1>2
<1>6. LayersOf(p, form) = (lower \o data) \o upper
  BY DEF LayersOf
<1>7. LayersUsed(p) = Len(lower) + Len(data) + Len(upper)
  BY <1>3, <1>4, <1>5 DEF LayersUsed
<1>8. /\ \A n \in 1 .. tree[p].lower : lower[n] = Layer(p, "lower", n, form)
      /\ \A n \in 1 .. tree[p].data : data[n] = Layer(p, "data", n, form)
  OBVIOUS
<1>9. LayersUsed(p) \in Nat
  BY <1>1, <1>3, <1>4, <1>5, <1>7
<1> HIDE DEF lower, data, upper
<1>10. /\ lower \o data \in Seq(AnyLayer)
       /\ Len(lower \o data) = Len(lower) + Len(data)
       /\ \A n \in 1 .. Len(lower) + Len(data) :
            (lower \o data)[n] = IF n <= Len(lower) THEN lower[n] ELSE data[n - Len(lower)]
  BY <1>3, <1>4, ConcatProperties
<1>11. /\ LayersOf(p, form) \in Seq(AnyLayer)
       /\ Len(LayersOf(p, form)) = Len(lower \o data) + Len(upper)
       /\ \A n \in 1 .. Len(lower \o data) + Len(upper) :
            LayersOf(p, form)[n] = IF n <= Len(lower \o data) THEN (lower \o data)[n]
                                   ELSE upper[n - Len(lower \o data)]
  <2> DEFINE both == lower \o data
  <2>1. both \in Seq(AnyLayer) /\ LayersOf(p, form) = both \o upper
    BY <1>6, <1>10
  <2> HIDE DEF both
  <2>2. /\ both \o upper \in Seq(AnyLayer)
        /\ Len(both \o upper) = Len(both) + Len(upper)
        /\ \A n \in 1 .. Len(both) + Len(upper) :
             (both \o upper)[n] = IF n <= Len(both) THEN both[n] ELSE upper[n - Len(both)]
    BY <1>5, <2>1, ConcatProperties
  <2> QED
    BY <2>1, <2>2 DEF both
<1>12. ASSUME NEW n \in 1 .. LayersUsed(p)
       PROVE  LayersOf(p, form)[n] =
                IF n <= tree[p].lower THEN Layer(p, "lower", n, form)
                ELSE IF n <= tree[p].lower + tree[p].data
                     THEN Layer(p, "data", n - tree[p].lower, form)
                     ELSE Layer(p, "upper", 1, form)
  <2>1. n \in 1 .. Len(lower \o data) + Len(upper) /\ n \in Int
    BY <1>7, <1>10
  <2>2. CASE n <= tree[p].lower
    <3>1. n \in 1 .. tree[p].lower /\ n \in 1 .. Len(lower) + Len(data) /\ n <= Len(lower \o data)
      BY <1>1, <1>3, <1>4, <1>10, <2>1, <2>2
    <3> QED
      BY <1>3, <1>8, <1>10, <1>11, <2>1, <2>2, <3>1
  <2>3. CASE ~(n <= tree[p].lower) /\ n <= tree[p].lower + tree[p].data
    <3>1. /\ n \in 1 .. Len(lower) + Len(data) /\ n <= Len(lower \o data)
          /\ n - tree[p].lower \in 1 .. tree[p].data
      BY <1>1, <1>3, <1>4, <1>10, <2>1, <2>3, SMTT(30)
    <3> QED
      BY <1>3, <1>8, <1>10, <1>11, <2>1, <2>3, <3>1
  <2>4. CASE ~(n <= tree[p].lower) /\ ~(n <= tree[p].lower + tree[p].data)
    <3>1. ~(n <= Len(lower \o data)) /\ Len(upper) = 1 /\ n - Len(lower \o data) = 1
      BY <1>1, <1>3, <1>4, <1>5, <1>10, <2>1, <2>4
    <3> QED
      BY <1>5, <1>11, <2>1, <2>4, <3>1
  <2> QED
    BY <2>2, <2>3, <2>4
<1> QED
  BY <1>7, <1>9, <1>10, <1>11, <1>12

\* Converting a layer changes its form and nothing else.
LEMMA ConvertedLayer ==
  ASSUME NEW p \in Paths, tree[p] \in Mount, NEW n \in 1 .. LayersUsed(p)
  PROVE  [LayersOf(p, "namespace")[n] EXCEPT !.form = "mount"] = LayersOf(p, "mount")[n]
<1>1. ASSUME NEW role, NEW m
      PROVE  [Layer(p, role, m, "namespace") EXCEPT !.form = "mount"] = Layer(p, role, m, "mount")
  BY DEF Layer
<1>2. \A form \in {"namespace", "mount"} : LayersOf(p, form)[n] =
        IF n <= tree[p].lower THEN Layer(p, "lower", n, form)
        ELSE IF n <= tree[p].lower + tree[p].data
             THEN Layer(p, "data", n - tree[p].lower, form)
             ELSE Layer(p, "upper", 1, form)
  BY LayersOfOverlay
<1> QED
  BY <1>1, <1>2

\* The host's mounts of an overlay are at least the layers it uses.
LEMMA LayersAreCounted ==
  ASSUME NEW p, tree[p] \in Mount, IsOverlay(tree[p])
  PROVE  LayersUsed(p) <= HostMounts(tree[p])
  BY DEF Mount, IsOverlay, LayersUsed, HostMounts

LEMMA HostMountsIsNumber ==
  ASSUME NEW m \in Mount PROVE HostMounts(m) \in Nat
  BY DEF Mount, HostMounts

LEMMA Cut ==
  ASSUME NEW S, NEW s \in Seq(S), NEW k \in Nat, NEW n \in Nat, k + n <= Len(s)
  PROVE  /\ SubSeq(s, k + 1, k + n) \in Seq(S)
         /\ Len(SubSeq(s, k + 1, k + n)) = n
         /\ \A i \in 1 .. n : SubSeq(s, k + 1, k + n)[i] = s[k + i]
<1> DEFINE first == k + 1
           last == k + n
<1>1. first \in Int /\ last \in Int
  OBVIOUS
<1>2. \A i \in first .. last : s[i] \in S
  OBVIOUS
<1>3. last - first + 1 = n /\ (~(first <= last) => n = 0)
  OBVIOUS
<1>4. \A i \in 1 .. n : first + i - 1 = k + i
  OBVIOUS
<1> HIDE DEF first, last
<1>5. /\ SubSeq(s, first, last) \in Seq(S)
      /\ Len(SubSeq(s, first, last)) = IF first <= last THEN last - first + 1 ELSE 0
      /\ \A i \in 1 .. last - first + 1 : SubSeq(s, first, last)[i] = s[first + i - 1]
  BY <1>1, <1>2, SubSeqProperties, SMTT(30)
<1>6. /\ SubSeq(s, first, last) \in Seq(S)
      /\ Len(SubSeq(s, first, last)) = n
      /\ \A i \in 1 .. n : SubSeq(s, first, last)[i] = s[k + i]
  BY <1>3, <1>4, <1>5
<1> QED
  BY <1>6 DEF first, last

\* The layers of an overlay, cut out of the vector.
LEMMA CutLayers ==
  ASSUME layers \in Seq(AnyLayer), NEW p \in Paths, tree[p] \in Mount, NEW k \in Nat,
         k + LayersUsed(p) <= Len(layers),
         \A n \in 1 .. LayersUsed(p) : layers[k + n] = LayersOf(p, "mount")[n]
  PROVE  SubSeq(layers, k + 1, k + LayersUsed(p)) = LayersOf(p, "mount")
<1> DEFINE cut == SubSeq(layers, k + 1, k + LayersUsed(p))
<1>1. /\ LayersUsed(p) \in Nat /\ LayersOf(p, "mount") \in Seq(AnyLayer)
      /\ Len(LayersOf(p, "mount")) = LayersUsed(p)
  BY LayersOfOverlay
<1>2. /\ cut \in Seq(AnyLayer) /\ Len(cut) = LayersUsed(p)
      /\ \A i \in 1 .. LayersUsed(p) : cut[i] = layers[k + i]
  BY <1>1, Cut
<1> HIDE DEF cut
<1>3. cut = LayersOf(p, "mount")
  BY <1>1, <1>2, SeqEqual
<1> QED
  BY <1>3 DEF cut

\* Nothing that depends on the tree alone changes with the rest.
LEMMA TreeFixed ==
  ASSUME UNCHANGED tree
  PROVE  /\ \A p : Rank(p)' = Rank(p)
         /\ \A p : LayersUsed(p)' = LayersUsed(p)
         /\ \A p, form : LayersOf(p, form)' = LayersOf(p, form)
         /\ \A S : Bound(S)' = Bound(S) /\ Overlaid(S)' = Overlaid(S) /\ Fresh(S)' = Fresh(S)
  BY DEF Rank, LayersUsed, LayersOf, Bound, Overlaid, Fresh

LEMMA BeforeAsymmetric ==
  ASSUME NEW p \in Seq(Nat), NEW q \in Seq(Nat), Before(p, q) PROVE ~Before(q, p)
  BY BeforeIrreflexive, BeforeTransitive

LEMMA ElementsOfAppend ==
  ASSUME NEW S, NEW s \in Seq(S), NEW e \in S
  PROVE  Elements(Append(s, e)) = Elements(s) \cup {e}
<1>1. /\ Append(s, e) \in Seq(S) /\ Len(Append(s, e)) = Len(s) + 1
      /\ \A i \in 1 .. Len(s) : Append(s, e)[i] = s[i]
      /\ Append(s, e)[Len(s) + 1] = e
  BY AppendProperties
<1>2. DOMAIN Append(s, e) = 1 .. Len(s) + 1 /\ DOMAIN s = 1 .. Len(s) /\ Len(s) \in Nat
  BY <1>1
<1>3. 1 .. Len(s) + 1 = (1 .. Len(s)) \cup {Len(s) + 1}
  BY <1>2
<1> QED
  BY <1>1, <1>2, <1>3 DEF Elements

LEMMA NextWalked ==
  ASSUME unvisited \subseteq DOMAIN tree, NEW d \in unvisited,
         unvisited' = unvisited \ {d}, UNCHANGED tree
  PROVE  /\ Visited' = Visited \cup {d} /\ d \notin Visited /\ d \in DOMAIN tree
         /\ unvisited' \subseteq DOMAIN tree'
  BY DEF Visited

LEMMA OrderKept ==
  ASSUME ResolutionIInv, stage \in {"walk", "collect"}, NEW d, IsFirst(d, unvisited),
         unvisited' = unvisited \ {d}, UNCHANGED <<tree, stage>>
  PROVE  InOrder'
<1>1. d \in unvisited /\ unvisited \subseteq DOMAIN tree
  BY DEF IsFirst, ResolutionIInv, ResolutionTypeOK, TreeTypeOK
<1>2. Visited' = Visited \cup {d}
  BY <1>1, NextWalked
<1>3. \A p \in Visited : \A q \in unvisited : Before(p, q)
  BY DEF ResolutionIInv, InOrder
<1>4. \A q \in unvisited \ {d} : Before(d, q)
  BY DEF IsFirst
<1>5. \A p \in Visited' : \A q \in unvisited' : Before(p, q)
  BY <1>1, <1>2, <1>3, <1>4
<1> QED
  BY <1>5 DEF InOrder

\* A loop that has entries to walk does not change what it has not reached.
LEMMA LaterKeeps ==
  ASSUME ResolutionIInv, stage \in Resolving, stage' \in Resolving \ {"collect"},
         stage = "collect" => unvisited = {},
         UNCHANGED <<tree, hostMountCount, namespaces, overlays>>, Len(layers') = Len(layers)
  PROVE  /\ IsFiniteSet(DOMAIN tree)' /\ NothingResolved' /\ InOrder' /\ CountSound'
         /\ EntriesCounted' /\ Gathered'
<1>1. stage' \notin BeforeResolving \cup {"collect"}
  BY DEF Resolving, BeforeResolving
<1>2. IsFiniteSet(DOMAIN tree)'
  BY DEF ResolutionIInv
<1>3. NothingResolved' /\ InOrder'
  BY <1>1 DEF NothingResolved, InOrder, BeforeResolving
<1>4. CountSound'
  BY <1>1 DEF ResolutionIInv, CountSound, BeforeResolving
<1>5. (IF stage = "collect" THEN Visited ELSE DOMAIN tree) = DOMAIN tree
  BY DEF Visited
<1>6. EntriesCounted'
  <2>1. (Bound(DOMAIN tree) \cup Overlaid(DOMAIN tree))' = Bound(DOMAIN tree) \cup Overlaid(DOMAIN tree)
    BY DEF Bound, Overlaid
  <2>2. Len(namespaces) + Len(overlays) = Cardinality(Bound(DOMAIN tree) \cup Overlaid(DOMAIN tree))
    BY <1>5 DEF ResolutionIInv, EntriesCounted
  <2> QED
    BY <1>1, <2>1, <2>2 DEF EntriesCounted
<1>7. Gathered'
  BY <1>1, <1>5, TreeFixed DEF ResolutionIInv, Gathered
<1> QED
  BY <1>2, <1>3, <1>4, <1>6, <1>7

-----------------------------------------------------------------------------
\* Slots.

LEMMA SlotsStay ==
  ASSUME ResolutionIInv, UNCHANGED <<tree, slots>>
  PROVE  SlotsTyped' /\ OverlaysGetTheirLayers' /\ FilesAreGenuine'
<1>1. OverlaysGetTheirLayers'
  BY TreeFixed DEF ResolutionIInv, OverlaysGetTheirLayers
<1>2. FilesAreGenuine'
  BY DEF ResolutionIInv, FilesAreGenuine
<1>3. SlotsTyped'
  BY DEF ResolutionIInv, ResolutionTypeOK, SlotsTyped, Slot
<1> QED
  BY <1>1, <1>2, <1>3

LEMMA ResolvedStay ==
  ASSUME ResolutionIInv, UNCHANGED <<tree, slots>>, stage \in Resolving \cup {"ready"},
         Resolved' = Resolved
  PROVE  SlotsSound'
<1>1. /\ DOMAIN slots = {Rank(p) : p \in Resolved}
      /\ \A p \in Resolved : slots[Rank(p)].path = p
  BY DEF ResolutionIInv, SlotsSound
<1>2. \A p : Rank(p)' = Rank(p)
  BY TreeFixed
<1>3. /\ DOMAIN slots' = {Rank(p)' : p \in Resolved'}
      /\ \A p \in Resolved' : slots'[Rank(p)'].path = p
  BY <1>1, <1>2
<1> QED
  BY <1>3 DEF SlotsSound

LEMMA VectorsHoldEntries ==
  ASSUME ResolutionIInv
  PROVE  /\ \A i \in 1 .. Len(namespaces) : namespaces[i] \in DOMAIN tree
         /\ \A i \in 1 .. Len(overlays) : overlays[i] \in DOMAIN tree
         /\ Len(namespaces) \in Nat /\ Len(overlays) \in Nat /\ Len(layers) \in Nat
         /\ DOMAIN namespaces = 1 .. Len(namespaces) /\ DOMAIN overlays = 1 .. Len(overlays)
         /\ FiniteTree
  BY TreeIsFinite DEF ResolutionIInv, ResolutionTypeOK

\* What has been resolved is part of the tree.
LEMMA ResolvedAreEntries == ASSUME ResolutionIInv PROVE Resolved \subseteq DOMAIN tree
<1>1. Bound(DOMAIN tree) \subseteq DOMAIN tree /\ Overlaid(DOMAIN tree) \subseteq DOMAIN tree
      /\ Visited \subseteq DOMAIN tree
  BY DEF Bound, Overlaid, Visited
<1>2. stage = "capture" => {namespaces[i] : i \in 1 .. cursor - 1} \subseteq DOMAIN tree
  <2> SUFFICES ASSUME stage = "capture", NEW i \in 1 .. cursor - 1
               PROVE  namespaces[i] \in DOMAIN tree
    OBVIOUS
  <2>1. i \in 1 .. Len(namespaces)
    BY VectorsHoldEntries DEF ResolutionIInv, CursorInRange
  <2> QED
    BY <2>1, VectorsHoldEntries
<1>3. stage = "overlays" => {overlays[i] : i \in 1 .. cursor - 1} \subseteq DOMAIN tree
  <2> SUFFICES ASSUME stage = "overlays", NEW i \in 1 .. cursor - 1
               PROVE  overlays[i] \in DOMAIN tree
    OBVIOUS
  <2>1. i \in 1 .. Len(overlays)
    BY VectorsHoldEntries DEF ResolutionIInv, CursorInRange
  <2> QED
    BY <2>1, VectorsHoldEntries
<1> QED
  BY <1>1, <1>2, <1>3 DEF Resolved

\* Writing the slot of an entry keeps the other slots, for ranks do not collide.
LEMMA WriteKeeps ==
  ASSUME ResolutionIInv, stage \in Resolving, NEW d \in DOMAIN tree, NEW used \in Seq(AnyLayer),
         slots' = Written(Rank(d), SlotFor(d, used, TRUE)), UNCHANGED tree,
         IsOverlay(tree[d]) => used = LayersOf(d, "mount"),
         Resolved' = Resolved \cup {d}
  PROVE  SlotsTyped' /\ SlotsSound' /\ OverlaysGetTheirLayers' /\ FilesAreGenuine'
<1> DEFINE new == SlotFor(d, used, TRUE)
<1>1. new \in Slot /\ new.path = d /\ new.layers = used /\ new.genuine
  BY DEF SlotFor, Slot
<1>2. /\ DOMAIN slots' = DOMAIN slots \cup {Rank(d)}
      /\ slots'[Rank(d)] = new
      /\ \A i \in DOMAIN slots \ {Rank(d)} : slots'[i] = slots[i]
      /\ slots' = [i \in DOMAIN slots' |-> slots'[i]]
  BY DEF Written
<1> HIDE DEF new
<1>3. Slot' = Slot
  BY DEF Slot
<1>4. slots \in [DOMAIN slots -> Slot]
  BY DEF ResolutionIInv, ResolutionTypeOK, SlotsTyped
<1>5. ASSUME NEW i \in DOMAIN slots' PROVE slots'[i] \in Slot
  <2>1. i # Rank(d) => i \in DOMAIN slots /\ slots'[i] = slots[i]
    BY <1>2
  <2>2. \A j \in DOMAIN slots : slots[j] \in Slot
    BY <1>4
  <2>3. CASE i = Rank(d)
    BY <1>1, <1>2, <2>3
  <2>4. CASE i # Rank(d)
    BY <2>1, <2>2, <2>4
  <2> QED
    BY <2>3, <2>4
<1>6. SlotsTyped'
  BY <1>2, <1>3, <1>5 DEF SlotsTyped
<1>7. SlotsSound'
  <2>1. /\ DOMAIN slots = {Rank(p) : p \in Resolved}
        /\ \A p \in Resolved : slots[Rank(p)].path = p
    BY DEF ResolutionIInv, SlotsSound
  <2>2. \A p : Rank(p)' = Rank(p)
    BY TreeFixed
  <2>3. DOMAIN slots' = {Rank(p)' : p \in Resolved'}
    BY <1>2, <2>1, <2>2
  <2>4. ASSUME NEW p \in Resolved' PROVE slots'[Rank(p)'].path = p
    <3>1. p \in DOMAIN tree
      BY ResolvedAreEntries
    <3>2. CASE p = d
      BY <1>1, <1>2, <2>2, <3>2
    <3>3. CASE p # d
      <4>1. Rank(p) # Rank(d)
        BY <3>1, <3>3, RankInjective, VectorsHoldEntries
      <4>2. p \in Resolved /\ Rank(p) \in DOMAIN slots
        BY <2>1, <3>3
      <4> QED
        BY <1>2, <2>1, <2>2, <4>1, <4>2
    <3> QED
      BY <3>2, <3>3
  <2> QED
    BY <2>3, <2>4 DEF SlotsSound
<1>8. OverlaysGetTheirLayers'
  <2> SUFFICES ASSUME NEW i \in DOMAIN slots', IsOverlay(tree[slots'[i].path])
               PROVE  slots'[i].layers = LayersOf(slots'[i].path, "mount")
    BY TreeFixed DEF OverlaysGetTheirLayers
  <2>1. CASE i = Rank(d)
    BY <1>1, <1>2, <2>1
  <2>2. CASE i # Rank(d)
    BY <1>2, <2>2 DEF ResolutionIInv, OverlaysGetTheirLayers
  <2> QED
    BY <2>1, <2>2
<1>9. FilesAreGenuine'
  <2> SUFFICES ASSUME NEW i \in DOMAIN slots' PROVE slots'[i].genuine
    BY DEF FilesAreGenuine
  <2>1. CASE i = Rank(d)
    BY <1>1, <1>2, <2>1
  <2>2. CASE i # Rank(d)
    BY <1>2, <2>2 DEF ResolutionIInv, FilesAreGenuine
  <2> QED
    BY <2>1, <2>2
<1> QED
  BY <1>6, <1>7, <1>8, <1>9

-----------------------------------------------------------------------------
\* The layers of the vector.

\* The vector of layers is whole as long as their forms are what the stage says.
LEMMA LayersStay ==
  ASSUME ResolutionIInv, stage \in Resolving \ {"fresh"}, UNCHANGED <<tree, layers, overlays>>,
         \A i \in 1 .. Len(layers) : FormAt(i)' = FormAt(i),
         \/ stage # "overlays" /\ nextLayer' = nextLayer /\ (stage' = "overlays" => cursor' = 1)
         \/ stage = "overlays" /\ stage' = "overlays" /\ cursor <= Len(overlays)
            /\ cursor' = cursor + 1
            /\ nextLayer' = nextLayer + LayersUsed(overlays[cursor])
  PROVE  LayersSound'
<1>1. PICK from \in [1 .. Len(overlays) + 1 -> 0 .. Len(layers)] :
        Laid(from) /\ nextLayer = IF stage = "overlays" THEN from[cursor] ELSE 0
  BY DEF ResolutionIInv, LayersSound
<1>2. Len(overlays) \in Nat /\ Len(layers) \in Nat
  BY VectorsHoldEntries
<1>3. /\ \A p : LayersUsed(p)' = LayersUsed(p)
      /\ \A p, form : LayersOf(p, form)' = LayersOf(p, form)
  BY TreeFixed
<1>4. ASSUME NEW i \in 1 .. Len(overlays)
      PROVE  /\ from[i + 1] = from[i] + LayersUsed(overlays[i])
             /\ \A n \in 1 .. LayersUsed(overlays[i]) :
                  layers[from[i] + n] = LayersOf(overlays[i], FormAt(from[i] + n)')[n]
  <2>1. /\ from[i + 1] = from[i] + LayersUsed(overlays[i])
        /\ \A n \in 1 .. LayersUsed(overlays[i]) :
             layers[from[i] + n] = LayersOf(overlays[i], FormAt(from[i] + n))[n]
    BY <1>1 DEF Laid
  <2>2. from[i] \in 0 .. Len(layers) /\ from[i + 1] \in 0 .. Len(layers)
    BY <1>2
  <2>3. LayersUsed(overlays[i]) \in Nat
    BY VectorsHoldEntries, EntryIsMount, LayersOfOverlay DEF ResolutionIInv, ResolutionTypeOK
  <2>4. \A n \in 1 .. LayersUsed(overlays[i]) : from[i] + n \in 1 .. Len(layers)
    BY <1>2, <2>1, <2>2, <2>3, SMTT(30)
  <2>5. \A n \in 1 .. LayersUsed(overlays[i]) : FormAt(from[i] + n)' = FormAt(from[i] + n)
    BY <2>4
  <2> QED
    BY <2>1, <2>5
<1>5. Laid(from)'
  <2>1. from[1] = 0 /\ from[Len(overlays) + 1] = Len(layers)
    BY <1>1 DEF Laid
  <2> QED
    BY <1>3, <1>4, <2>1 DEF Laid
<1>6. nextLayer' = IF stage' = "overlays" THEN from[cursor'] ELSE 0
  <2>1. CASE stage # "overlays"
    <3>1. from[1] = 0 /\ nextLayer = 0
      BY <1>1, <2>1 DEF Laid
    <3> QED
      BY <2>1, <3>1
  <2>2. CASE stage = "overlays"
    <3>1. cursor \in 1 .. Len(overlays)
      BY <1>2, <2>2 DEF ResolutionIInv, CursorInRange
    <3> QED
      BY <1>1, <1>4, <2>2, <3>1
  <2> QED
    BY <2>1, <2>2
<1> QED
  BY <1>5, <1>6 DEF LayersSound

-----------------------------------------------------------------------------
\* The steps before the resolution.

LEMMA ResolutionStarts == ResolutionInit => ResolutionIInv
<1> SUFFICES ASSUME ResolutionInit PROVE ResolutionIInv
  OBVIOUS
<1> USE DEF ResolutionInit, TreeInit
<1>1. DOMAIN tree = {} /\ DOMAIN slots = {}
  OBVIOUS
<1>2. ResolutionTypeOK
  BY <1>1 DEF ResolutionTypeOK, SlotsTyped, TreeTypeOK, BeforeResolving
<1>3. IsFiniteSet(DOMAIN tree)
  BY <1>1, FS_EmptySet
<1>4. CountSound
  <2>1. \E before \in [DOMAIN tree -> Nat] : Budget(before, DOMAIN tree, hostMountCount)
    <3>1. [p \in {} |-> 0] \in [DOMAIN tree -> Nat]
      BY <1>1
    <3> QED
      BY <1>1, <3>1 DEF Budget
  <2> QED
    BY <2>1 DEF CountSound, Resolving
<1>5. OverlaysGetTheirLayers /\ FilesAreGenuine
  BY <1>1 DEF OverlaysGetTheirLayers, FilesAreGenuine
<1> QED
  BY <1>2, <1>3, <1>4, <1>5
     DEF ResolutionIInv, NothingResolved, InOrder, EntriesCounted, ResolvedCounted, Gathered,
        CursorInRange, SlotsSound,
         LayersSound, Resolving

\* While the tree is made and walked, nothing is resolved.
LEMMA NotYetResolving ==
  ASSUME ResolutionIInv, stage \in BeforeResolving, stage' \in BeforeResolving,
         TreeTypeOK', IsFiniteSet(DOMAIN tree)', InOrder',
         stage' = "walk" => \E before \in [Visited' -> Nat] : Budget(before, Visited, counted)',
         stage' = "built" =>
           \E before \in [DOMAIN tree' -> Nat] : Budget(before, DOMAIN tree, hostMountCount)',
         UNCHANGED <<resolveVars, replaced>>
  PROVE  ResolutionIInv'
<1> USE DEF resolveVars, scratchVars
<1>1. stage' \notin Resolving \cup {"ready", "collect"}
  BY DEF Resolving, BeforeResolving
<1>2. /\ namespaces = <<>> /\ layers = <<>> /\ overlays = <<>> /\ slots = <<>>
      /\ nextLayer = 0 /\ found = "none"
  BY DEF ResolutionIInv, NothingResolved
<1>3. ResolutionTypeOK'
  BY <1>2 DEF ResolutionIInv, ResolutionTypeOK, SlotsTyped
<1>4. NothingResolved'
  BY <1>2 DEF NothingResolved
<1>5. CountSound'
  BY <1>1 DEF CountSound
<1>6. EntriesCounted' /\ ResolvedCounted' /\ Gathered' /\ SlotsSound' /\ LayersSound'
  BY <1>1 DEF Resolving, EntriesCounted, ResolvedCounted, Gathered, SlotsSound, LayersSound
<1>7. CursorInRange'
  BY <1>1 DEF CursorInRange, Resolving
<1>8. OverlaysGetTheirLayers' /\ FilesAreGenuine'
  BY <1>2 DEF OverlaysGetTheirLayers, FilesAreGenuine
<1> QED
  BY <1>3, <1>4, <1>5, <1>6, <1>7, <1>8 DEF ResolutionIInv

LEMMA ConfigureResolvesNothing ==
  ASSUME ResolutionIInv, NEW T, DOMAIN T \subseteq Paths, T \in [DOMAIN T -> Mounts],
         IsFiniteSet(DOMAIN T), Configure(T),
         UNCHANGED <<resolveVars, replaced>>
  PROVE  ResolutionIInv'
<1>1. /\ stage \in BeforeResolving /\ stage' = "configure" /\ tree' = T /\ stack' = <<>>
      /\ UNCHANGED <<unvisited, counted, hostMountCount>>
  BY DEF Configure, BeforeResolving
<1>2. unvisited' = {}
  BY <1>1 DEF Configure, ResolutionIInv, InOrder
<1>3. TreeTypeOK' /\ InOrder'
  BY <1>1, <1>2 DEF ResolutionIInv, ResolutionTypeOK, TreeTypeOK, InOrder
<1>4. stage' \in BeforeResolving /\ stage' # "walk" /\ stage' # "built"
  BY <1>1 DEF BeforeResolving
<1> QED
  BY <1>1, <1>3, <1>4, NotYetResolving
LEMMA StartWalkResolvesNothing ==
  ASSUME ResolutionIInv, StartWalk, UNCHANGED <<resolveVars, replaced>> PROVE ResolutionIInv'
<1>1. /\ stage \in BeforeResolving /\ stage' = "walk" /\ unvisited' = DOMAIN tree
      /\ stack' = <<>> /\ counted' = 0 /\ UNCHANGED <<tree, hostMountCount>>
  BY DEF StartWalk, BeforeResolving
<1>2. Visited' = {}
  BY <1>1 DEF Visited
<1>3. TreeTypeOK' /\ InOrder' /\ IsFiniteSet(DOMAIN tree)'
  BY <1>1, <1>2 DEF ResolutionIInv, ResolutionTypeOK, TreeTypeOK, InOrder
<1>4. \E before \in [Visited' -> Nat] : Budget(before, Visited, counted)'
  <2>1. [p \in {} |-> 0] \in [Visited' -> Nat]
    BY <1>2
  <2> QED
    BY <1>2, <2>1 DEF Budget
<1>5. stage' \in BeforeResolving /\ stage' # "built"
  BY <1>1 DEF BeforeResolving
<1> QED
  BY <1>1, <1>3, <1>4, <1>5, NotYetResolving

LEMMA VisitResolvesNothing ==
  ASSUME ResolutionIInv, NEW d \in unvisited, Visit(d), UNCHANGED <<resolveVars, replaced>>
  PROVE  ResolutionIInv'
<1>1. /\ stage = "walk" /\ stage' = "walk" /\ IsFirst(d, unvisited)
      /\ unvisited' = unvisited \ {d} /\ counted' = counted + HostMounts(tree[d])
      /\ UNCHANGED <<tree, hostMountCount>>
  BY DEF Visit
<1>2. /\ TreeTypeOK /\ unvisited \subseteq DOMAIN tree /\ d \in DOMAIN tree /\ counted \in Nat
      /\ FiniteTree
  BY VectorsHoldEntries DEF ResolutionIInv, ResolutionTypeOK, TreeTypeOK
<1>3. Visited' = Visited \cup {d} /\ d \notin Visited /\ Visited \subseteq DOMAIN tree
  BY <1>1, <1>2, NextWalked DEF Visited
<1>4. HostMounts(tree[d]) \in Nat
  BY <1>2, EntryIsMount, HostMountsIsNumber
<1>5. TreeTypeOK' /\ IsFiniteSet(DOMAIN tree)'
  BY <1>1, <1>2, <1>4, VisitPushes DEF ResolutionIInv, TreeTypeOK
<1>6. InOrder'
  BY <1>1, OrderKept
<1>7. PICK before \in [Visited -> Nat] : Budget(before, Visited, counted)
  BY <1>1 DEF ResolutionIInv, CountSound
<1>8. PICK after \in [Visited \cup {d} -> Nat] :
        after[d] = counted /\ \A p \in Visited : after[p] = before[p]
  <2> DEFINE f == [p \in Visited \cup {d} |-> IF p = d THEN counted ELSE before[p]]
  <2>1. f \in [Visited \cup {d} -> Nat] /\ f[d] = counted /\ \A p \in Visited : f[p] = before[p]
    BY <1>2, <1>3
  <2> HIDE DEF f
  <2> QED
    BY <2>1
<1>9. \A p \in Visited : ~Before(d, p) /\ p \in DOMAIN tree
  <2> SUFFICES ASSUME NEW p \in Visited PROVE ~Before(d, p)
    BY <1>3
  <2>1. p \in Seq(Nat) /\ d \in Seq(Nat)
    BY <1>2, <1>3 DEF FiniteTree
  <2>2. Before(p, d)
    BY <1>1 DEF ResolutionIInv, InOrder
  <2> QED
    BY <2>1, <2>2, BeforeAsymmetric
<1>10. ~Before(d, d)
  BY <1>2, BeforeIrreflexive DEF FiniteTree
<1>11. ASSUME NEW p \in Visited \cup {d}
       PROVE  /\ after[p] + HostMounts(tree[p]) <= counted + HostMounts(tree[d])
              /\ \A q \in Visited \cup {d} :
                   Before(p, q) => after[p] + HostMounts(tree[p]) <= after[q]
  <2>1. CASE p = d
    <3>1. after[d] + HostMounts(tree[d]) <= counted + HostMounts(tree[d])
      BY <1>2, <1>4, <1>8
    <3> QED
      BY <1>9, <1>10, <2>1, <3>1
  <2>2. CASE p \in Visited
    <3>1. /\ before[p] + HostMounts(tree[p]) <= counted
          /\ \A q \in Visited : Before(p, q) => before[p] + HostMounts(tree[p]) <= before[q]
      BY <1>7, <2>2 DEF Budget
    <3>2. HostMounts(tree[p]) \in Nat
      BY <1>2, <1>9, <2>2, EntryIsMount, HostMountsIsNumber
    <3>3. before[p] + HostMounts(tree[p]) <= counted + HostMounts(tree[d])
      BY <1>2, <1>4, <1>8, <2>2, <3>1, <3>2
    <3>4. after[p] = before[p]
      BY <1>8, <2>2
    <3> QED
      BY <1>8, <3>1, <3>3, <3>4
  <2> QED
    BY <2>1, <2>2
<1>12. Budget(after, Visited, counted)'
  BY <1>1, <1>3, <1>8, <1>11 DEF Budget
<1>13. \E f \in [Visited' -> Nat] : Budget(f, Visited, counted)'
  BY <1>3, <1>8, <1>12
<1>14. stage \in BeforeResolving /\ stage' \in BeforeResolving /\ stage' # "built"
  BY <1>1 DEF BeforeResolving
<1> QED
  BY <1>5, <1>6, <1>13, <1>14, NotYetResolving

LEMMA RejectResolvesNothing ==
  ASSUME ResolutionIInv, NEW d \in unvisited, Reject(d), UNCHANGED <<resolveVars, replaced>>
  PROVE  ResolutionIInv'
<1>1. /\ stage \in BeforeResolving /\ stage' = "rejected"
      /\ UNCHANGED <<tree, unvisited, stack, counted, hostMountCount>>
  BY DEF Reject, walkVars, BeforeResolving
<1>2. TreeTypeOK' /\ InOrder' /\ IsFiniteSet(DOMAIN tree)'
  BY <1>1 DEF ResolutionIInv, ResolutionTypeOK, TreeTypeOK, InOrder
<1>3. stage' \in BeforeResolving /\ stage' # "walk" /\ stage' # "built"
  BY <1>1 DEF BeforeResolving
<1> QED
  BY <1>1, <1>2, <1>3, NotYetResolving

LEMMA AcceptResolvesNothing ==
  ASSUME ResolutionIInv, Accept, UNCHANGED <<resolveVars, replaced>> PROVE ResolutionIInv'
<1>1. /\ stage = "walk" /\ unvisited = {} /\ stage' = "built" /\ hostMountCount' = counted
      /\ UNCHANGED <<tree, unvisited, stack, counted>>
  BY DEF Accept, walkVars
<1>2. TreeTypeOK' /\ InOrder' /\ IsFiniteSet(DOMAIN tree)'
  BY <1>1 DEF ResolutionIInv, ResolutionTypeOK, TreeTypeOK, InOrder
<1>3. Visited = DOMAIN tree
  BY <1>1 DEF Visited
<1>4. \E before \in [DOMAIN tree -> Nat] : Budget(before, DOMAIN tree, counted)
  BY <1>1, <1>3 DEF ResolutionIInv, CountSound
<1>5. \E before \in [DOMAIN tree' -> Nat] : Budget(before, DOMAIN tree, hostMountCount)'
  BY <1>1, <1>4 DEF Budget
<1>6. stage \in BeforeResolving /\ stage' \in BeforeResolving /\ stage' # "walk"
  BY <1>1 DEF BeforeResolving
<1> QED
  BY <1>2, <1>5, <1>6, NotYetResolving

LEMMA TreeResolvesNothing ==
  ASSUME ResolutionIInv, TreeNext, UNCHANGED <<resolveVars, replaced>> PROVE ResolutionIInv'
<1>1. DOMAIN tree \subseteq Paths /\ tree \in [DOMAIN tree -> Mounts] /\ IsFiniteSet(DOMAIN tree)
  BY DEF ResolutionIInv, ResolutionTypeOK, TreeTypeOK
<1>2. ASSUME NEW p \in Paths, NEW m \in Mounts, AddMount(p, m) PROVE ResolutionIInv'
  <2> DEFINE T == [q \in DOMAIN tree \cup {p} |-> IF q = p THEN m ELSE tree[q]]
  <2>1. DOMAIN T \subseteq Paths /\ T \in [DOMAIN T -> Mounts]
    BY <1>1
  <2>2. IsFiniteSet(DOMAIN T)
    BY <1>1, FS_AddElement
  <2>3. Configure(T)
    BY <1>2 DEF AddMount
  <2> QED
    BY <2>1, <2>2, <2>3, ConfigureResolvesNothing
<1>3. ASSUME NEW p \in DOMAIN tree, Unmount(p) PROVE ResolutionIInv'
  <2> DEFINE T == [q \in DOMAIN tree \ {p} |-> tree[q]]
  <2>1. DOMAIN T \subseteq Paths /\ T \in [DOMAIN T -> Mounts]
    BY <1>1
  <2>2. IsFiniteSet(DOMAIN T)
    BY <1>1, FS_RemoveElement
  <2>3. Configure(T)
    BY <1>3 DEF Unmount
  <2> QED
    BY <2>1, <2>2, <2>3, ConfigureResolvesNothing
<1>4. CASE Clear
  <2>1. DOMAIN <<>> = {} /\ <<>> \in [DOMAIN <<>> -> Mounts]
    OBVIOUS
  <2>2. IsFiniteSet(DOMAIN <<>>)
    BY <2>1, FS_EmptySet
  <2>3. Configure(<<>>)
    BY <1>4 DEF Clear
  <2> QED
    BY <2>1, <2>2, <2>3, ConfigureResolvesNothing
<1> QED
  BY <1>2, <1>3, <1>4, StartWalkResolvesNothing, VisitResolvesNothing, RejectResolvesNothing,
     AcceptResolvesNothing DEF TreeNext

-----------------------------------------------------------------------------
\* The collection.

LEMMA StartKeeps == ASSUME ResolutionIInv, Start PROVE ResolutionIInv'
<1>1. /\ stage = "built" /\ stage' = "collect" /\ unvisited' = DOMAIN tree
      /\ UNCHANGED <<tree, stack, counted, hostMountCount, replaced, resolveVars>>
  BY DEF Start, GoOn
<1> USE DEF resolveVars, scratchVars
<1>2. /\ namespaces = <<>> /\ layers = <<>> /\ overlays = <<>> /\ slots = <<>>
      /\ nextLayer = 0 /\ found = "none"
  BY <1>1 DEF ResolutionIInv, NothingResolved, BeforeResolving
<1>3. Visited' = {}
  BY <1>1 DEF Visited
<1>4. ResolutionTypeOK' /\ IsFiniteSet(DOMAIN tree)' /\ hostMountCount' \in Nat
  BY <1>1, <1>2, SlotsStay DEF ResolutionIInv, ResolutionTypeOK, TreeTypeOK, Resolving
<1>5. NothingResolved' /\ InOrder'
  BY <1>1, <1>3 DEF NothingResolved, InOrder, BeforeResolving
<1>6. CountSound'
  <2>1. PICK before \in [DOMAIN tree -> Nat] : Budget(before, DOMAIN tree, hostMountCount)
    BY <1>1 DEF ResolutionIInv, CountSound
  <2>2. Budget(before, DOMAIN tree, hostMountCount)' /\ before \in [DOMAIN tree' -> Nat]
    BY <1>1, <2>1 DEF Budget
  <2>3. Len(layers') = 0 /\ \A p \in DOMAIN tree : before[p] \in Nat
    BY <1>1, <1>2
  <2>4. \A p \in unvisited' : Len(layers') <= before[p]
    BY <1>1, <2>3
  <2> QED
    BY <1>1, <1>4, <2>2, <2>3, <2>4 DEF CountSound
<1>7. EntriesCounted' /\ ResolvedCounted'
  <2>1. Len(namespaces') = 0 /\ Len(overlays') = 0 /\ (Bound(Visited) \cup Overlaid(Visited))' = {}
    BY <1>1, <1>2, <1>3 DEF Bound, Overlaid
  <2>2. Cardinality({}) = 0
    BY FS_EmptySet
  <2>3. Cardinality(Bound(Visited) \cup Overlaid(Visited))' = 0
    BY <2>1, <2>2
  <2> QED
    BY <1>1, <2>1, <2>3 DEF EntriesCounted, ResolvedCounted
<1>8. Gathered'
  BY <1>1, <1>2, <1>3 DEF Gathered, Elements, Bound, Overlaid
<1>9. CursorInRange'
  BY <1>1, <1>2 DEF CursorInRange
<1>10. SlotsSound' /\ OverlaysGetTheirLayers' /\ FilesAreGenuine'
  <2>1. Resolved' = {} /\ DOMAIN slots' = {}
    BY <1>1, <1>2 DEF Resolved
  <2> QED
    BY <2>1 DEF SlotsSound, OverlaysGetTheirLayers, FilesAreGenuine
<1>11. LayersSound'
  <2>1. /\ Len(overlays') = 0 /\ Len(layers') = 0
        /\ [i \in 1 .. 1 |-> 0] \in [1 .. Len(overlays') + 1 -> 0 .. Len(layers')]
    BY <1>1, <1>2
  <2>2. Laid([i \in 1 .. 1 |-> 0])'
    BY <2>1 DEF Laid
  <2> QED
    BY <1>1, <1>2, <2>1, <2>2 DEF LayersSound
<1> QED
  BY <1>4, <1>5, <1>6, <1>7, <1>8, <1>9, <1>10, <1>11 DEF ResolutionIInv

\* What a step of the collection leaves alone, whatever it collects.
LEMMA CollectEffect ==
  ASSUME ResolutionIInv, NEW d \in unvisited, Collect(d)
  PROVE  /\ stage = "collect" /\ stage' = "collect" /\ IsFirst(d, unvisited)
         /\ d \in DOMAIN tree /\ tree[d] \in Mount /\ d \in Paths
         /\ unvisited' = unvisited \ {d} /\ TreeTypeOK'
         /\ Visited' = Visited \cup {d} /\ d \notin Visited
         /\ UNCHANGED <<tree, hostMountCount, replaced, cursor, nextLayer, slots, nResolved,
            found>>
         /\ IsFiniteSet(DOMAIN tree)' /\ NothingResolved' /\ InOrder' /\ CursorInRange'
         /\ SlotsTyped' /\ SlotsSound' /\ OverlaysGetTheirLayers' /\ FilesAreGenuine'
         /\ ResolvedCounted'
<1>1. /\ stage = "collect" /\ stage' = "collect" /\ IsFirst(d, unvisited)
      /\ unvisited' = unvisited \ {d}
      /\ UNCHANGED <<tree, stack, counted, hostMountCount, replaced, cursor, nextLayer, slots,
                     nResolved, found>>
  BY DEF Collect, Stay
<1>2. TreeTypeOK /\ unvisited \subseteq DOMAIN tree /\ IsFiniteSet(DOMAIN tree)
  BY DEF ResolutionIInv, ResolutionTypeOK, TreeTypeOK
<1>3. d \in DOMAIN tree /\ tree[d] \in Mount /\ d \in Paths
  BY <1>2, EntryIsMount
<1>4. Visited' = Visited \cup {d} /\ d \notin Visited
  BY <1>1, <1>2, NextWalked
<1>5. TreeTypeOK' /\ IsFiniteSet(DOMAIN tree)'
  BY <1>1, <1>2 DEF TreeTypeOK
<1>6. NothingResolved' /\ CursorInRange'
  BY <1>1 DEF NothingResolved, CursorInRange, BeforeResolving, ResolutionIInv, Resolving
<1>7. InOrder'
  BY <1>1, OrderKept
<1>8. Resolved' = Resolved
  BY <1>1 DEF Resolved
<1>9. SlotsTyped' /\ SlotsSound' /\ OverlaysGetTheirLayers' /\ FilesAreGenuine'
  BY <1>1, <1>8, SlotsStay, ResolvedStay DEF Resolving
<1>10. ResolvedCounted'
  BY <1>1 DEF ResolvedCounted
<1> QED
  BY <1>1, <1>3, <1>4, <1>5, <1>6, <1>7, <1>9, <1>10

\* One more source is in one of the vectors.
LEMMA CollectEntry ==
  ASSUME ResolutionIInv, NEW d \in unvisited, Collect(d), IsBind(tree[d]) \/ IsOverlay(tree[d]),
         Len(namespaces') + Len(overlays') = Len(namespaces) + Len(overlays) + 1
  PROVE  EntriesCounted'
<1> DEFINE old == Bound(Visited) \cup Overlaid(Visited)
<1>1. /\ stage = "collect" /\ stage' = "collect" /\ d \in DOMAIN tree
      /\ Visited' = Visited \cup {d} /\ d \notin Visited /\ UNCHANGED tree
  BY CollectEffect
<1>2. (Bound(Visited) \cup Overlaid(Visited))' = old \cup {d} /\ d \notin old
  BY <1>1 DEF Bound, Overlaid
<1>3. IsFiniteSet(old)
  <2>1. old \in SUBSET DOMAIN tree /\ IsFiniteSet(DOMAIN tree)
    BY DEF ResolutionIInv, Bound, Overlaid, Visited
  <2> QED
    BY <2>1, FS_Subset
<1>4. Len(namespaces) + Len(overlays) = Cardinality(old)
  BY <1>1 DEF ResolutionIInv, EntriesCounted, Resolving
<1> HIDE DEF old
<1>5. Cardinality(old \cup {d}) = Cardinality(old) + 1
  BY <1>2, <1>3, FS_AddElement
<1> QED
  BY <1>1, <1>2, <1>4, <1>5 DEF EntriesCounted

\* There is room for the layers of what is collected, and of what is not yet.
LEMMA CollectCount ==
  ASSUME ResolutionIInv, NEW d \in unvisited, Collect(d), NEW used \in Nat,
         used <= HostMounts(tree[d]), Len(layers') = Len(layers) + used
  PROVE  CountSound'
<1>1. /\ stage = "collect" /\ stage' = "collect" /\ IsFirst(d, unvisited)
      /\ unvisited' = unvisited \ {d} /\ d \in DOMAIN tree /\ tree[d] \in Mount
      /\ UNCHANGED <<tree, hostMountCount>>
  BY CollectEffect
<1>2. PICK before \in [DOMAIN tree -> Nat] :
        /\ Budget(before, DOMAIN tree, hostMountCount)
        /\ \A p \in unvisited : Len(layers) <= before[p]
  BY <1>1 DEF ResolutionIInv, CountSound
<1>3. /\ Len(layers) <= before[d] /\ before[d] + HostMounts(tree[d]) <= hostMountCount
      /\ \A q \in DOMAIN tree : Before(d, q) => before[d] + HostMounts(tree[d]) <= before[q]
  BY <1>1, <1>2 DEF Budget
<1>4. /\ HostMounts(tree[d]) \in Nat /\ before[d] \in Nat /\ Len(layers) \in Nat
      /\ hostMountCount \in Nat /\ unvisited \subseteq DOMAIN tree
  BY <1>1, HostMountsIsNumber, VectorsHoldEntries DEF ResolutionIInv, ResolutionTypeOK, TreeTypeOK
<1>5. Len(layers') <= hostMountCount
  BY <1>3, <1>4
<1>6. ASSUME NEW p \in unvisited' PROVE Len(layers') <= before[p]
  <2>1. Before(d, p) /\ p \in DOMAIN tree /\ before[p] \in Nat
    BY <1>1, <1>4 DEF IsFirst
  <2>2. before[d] + HostMounts(tree[d]) <= before[p]
    BY <1>3, <2>1
  <2> QED
    BY <1>3, <1>4, <2>1, <2>2
<1>7. Budget(before, DOMAIN tree, hostMountCount)'
  BY <1>1, <1>2 DEF Budget
<1>8. before \in [DOMAIN tree' -> Nat]
  BY <1>1
<1> QED
  BY <1>1, <1>5, <1>6, <1>7, <1>8 DEF CountSound

LEMMA CollectBindKeeps ==
  ASSUME ResolutionIInv, NEW d \in unvisited, CollectBind(d) PROVE ResolutionIInv'
<1>1. /\ Collect(d) /\ IsBind(tree[d]) /\ namespaces' = Append(namespaces, d)
      /\ UNCHANGED <<layers, overlays>>
  BY DEF CollectBind
<1>2. /\ stage = "collect" /\ stage' = "collect" /\ d \in DOMAIN tree /\ tree[d] \in Mount
      /\ Visited' = Visited \cup {d} /\ TreeTypeOK'
      /\ UNCHANGED <<tree, replaced, cursor, nextLayer, slots, nResolved, found>>
  BY <1>1, CollectEffect
<1>3. namespaces \in Seq(DOMAIN tree) /\ overlays \in Seq(DOMAIN tree) /\ layers \in Seq(AnyLayer)
  BY DEF ResolutionIInv, ResolutionTypeOK
<1>4. namespaces' \in Seq(DOMAIN tree) /\ Len(namespaces') = Len(namespaces) + 1
  BY <1>1, <1>2, <1>3, AppendProperties
<1>5. ResolutionTypeOK'
  BY <1>1, <1>2, <1>4, CollectEffect DEF ResolutionIInv, ResolutionTypeOK
<1>6. CountSound'
  <2>1. 0 <= HostMounts(tree[d]) /\ Len(layers') = Len(layers) + 0
    BY <1>1, <1>2, <1>3, HostMountsIsNumber
  <2> QED
    BY <1>1, <2>1, CollectCount
<1>7. EntriesCounted'
  <2>1. Len(namespaces') + Len(overlays') = Len(namespaces) + Len(overlays) + 1
    BY <1>1, <1>3, <1>4
  <2> QED
    BY <1>1, <2>1, CollectEntry
<1>8. Gathered'
  <2>1. Elements(namespaces) = Bound(Visited) /\ Elements(overlays) = Overlaid(Visited)
    BY <1>2 DEF ResolutionIInv, Gathered, Resolving
  <2>2. Elements(namespaces') = Elements(namespaces) \cup {d}
    BY <1>1, <1>2, <1>3, ElementsOfAppend
  <2>3. Bound(Visited)' = Bound(Visited) \cup {d} /\ Overlaid(Visited)' = Overlaid(Visited)
    BY <1>1, <1>2 DEF Bound, Overlaid, IsBind, IsOverlay
  <2>4. Elements(overlays)' = Elements(overlays) /\ Elements(namespaces)' = Elements(namespaces')
    BY <1>1 DEF Elements
  <2> QED
    BY <1>2, <2>1, <2>2, <2>3, <2>4 DEF Gathered
<1>9. LayersSound'
  <2>1. \A i : FormAt(i)' = FormAt(i)
    BY <1>2 DEF FormAt
  <2> QED
    BY <1>1, <1>2, <2>1, LayersStay DEF Resolving
<1> QED
  BY <1>1, <1>5, <1>6, <1>7, <1>8, <1>9, CollectEffect DEF ResolutionIInv

LEMMA CollectNothingKeeps ==
  ASSUME ResolutionIInv, NEW d \in unvisited, CollectNothing(d) PROVE ResolutionIInv'
<1>1. /\ Collect(d) /\ ~IsBind(tree[d]) /\ ~IsOverlay(tree[d])
      /\ UNCHANGED <<namespaces, layers, overlays>>
  BY DEF CollectNothing, scratchVars
<1>2. /\ stage = "collect" /\ stage' = "collect" /\ d \in DOMAIN tree /\ tree[d] \in Mount
      /\ Visited' = Visited \cup {d} /\ TreeTypeOK'
      /\ UNCHANGED <<tree, replaced, cursor, nextLayer, slots, nResolved, found>>
  BY <1>1, CollectEffect
<1>3. namespaces \in Seq(DOMAIN tree) /\ overlays \in Seq(DOMAIN tree) /\ layers \in Seq(AnyLayer)
  BY DEF ResolutionIInv, ResolutionTypeOK
<1>5. ResolutionTypeOK'
  BY <1>1, <1>2, CollectEffect DEF ResolutionIInv, ResolutionTypeOK
<1>6. CountSound'
  <2>1. 0 <= HostMounts(tree[d]) /\ Len(layers') = Len(layers) + 0
    BY <1>1, <1>2, <1>3, HostMountsIsNumber
  <2> QED
    BY <1>1, <2>1, CollectCount
<1>7. EntriesCounted'
  <2>1. Len(namespaces) + Len(overlays) = Cardinality(Bound(Visited) \cup Overlaid(Visited))
    BY <1>2 DEF ResolutionIInv, EntriesCounted, Resolving
  <2>2. (Bound(Visited) \cup Overlaid(Visited))' = Bound(Visited) \cup Overlaid(Visited)
    BY <1>1, <1>2 DEF Bound, Overlaid
  <2> QED
    BY <1>1, <1>2, <2>1, <2>2 DEF EntriesCounted
<1>8. Gathered'
  <2>1. Elements(namespaces) = Bound(Visited) /\ Elements(overlays) = Overlaid(Visited)
    BY <1>2 DEF ResolutionIInv, Gathered, Resolving
  <2>3. Bound(Visited)' = Bound(Visited) /\ Overlaid(Visited)' = Overlaid(Visited)
    BY <1>1, <1>2 DEF Bound, Overlaid
  <2>4. Elements(overlays)' = Elements(overlays) /\ Elements(namespaces)' = Elements(namespaces)
    BY <1>1 DEF Elements
  <2> QED
    BY <1>2, <2>1, <2>3, <2>4 DEF Gathered
<1>9. LayersSound'
  <2>1. \A i : FormAt(i)' = FormAt(i)
    BY <1>2 DEF FormAt
  <2> QED
    BY <1>1, <1>2, <2>1, LayersStay DEF Resolving
<1> QED
  BY <1>1, <1>5, <1>6, <1>7, <1>8, <1>9, CollectEffect DEF ResolutionIInv

LEMMA CollectOverlayKeeps ==
  ASSUME ResolutionIInv, NEW d \in unvisited, CollectOverlay(d) PROVE ResolutionIInv'
<1> DEFINE more == LayersOf(d, "namespace")
<1>1. /\ Collect(d) /\ IsOverlay(tree[d]) /\ overlays' = Append(overlays, d)
      /\ layers' = layers \o more /\ UNCHANGED namespaces
  BY DEF CollectOverlay
<1>2. /\ stage = "collect" /\ stage' = "collect"
      /\ d \in DOMAIN tree /\ d \in Paths /\ tree[d] \in Mount
      /\ Visited' = Visited \cup {d} /\ TreeTypeOK'
      /\ UNCHANGED <<tree, replaced, cursor, nextLayer, slots, nResolved, found>>
  BY <1>1, CollectEffect
<1>3. namespaces \in Seq(DOMAIN tree) /\ overlays \in Seq(DOMAIN tree) /\ layers \in Seq(AnyLayer)
  BY DEF ResolutionIInv, ResolutionTypeOK
<1>4. /\ overlays' \in Seq(DOMAIN tree) /\ Len(overlays') = Len(overlays) + 1
      /\ \A i \in 1 .. Len(overlays) : overlays'[i] = overlays[i]
      /\ overlays'[Len(overlays) + 1] = d
  BY <1>1, <1>2, <1>3, AppendProperties
<1>5. LayersUsed(d) \in Nat /\ more \in Seq(AnyLayer) /\ Len(more) = LayersUsed(d)
  BY <1>2, LayersOfOverlay
<1> HIDE DEF more
<1>6. /\ layers' \in Seq(AnyLayer) /\ Len(layers') = Len(layers) + LayersUsed(d)
      /\ \A i \in 1 .. Len(layers) + LayersUsed(d) :
           layers'[i] = IF i <= Len(layers) THEN layers[i] ELSE more[i - Len(layers)]
  BY <1>1, <1>3, <1>5, ConcatProperties
<1>7. ResolutionTypeOK'
  BY <1>1, <1>2, <1>4, <1>6, CollectEffect DEF ResolutionIInv, ResolutionTypeOK
<1>8. CountSound'
  <2>1. LayersUsed(d) <= HostMounts(tree[d])
    BY <1>1, <1>2, LayersAreCounted
  <2> QED
    BY <1>1, <1>5, <1>6, <2>1, CollectCount
<1>9. EntriesCounted'
  <2>1. Len(namespaces') + Len(overlays') = Len(namespaces) + Len(overlays) + 1
    BY <1>1, <1>3, <1>4
  <2> QED
    BY <1>1, <2>1, CollectEntry
<1>10. Gathered'
  <2>1. Elements(namespaces) = Bound(Visited) /\ Elements(overlays) = Overlaid(Visited)
    BY <1>2 DEF ResolutionIInv, Gathered, Resolving
  <2>2. Elements(overlays') = Elements(overlays) \cup {d}
    BY <1>1, <1>2, <1>3, ElementsOfAppend
  <2>3. Bound(Visited)' = Bound(Visited) /\ Overlaid(Visited)' = Overlaid(Visited) \cup {d}
    BY <1>1, <1>2 DEF Bound, Overlaid, IsBind, IsOverlay
  <2>4. Elements(overlays)' = Elements(overlays') /\ Elements(namespaces)' = Elements(namespaces)
    BY <1>1 DEF Elements
  <2> QED
    BY <1>2, <2>1, <2>2, <2>3, <2>4 DEF Gathered
<1>11. LayersSound'
  <2>1. PICK from \in [1 .. Len(overlays) + 1 -> 0 .. Len(layers)] : Laid(from) /\ nextLayer = 0
    BY <1>2 DEF ResolutionIInv, LayersSound, Resolving
  <2>2. Len(overlays) \in Nat /\ Len(layers) \in Nat
    BY <1>3
  <2>3. PICK next \in [1 .. Len(overlays) + 2 -> 0 .. Len(layers) + LayersUsed(d)] :
          /\ \A i \in 1 .. Len(overlays) + 1 : next[i] = from[i]
          /\ next[Len(overlays) + 2] = Len(layers) + LayersUsed(d)
    <3> DEFINE f == [i \in 1 .. Len(overlays) + 2 |->
                       IF i = Len(overlays) + 2 THEN Len(layers) + LayersUsed(d) ELSE from[i]]
    <3>1. \A i \in 1 .. Len(overlays) + 1 : from[i] \in 0 .. Len(layers)
      BY <2>1
    <3>2. f \in [1 .. Len(overlays) + 2 -> 0 .. Len(layers) + LayersUsed(d)]
      BY <1>5, <2>2, <3>1
    <3>3. /\ \A i \in 1 .. Len(overlays) + 1 : f[i] = from[i]
          /\ f[Len(overlays) + 2] = Len(layers) + LayersUsed(d)
      BY <2>2
    <3> HIDE DEF f
    <3> QED
      BY <3>2, <3>3
  <2>4. next \in [1 .. Len(overlays') + 1 -> 0 .. Len(layers')]
    BY <1>4, <1>6, <2>2, <2>3
  <2>5. /\ from[1] = 0 /\ from[Len(overlays) + 1] = Len(layers)
        /\ \A i \in 1 .. Len(overlays) : from[i + 1] = from[i] + LayersUsed(overlays[i])
        /\ \A i \in 1 .. Len(overlays) : \A n \in 1 .. LayersUsed(overlays[i]) :
             layers[from[i] + n] = LayersOf(overlays[i], "namespace")[n]
    BY <1>2, <2>1 DEF Laid, FormAt
  <2>6. next[1] = 0 /\ next[Len(overlays') + 1] = Len(layers')
    BY <1>4, <1>6, <2>2, <2>3, <2>5, SMTT(30)
  <2>7. ASSUME NEW i \in 1 .. Len(overlays')
        PROVE  /\ next[i + 1] = next[i] + LayersUsed(overlays'[i])
               /\ \A n \in 1 .. LayersUsed(overlays'[i]) :
                    layers'[next[i] + n] = LayersOf(overlays'[i], "namespace")[n]
    <3>1. CASE i = Len(overlays) + 1
      <4>1. /\ next[i] = Len(layers) /\ next[i + 1] = Len(layers) + LayersUsed(d)
            /\ overlays'[i] = d
        BY <1>4, <2>2, <2>3, <2>5, <3>1, SMTT(30)
      <4>2. ASSUME NEW n \in 1 .. LayersUsed(d) PROVE layers'[Len(layers) + n] = more[n]
        <5>1. /\ Len(layers) + n \in 1 .. Len(layers) + LayersUsed(d)
              /\ ~(Len(layers) + n <= Len(layers)) /\ Len(layers) + n - Len(layers) = n
          BY <1>5, <2>2
        <5> QED
          BY <1>6, <5>1
      <4> QED
        BY <4>1, <4>2 DEF more
    <3>2. CASE i \in 1 .. Len(overlays)
      <4>1. /\ next[i] = from[i] /\ next[i + 1] = from[i + 1] /\ overlays'[i] = overlays[i]
            /\ from[i] \in 0 .. Len(layers) /\ from[i + 1] \in 0 .. Len(layers)
            /\ from[i + 1] = from[i] + LayersUsed(overlays[i])
        BY <1>4, <2>1, <2>2, <2>3, <2>5, <3>2
      <4>2. LayersUsed(overlays[i]) \in Nat
        BY <3>2, VectorsHoldEntries, EntryIsMount, LayersOfOverlay
           DEF ResolutionIInv, ResolutionTypeOK
      <4>3. ASSUME NEW n \in 1 .. LayersUsed(overlays[i])
            PROVE  layers'[from[i] + n] = layers[from[i] + n]
        <5>1. from[i] \in Nat /\ from[i] + LayersUsed(overlays[i]) <= Len(layers)
          BY <2>2, <4>1
        <5>2. from[i] + n \in Nat \ {0} /\ from[i] + n <= Len(layers)
          BY <2>2, <4>2, <5>1, SMTT(30)
        <5>3. from[i] + n \in 1 .. Len(layers) + LayersUsed(d)
          BY <1>5, <2>2, <5>2
        <5> QED
          BY <1>6, <5>2, <5>3
      <4> QED
        BY <2>5, <3>2, <4>1, <4>3, SMTT(30)
    <3> QED
      BY <1>4, <2>2, <3>1, <3>2
  <2>8. Laid(next)'
    <3>1. /\ \A p : LayersUsed(p)' = LayersUsed(p)
          /\ \A p, form : LayersOf(p, form)' = LayersOf(p, form)
          /\ \A i : FormAt(i)' = "namespace"
      BY <1>2, TreeFixed DEF FormAt
    <3> QED
      BY <2>6, <2>7, <3>1 DEF Laid
  <2> QED
    BY <1>2, <2>1, <2>4, <2>8 DEF LayersSound
<1> QED
  BY <1>1, <1>7, <1>8, <1>9, <1>10, <1>11, CollectEffect DEF ResolutionIInv

-----------------------------------------------------------------------------
\* The later loops.

LEMMA UnshareKeeps == ASSUME ResolutionIInv, Unshare PROVE ResolutionIInv'
<1>1. /\ stage = "collect" /\ stage' = "capture" /\ unvisited = {} /\ cursor' = 1
      /\ UNCHANGED <<tree, stack, counted, hostMountCount, replaced, unvisited,
                     namespaces, layers, overlays, nextLayer, slots, nResolved, found>>
  BY DEF Unshare, GoOn, scratchVars
<1>2. found = "none"
  BY <1>1 DEF ResolutionIInv, CursorInRange, Resolving
<1>3. ResolutionTypeOK'
  BY <1>1, SlotsStay DEF ResolutionIInv, ResolutionTypeOK, TreeTypeOK, Resolving
<1>4. /\ IsFiniteSet(DOMAIN tree)' /\ NothingResolved' /\ InOrder' /\ CountSound'
      /\ EntriesCounted' /\ Gathered'
  BY <1>1, LaterKeeps DEF Resolving
<1>5. CursorInRange'
  BY <1>1, <1>2, VectorsHoldEntries DEF CursorInRange
<1>6. SlotsSound' /\ OverlaysGetTheirLayers' /\ FilesAreGenuine'
  <2>1. Resolved = {} /\ Resolved' = {}
    BY <1>1 DEF Resolved
  <2> QED
    BY <1>1, <2>1, SlotsStay, ResolvedStay DEF Resolving
<1>7. LayersSound'
  <2>1. \A i : FormAt(i)' = FormAt(i)
    BY <1>1 DEF FormAt
  <2> QED
    BY <1>1, <2>1, LayersStay DEF Resolving
<1>8. ResolvedCounted'
  BY <1>1 DEF ResolvedCounted
<1> QED
  BY <1>3, <1>4, <1>5, <1>6, <1>7, <1>8 DEF ResolutionIInv

LEMMA CaptureKeeps == ASSUME ResolutionIInv, Capture PROVE ResolutionIInv'
<1>1. /\ stage = "capture" /\ stage' = "capture" /\ cursor <= Len(namespaces)
      /\ found' \in {"genuine", "other"}
      /\ UNCHANGED <<tree, stack, counted, hostMountCount, replaced, unvisited,
                     namespaces, layers, overlays, cursor, nextLayer, slots, nResolved>>
  BY DEF Capture, Stay, scratchVars
<1>2. ResolutionTypeOK'
  BY <1>1, SlotsStay DEF ResolutionIInv, ResolutionTypeOK, TreeTypeOK
<1>3. /\ IsFiniteSet(DOMAIN tree)' /\ NothingResolved' /\ InOrder' /\ CountSound'
      /\ EntriesCounted' /\ Gathered'
  BY <1>1, LaterKeeps DEF Resolving
<1>4. CursorInRange'
  BY <1>1 DEF ResolutionIInv, CursorInRange
<1>5. SlotsSound' /\ OverlaysGetTheirLayers' /\ FilesAreGenuine'
  <2>1. Resolved' = Resolved
    BY <1>1 DEF Resolved
  <2> QED
    BY <1>1, <2>1, SlotsStay, ResolvedStay DEF Resolving
<1>6. LayersSound'
  <2>1. \A i : FormAt(i)' = FormAt(i)
    BY <1>1 DEF FormAt
  <2> QED
    BY <1>1, <2>1, LayersStay DEF Resolving
<1>7. ResolvedCounted'
  BY <1>1 DEF ResolvedCounted
<1> QED
  BY <1>2, <1>3, <1>4, <1>5, <1>6, <1>7 DEF ResolutionIInv

\* What has been handled is what lies before the cursor.
LEMMA CursorMoves ==
  ASSUME NEW s, NEW c \in Nat \ {0}
  PROVE  {s[i] : i \in 1 .. (c + 1) - 1} = {s[i] : i \in 1 .. c - 1} \cup {s[c]}
<1>1. 1 .. (c + 1) - 1 = (1 .. c - 1) \cup {c}
  OBVIOUS
<1> QED
  BY <1>1

LEMMA CursorAtEnd ==
  ASSUME NEW S, NEW s \in Seq(S), NEW c \in 1 .. Len(s) + 1, c > Len(s)
  PROVE  {s[i] : i \in 1 .. c - 1} = Elements(s)
<1>1. 1 .. c - 1 = DOMAIN s
  OBVIOUS
<1> QED
  BY <1>1 DEF Elements

LEMMA VerifyKeeps == ASSUME ResolutionIInv, Verify PROVE ResolutionIInv'
<1> DEFINE d == namespaces[cursor]
<1>1. /\ stage = "capture" /\ stage' = "capture" /\ found = "genuine"
      /\ slots' = Written(Rank(d), SlotFor(d, <<>>, TRUE))
      /\ cursor' = cursor + 1 /\ found' = "none"
      /\ UNCHANGED <<tree, stack, counted, hostMountCount, replaced, unvisited,
                     namespaces, layers, overlays, nextLayer, nResolved>>
  BY DEF Verify, Stay, scratchVars, Current
<1>2. cursor \in 1 .. Len(namespaces)
  BY <1>1, VectorsHoldEntries DEF ResolutionIInv, CursorInRange
<1>3. d \in DOMAIN tree /\ IsBind(tree[d])
  <2>1. d \in Elements(namespaces)
    BY <1>2, VectorsHoldEntries DEF Elements
  <2>2. d \in Bound(DOMAIN tree)
    BY <1>1, <2>1 DEF ResolutionIInv, Gathered, Resolving
  <2> QED
    BY <2>2 DEF Bound
<1>4. ~IsOverlay(tree[d])
  BY <1>3 DEF IsBind, IsOverlay
<1>5. Resolved' = Resolved \cup {d}
  <2>1. cursor \in Nat \ {0}
    BY <1>2, VectorsHoldEntries
  <2>2. /\ Resolved = {namespaces[i] : i \in 1 .. cursor - 1}
        /\ Resolved' = {namespaces[i] : i \in 1 .. (cursor + 1) - 1}
    BY <1>1 DEF Resolved
  <2> QED
    BY <2>1, <2>2, CursorMoves
<1> HIDE DEF d
<1>6. /\ SlotsTyped' /\ SlotsSound' /\ OverlaysGetTheirLayers' /\ FilesAreGenuine'
  <2>1. <<>> \in Seq(AnyLayer)
    OBVIOUS
  <2> QED
    BY <1>1, <1>3, <1>4, <1>5, <2>1, WriteKeeps DEF Resolving
<1>7. ResolutionTypeOK'
  BY <1>1, <1>6 DEF ResolutionIInv, ResolutionTypeOK, TreeTypeOK
<1>8. /\ IsFiniteSet(DOMAIN tree)' /\ NothingResolved' /\ InOrder' /\ CountSound'
      /\ EntriesCounted' /\ Gathered'
  BY <1>1, LaterKeeps DEF Resolving
<1>9. CursorInRange'
  BY <1>1, <1>2, VectorsHoldEntries DEF CursorInRange
<1>10. LayersSound'
  <2>1. \A i : FormAt(i)' = FormAt(i)
    BY <1>1 DEF FormAt
  <2> QED
    BY <1>1, <2>1, LayersStay DEF Resolving
<1>11. ResolvedCounted'
  BY <1>1 DEF ResolvedCounted
<1> QED
  BY <1>6, <1>7, <1>8, <1>9, <1>10, <1>11 DEF ResolutionIInv

LEMMA CapturedKeeps == ASSUME ResolutionIInv, Captured PROVE ResolutionIInv'
<1>1. /\ stage = "capture" /\ stage' = "convert" /\ cursor > Len(namespaces)
      /\ cursor' = 1 /\ nResolved' = Len(namespaces)
      /\ UNCHANGED <<tree, stack, counted, hostMountCount, replaced, unvisited,
                     namespaces, layers, overlays, nextLayer, slots, found>>
  BY DEF Captured, GoOn, scratchVars
<1>2. found = "none" /\ cursor \in 1 .. Len(namespaces) + 1
  <2>1. cursor \in Nat /\ ~(cursor <= Len(namespaces))
    BY <1>1, VectorsHoldEntries DEF ResolutionIInv, ResolutionTypeOK
  <2> QED
    BY <1>1, <2>1 DEF ResolutionIInv, CursorInRange
<1>3. ResolutionTypeOK'
  BY <1>1, VectorsHoldEntries, SlotsStay
     DEF ResolutionIInv, ResolutionTypeOK, TreeTypeOK, Resolving
<1>4. /\ IsFiniteSet(DOMAIN tree)' /\ NothingResolved' /\ InOrder' /\ CountSound'
      /\ EntriesCounted' /\ Gathered'
  BY <1>1, LaterKeeps DEF Resolving
<1>5. CursorInRange'
  BY <1>1, <1>2, VectorsHoldEntries DEF CursorInRange
<1>6. SlotsSound' /\ OverlaysGetTheirLayers' /\ FilesAreGenuine'
  <2>1. namespaces \in Seq(DOMAIN tree)
    BY DEF ResolutionIInv, ResolutionTypeOK
  <2>2. Resolved = Elements(namespaces)
    BY <1>1, <1>2, <2>1, CursorAtEnd DEF Resolved
  <2>3. Elements(namespaces) = Bound(DOMAIN tree)
    BY <1>1 DEF ResolutionIInv, Gathered, Resolving
  <2>4. Resolved' = Bound(DOMAIN tree)
    BY <1>1, TreeFixed DEF Resolved
  <2> QED
    BY <1>1, <2>2, <2>3, <2>4, SlotsStay, ResolvedStay DEF Resolving
<1>7. LayersSound'
  <2>1. \A i \in 1 .. Len(layers) : FormAt(i)' = FormAt(i)
    BY <1>1, VectorsHoldEntries DEF FormAt
  <2> QED
    BY <1>1, <2>1, LayersStay DEF Resolving
<1>8. ResolvedCounted'
  BY <1>1 DEF ResolvedCounted
<1> QED
  BY <1>3, <1>4, <1>5, <1>6, <1>7, <1>8 DEF ResolutionIInv

LEMMA ConvertKeeps == ASSUME ResolutionIInv, Convert PROVE ResolutionIInv'
<1>1. /\ stage = "convert" /\ stage' = "convert" /\ cursor <= Len(layers)
      /\ layers' = [layers EXCEPT ![cursor].form = "mount"] /\ cursor' = cursor + 1
      /\ UNCHANGED <<tree, stack, counted, hostMountCount, replaced, unvisited,
                     namespaces, overlays, nextLayer, slots, nResolved, found>>
  BY DEF Convert, Stay, scratchVars
<1>2. cursor \in 1 .. Len(layers) /\ layers \in Seq(AnyLayer)
  BY <1>1, VectorsHoldEntries DEF ResolutionIInv, CursorInRange, ResolutionTypeOK
<1> DEFINE new == [layers[cursor] EXCEPT !.form = "mount"]
<1>3. new \in AnyLayer
  <2>1. layers[cursor] \in AnyLayer
    BY <1>2
  <2>2. \A r \in AnyLayer : [r EXCEPT !.form = "mount"] \in AnyLayer
    BY DEF AnyLayer
  <2> QED
    BY <2>1, <2>2
<1>4. layers' = [layers EXCEPT ![cursor] = new]
  BY <1>1
<1> HIDE DEF new
<1>5. /\ layers' \in Seq(AnyLayer) /\ Len(layers') = Len(layers)
      /\ \A i \in 1 .. Len(layers) : layers'[i] = IF i = cursor THEN new ELSE layers[i]
  BY <1>2, <1>3, <1>4, ExceptSeq
<1>6. ResolutionTypeOK'
  BY <1>1, <1>5, SlotsStay DEF ResolutionIInv, ResolutionTypeOK, TreeTypeOK
<1>7. /\ IsFiniteSet(DOMAIN tree)' /\ NothingResolved' /\ InOrder' /\ CountSound'
      /\ EntriesCounted' /\ Gathered'
  BY <1>1, <1>5, LaterKeeps DEF Resolving
<1>8. CursorInRange'
  <2>1. cursor + 1 \in 1 .. Len(layers) + 1 /\ found = "none"
    BY <1>1, <1>2, VectorsHoldEntries DEF ResolutionIInv, CursorInRange, Resolving
  <2> QED
    BY <1>1, <1>5, <2>1 DEF CursorInRange
<1>9. SlotsSound' /\ OverlaysGetTheirLayers' /\ FilesAreGenuine'
  <2>1. Resolved' = Resolved
    BY <1>1, TreeFixed DEF Resolved
  <2> QED
    BY <1>1, <2>1, SlotsStay, ResolvedStay DEF Resolving
<1>10. LayersSound'
  <2>1. PICK from \in [1 .. Len(overlays) + 1 -> 0 .. Len(layers)] : Laid(from) /\ nextLayer = 0
    BY <1>1 DEF ResolutionIInv, LayersSound, Resolving
  <2>2. Len(overlays) \in Nat /\ Len(layers) \in Nat
    BY VectorsHoldEntries
  <2>3. /\ from[1] = 0 /\ from[Len(overlays) + 1] = Len(layers)
        /\ \A i \in 1 .. Len(overlays) : from[i + 1] = from[i] + LayersUsed(overlays[i])
        /\ \A i \in 1 .. Len(overlays) : \A n \in 1 .. LayersUsed(overlays[i]) :
             layers[from[i] + n] = LayersOf(overlays[i], FormAt(from[i] + n))[n]
    BY <2>1 DEF Laid
  <2>4. ASSUME NEW i \in 1 .. Len(overlays), NEW n \in 1 .. LayersUsed(overlays[i])
        PROVE  layers'[from[i] + n] = LayersOf(overlays[i], FormAt(from[i] + n)')[n]
    <3> DEFINE k == from[i] + n
    <3>1. overlays[i] \in Paths /\ tree[overlays[i]] \in Mount /\ LayersUsed(overlays[i]) \in Nat
      BY VectorsHoldEntries, EntryIsMount, LayersOfOverlay DEF ResolutionIInv, ResolutionTypeOK
    <3>2. from[i] \in 0 .. Len(layers) /\ from[i + 1] \in 0 .. Len(layers)
      BY <2>2
    <3>3. from[i] \in Nat /\ from[i] + LayersUsed(overlays[i]) <= Len(layers)
      BY <2>2, <2>3, <3>2
    <3>4. k \in 1 .. Len(layers)
      BY <2>2, <3>1, <3>3
    <3>5. layers[k] = LayersOf(overlays[i], FormAt(k))[n]
      BY <2>3
    <3> HIDE DEF k
    <3>6. /\ FormAt(k) = IF k < cursor THEN "mount" ELSE "namespace"
          /\ FormAt(k)' = IF k < cursor + 1 THEN "mount" ELSE "namespace"
      BY <1>1 DEF FormAt
    <3>7. CASE k = cursor
      <4>1. FormAt(k) = "namespace" /\ FormAt(k)' = "mount"
        BY <3>4, <3>6, <3>7
      <4>2. layers'[k] = [LayersOf(overlays[i], "namespace")[n] EXCEPT !.form = "mount"]
        BY <1>5, <3>4, <3>5, <3>7, <4>1 DEF new
      <4>3. layers'[k] = LayersOf(overlays[i], FormAt(k)')[n]
        BY <3>1, <4>1, <4>2, ConvertedLayer, SMTT(30)
      <4> QED
        BY <4>3 DEF k
    <3>8. CASE k # cursor
      <4>1. FormAt(k)' = FormAt(k)
        BY <1>2, <3>4, <3>6, <3>8
      <4>2. layers'[k] = LayersOf(overlays[i], FormAt(k)')[n]
        BY <1>5, <3>4, <3>5, <3>8, <4>1
      <4> QED
        BY <4>2 DEF k
    <3> QED
      BY <3>7, <3>8
  <2>5. Laid(from)'
    <3>1. /\ \A p : LayersUsed(p)' = LayersUsed(p)
          /\ \A p, form : LayersOf(p, form)' = LayersOf(p, form)
      BY <1>1, TreeFixed
    <3>2. \A i \in 1 .. Len(overlays) :
            /\ from[i + 1] = from[i] + LayersUsed(overlays[i])
            /\ \A n \in 1 .. LayersUsed(overlays[i]) :
                 layers'[from[i] + n] = LayersOf(overlays[i], FormAt(from[i] + n)')[n]
      BY <2>3, <2>4
    <3>3. from[1] = 0 /\ from[Len(overlays) + 1] = Len(layers')
      BY <1>5, <2>3
    <3>4. overlays' = overlays
      BY <1>1
    <3> QED
      BY <3>1, <3>2, <3>3, <3>4 DEF Laid
  <2> QED
    BY <1>1, <1>5, <2>1, <2>5 DEF LayersSound
<1>11. ResolvedCounted'
  BY <1>1 DEF ResolutionIInv, ResolvedCounted
<1> QED
  BY <1>6, <1>7, <1>8, <1>9, <1>10, <1>11 DEF ResolutionIInv

LEMMA ConvertedKeeps == ASSUME ResolutionIInv, Converted PROVE ResolutionIInv'
<1>1. /\ stage = "convert" /\ stage' = "overlays" /\ cursor > Len(layers) /\ cursor' = 1
      /\ UNCHANGED <<tree, stack, counted, hostMountCount, replaced, unvisited,
                     namespaces, layers, overlays, nextLayer, slots, nResolved, found>>
  BY DEF Converted, GoOn, scratchVars
<1>2. found = "none"
  BY <1>1 DEF ResolutionIInv, CursorInRange, Resolving
<1>3. ResolutionTypeOK'
  BY <1>1, SlotsStay DEF ResolutionIInv, ResolutionTypeOK, TreeTypeOK, Resolving
<1>4. /\ IsFiniteSet(DOMAIN tree)' /\ NothingResolved' /\ InOrder' /\ CountSound'
      /\ EntriesCounted' /\ Gathered'
  BY <1>1, LaterKeeps DEF Resolving
<1>5. CursorInRange'
  BY <1>1, <1>2, VectorsHoldEntries DEF CursorInRange
<1>6. SlotsSound' /\ OverlaysGetTheirLayers' /\ FilesAreGenuine'
  <2>1. {overlays[i] : i \in 1 .. 1 - 1} = {}
    OBVIOUS
  <2>2. Resolved' = Resolved
    BY <1>1, <2>1, TreeFixed DEF Resolved
  <2> QED
    BY <1>1, <2>2, SlotsStay, ResolvedStay DEF Resolving
<1>7. LayersSound'
  <2>1. \A i \in 1 .. Len(layers) : FormAt(i)' = FormAt(i)
    <3>1. cursor \in Nat /\ Len(layers) \in Nat
      BY VectorsHoldEntries DEF ResolutionIInv, ResolutionTypeOK
    <3> QED
      BY <1>1, <3>1 DEF FormAt
  <2> QED
    BY <1>1, <2>1, LayersStay DEF Resolving
<1>8. ResolvedCounted'
  BY <1>1 DEF ResolutionIInv, ResolvedCounted
<1> QED
  BY <1>3, <1>4, <1>5, <1>6, <1>7, <1>8 DEF ResolutionIInv

LEMMA FinishOverlayKeeps == ASSUME ResolutionIInv, FinishOverlay PROVE ResolutionIInv'
<1> DEFINE p == overlays[cursor]
           used == SubSeq(layers, nextLayer + 1, nextLayer + LayersUsed(p))
<1>1. /\ stage = "overlays" /\ stage' = "overlays" /\ cursor <= Len(overlays)
      /\ nextLayer' = nextLayer + LayersUsed(p)
      /\ slots' = Written(Rank(p), SlotFor(p, used, TRUE))
      /\ cursor' = cursor + 1
      /\ UNCHANGED <<tree, stack, counted, hostMountCount, replaced, unvisited,
                     namespaces, layers, overlays, nResolved, found>>
  BY DEF FinishOverlay, Stay, scratchVars
<1>2. cursor \in 1 .. Len(overlays) /\ cursor \in Nat \ {0}
  BY <1>1, VectorsHoldEntries DEF ResolutionIInv, CursorInRange
<1>3. p \in DOMAIN tree /\ p \in Paths /\ tree[p] \in Mount /\ LayersUsed(p) \in Nat
  <2>1. p \in DOMAIN tree
    BY <1>2, VectorsHoldEntries
  <2> QED
    BY <2>1, EntryIsMount, LayersOfOverlay DEF ResolutionIInv, ResolutionTypeOK
<1>4. used = LayersOf(p, "mount")
  <2>1. PICK from \in [1 .. Len(overlays) + 1 -> 0 .. Len(layers)] :
          Laid(from) /\ nextLayer = from[cursor]
    BY <1>1 DEF ResolutionIInv, LayersSound, Resolving
  <2>2. /\ from[cursor + 1] = from[cursor] + LayersUsed(p)
        /\ \A n \in 1 .. LayersUsed(p) : layers[nextLayer + n] = LayersOf(p, "mount")[n]
    BY <1>1, <1>2, <2>1 DEF Laid, FormAt
  <2>3. from[cursor] \in 0 .. Len(layers) /\ from[cursor + 1] \in 0 .. Len(layers)
    BY <1>2, <2>1, VectorsHoldEntries
  <2>4. nextLayer \in Nat /\ nextLayer + LayersUsed(p) <= Len(layers)
    BY <2>1, <2>2, <2>3, VectorsHoldEntries
  <2>5. layers \in Seq(AnyLayer)
    BY DEF ResolutionIInv, ResolutionTypeOK
  <2> HIDE DEF p
  <2> QED
    BY <1>3, <2>2, <2>4, <2>5, CutLayers
<1>5. used \in Seq(AnyLayer)
  BY <1>3, <1>4, LayersOfOverlay
<1>6. Resolved' = Resolved \cup {p}
  <2>1. /\ Resolved = Bound(DOMAIN tree) \cup {overlays[i] : i \in 1 .. cursor - 1}
        /\ Resolved' = Bound(DOMAIN tree)' \cup {overlays[i] : i \in 1 .. (cursor + 1) - 1}
    BY <1>1 DEF Resolved
  <2>2. Bound(DOMAIN tree)' = Bound(DOMAIN tree)
    BY <1>1 DEF Bound
  <2> QED
    BY <1>2, <2>1, <2>2, CursorMoves
<1>7. LayersSound'
  <2>1. \A i : FormAt(i)' = FormAt(i)
    BY <1>1 DEF FormAt
  <2> QED
    BY <1>1, <2>1, LayersStay DEF Resolving
<1> HIDE DEF p, used
<1>8. /\ SlotsTyped' /\ SlotsSound' /\ OverlaysGetTheirLayers' /\ FilesAreGenuine'
  BY <1>1, <1>3, <1>4, <1>5, <1>6, WriteKeeps DEF Resolving
<1>9. ResolutionTypeOK'
  BY <1>1, <1>3, <1>8 DEF ResolutionIInv, ResolutionTypeOK, TreeTypeOK
<1>10. /\ IsFiniteSet(DOMAIN tree)' /\ NothingResolved' /\ InOrder' /\ CountSound'
       /\ EntriesCounted' /\ Gathered'
  BY <1>1, LaterKeeps DEF Resolving
<1>11. CursorInRange'
  <2>1. cursor + 1 \in 1 .. Len(overlays) + 1 /\ found = "none"
    BY <1>1, <1>2, VectorsHoldEntries DEF ResolutionIInv, CursorInRange, Resolving
  <2> QED
    BY <1>1, <2>1 DEF CursorInRange
<1>12. ResolvedCounted'
  BY <1>1 DEF ResolutionIInv, ResolvedCounted
<1> QED
  BY <1>7, <1>8, <1>9, <1>10, <1>11, <1>12 DEF ResolutionIInv

LEMMA OverlaysFinishedKeeps == ASSUME ResolutionIInv, OverlaysFinished PROVE ResolutionIInv'
<1>1. /\ stage = "overlays" /\ stage' = "fresh" /\ cursor > Len(overlays)
      /\ nResolved' = nResolved + Len(overlays) /\ unvisited' = DOMAIN tree
      /\ UNCHANGED <<tree, stack, counted, hostMountCount, replaced,
                     namespaces, layers, overlays, cursor, nextLayer, slots, found>>
  BY DEF OverlaysFinished, GoOn, scratchVars
<1>2. found = "none" /\ cursor \in 1 .. Len(overlays) + 1
  BY <1>1 DEF ResolutionIInv, CursorInRange, Resolving
<1>3. ResolutionTypeOK'
  BY <1>1, VectorsHoldEntries, SlotsStay
     DEF ResolutionIInv, ResolutionTypeOK, TreeTypeOK, Resolving
<1>4. /\ IsFiniteSet(DOMAIN tree)' /\ NothingResolved' /\ InOrder' /\ CountSound'
      /\ EntriesCounted' /\ Gathered'
  BY <1>1, LaterKeeps DEF Resolving
<1>5. CursorInRange'
  BY <1>1, <1>2 DEF CursorInRange
<1>6. SlotsSound' /\ OverlaysGetTheirLayers' /\ FilesAreGenuine'
  <2>1. overlays \in Seq(DOMAIN tree)
    BY DEF ResolutionIInv, ResolutionTypeOK
  <2>2. {overlays[i] : i \in 1 .. cursor - 1} = Elements(overlays)
    BY <1>1, <1>2, <2>1, CursorAtEnd
  <2>3. Elements(overlays) = Overlaid(DOMAIN tree)
    BY <1>1 DEF ResolutionIInv, Gathered, Resolving
  <2>4. Visited' = {}
    BY <1>1 DEF Visited
  <2>5. /\ Resolved = Bound(DOMAIN tree) \cup Overlaid(DOMAIN tree)
        /\ Resolved' = Bound(DOMAIN tree)' \cup Overlaid(DOMAIN tree)' \cup {}
    BY <1>1, <2>2, <2>3, <2>4 DEF Resolved
  <2>6. Resolved' = Resolved
    BY <1>1, <2>5 DEF Bound, Overlaid
  <2> QED
    BY <1>1, <2>6, SlotsStay, ResolvedStay DEF Resolving
<1>7. LayersSound'
  BY <1>1 DEF LayersSound
<1>8. ResolvedCounted'
  <2>1. nResolved = Len(namespaces)
    BY <1>1 DEF ResolutionIInv, ResolvedCounted
  <2>2. Fresh(Visited)' = {} /\ Cardinality({}) = 0
    BY <1>1, FS_EmptySet DEF Fresh, Visited
  <2> QED
    BY <1>1, <2>1, <2>2, VectorsHoldEntries DEF ResolvedCounted
<1> QED
  BY <1>3, <1>4, <1>5, <1>6, <1>7, <1>8 DEF ResolutionIInv

LEMMA MakeFreshKeeps ==
  ASSUME ResolutionIInv, NEW d \in unvisited, MakeFresh(d) PROVE ResolutionIInv'
<1>1. /\ stage = "fresh" /\ stage' = "fresh" /\ ~IsOverlay(tree[d]) /\ ~IsBind(tree[d])
      /\ unvisited' = unvisited \ {d}
      /\ slots' = Written(Rank(d), SlotFor(d, <<>>, TRUE)) /\ nResolved' = nResolved + 1
      /\ UNCHANGED <<tree, stack, counted, hostMountCount, replaced,
                     namespaces, layers, overlays, cursor, nextLayer, found>>
  BY DEF MakeFresh, Stay, scratchVars
<1>2. d \in DOMAIN tree /\ unvisited \subseteq DOMAIN tree
  BY DEF ResolutionIInv, ResolutionTypeOK, TreeTypeOK
<1>3. Resolved' = Resolved \cup {d}
  <2>1. Visited' = Visited \cup {d}
    BY <1>1, <1>2, NextWalked
  <2>2. /\ Resolved = Bound(DOMAIN tree) \cup Overlaid(DOMAIN tree) \cup Visited
        /\ Resolved' = Bound(DOMAIN tree)' \cup Overlaid(DOMAIN tree)' \cup Visited'
    BY <1>1 DEF Resolved
  <2>3. Bound(DOMAIN tree)' = Bound(DOMAIN tree) /\ Overlaid(DOMAIN tree)' = Overlaid(DOMAIN tree)
    BY <1>1 DEF Bound, Overlaid
  <2> QED
    BY <2>1, <2>2, <2>3
<1>4. /\ SlotsTyped' /\ SlotsSound' /\ OverlaysGetTheirLayers' /\ FilesAreGenuine'
  <2>1. <<>> \in Seq(AnyLayer)
    OBVIOUS
  <2> QED
    BY <1>1, <1>2, <1>3, <2>1, WriteKeeps DEF Resolving
<1>5. ResolutionTypeOK'
  BY <1>1, <1>2, <1>4 DEF ResolutionIInv, ResolutionTypeOK, TreeTypeOK
<1>6. /\ IsFiniteSet(DOMAIN tree)' /\ NothingResolved' /\ InOrder' /\ CountSound'
      /\ EntriesCounted' /\ Gathered'
  BY <1>1, LaterKeeps DEF Resolving
<1>7. CursorInRange' /\ LayersSound'
  BY <1>1 DEF ResolutionIInv, CursorInRange, LayersSound, Resolving
<1>8. ResolvedCounted'
  <2>1. nResolved = Len(namespaces) + Len(overlays) + Cardinality(Fresh(Visited))
    BY <1>1 DEF ResolutionIInv, ResolvedCounted
  <2>2. Visited' = Visited \cup {d} /\ d \notin Visited
    BY <1>1, <1>2, NextWalked
  <2>3. Fresh(Visited)' = Fresh(Visited) \cup {d} /\ d \notin Fresh(Visited)
    BY <1>1, <2>2 DEF Fresh
  <2>4. IsFiniteSet(Fresh(Visited))
    <3>1. Fresh(Visited) \in SUBSET DOMAIN tree /\ IsFiniteSet(DOMAIN tree)
      BY DEF ResolutionIInv, Fresh, Visited
    <3> QED
      BY <3>1, FS_Subset
  <2>5. /\ Cardinality(Fresh(Visited) \cup {d}) = Cardinality(Fresh(Visited)) + 1
        /\ Cardinality(Fresh(Visited)) \in Nat
    BY <2>3, <2>4, FS_AddElement, FS_CardinalityType
  <2> QED
    BY <1>1, <2>1, <2>3, <2>5, VectorsHoldEntries DEF ResolvedCounted
<1> QED
  BY <1>4, <1>5, <1>6, <1>7, <1>8 DEF ResolutionIInv

LEMMA SkipResolvedKeeps ==
  ASSUME ResolutionIInv, NEW d \in unvisited, SkipResolved(d) PROVE ResolutionIInv'
<1>1. /\ stage = "fresh" /\ stage' = "fresh" /\ (IsBind(tree[d]) \/ IsOverlay(tree[d]))
      /\ unvisited' = unvisited \ {d}
      /\ UNCHANGED <<tree, stack, counted, hostMountCount, replaced,
                     namespaces, layers, overlays, cursor, nextLayer, slots, nResolved, found>>
  BY DEF SkipResolved, Stay, resolveVars, scratchVars
<1>2. d \in DOMAIN tree /\ unvisited \subseteq DOMAIN tree
  BY DEF ResolutionIInv, ResolutionTypeOK, TreeTypeOK
<1>3. Resolved' = Resolved
  <2>1. Visited' = Visited \cup {d}
    BY <1>1, <1>2, NextWalked
  <2>2. /\ Resolved = Bound(DOMAIN tree) \cup Overlaid(DOMAIN tree) \cup Visited
        /\ Resolved' = Bound(DOMAIN tree)' \cup Overlaid(DOMAIN tree)' \cup Visited'
    BY <1>1 DEF Resolved
  <2>3. Bound(DOMAIN tree)' = Bound(DOMAIN tree) /\ Overlaid(DOMAIN tree)' = Overlaid(DOMAIN tree)
    BY <1>1 DEF Bound, Overlaid
  <2>4. d \in Bound(DOMAIN tree) \cup Overlaid(DOMAIN tree)
    BY <1>1, <1>2 DEF Bound, Overlaid
  <2> QED
    BY <2>1, <2>2, <2>3, <2>4
<1>4. SlotsSound' /\ OverlaysGetTheirLayers' /\ FilesAreGenuine'
  BY <1>1, <1>3, SlotsStay, ResolvedStay DEF Resolving
<1>5. ResolutionTypeOK'
  BY <1>1, <1>2, SlotsStay DEF ResolutionIInv, ResolutionTypeOK, TreeTypeOK
<1>6. /\ IsFiniteSet(DOMAIN tree)' /\ NothingResolved' /\ InOrder' /\ CountSound'
      /\ EntriesCounted' /\ Gathered'
  BY <1>1, LaterKeeps DEF Resolving
<1>7. CursorInRange' /\ LayersSound'
  BY <1>1 DEF ResolutionIInv, CursorInRange, LayersSound, Resolving
<1>8. ResolvedCounted'
  <2>1. Visited' = Visited \cup {d}
    BY <1>1, <1>2, NextWalked
  <2>2. Fresh(Visited)' = Fresh(Visited)
    BY <1>1, <2>1 DEF Fresh
  <2> QED
    BY <1>1, <2>2 DEF ResolutionIInv, ResolvedCounted
<1> QED
  BY <1>4, <1>5, <1>6, <1>7, <1>8 DEF ResolutionIInv

-----------------------------------------------------------------------------
\* The end.

LEMMA EndResolves ==
  ASSUME ResolutionIInv, SetLen \/ FailToResolve PROVE ResolutionIInv'
<1>1. /\ stage' \in {"ready", "failed"} /\ stage \in Resolving
      /\ UNCHANGED <<tree, stack, counted, hostMountCount, replaced, unvisited,
                     namespaces, layers, overlays, cursor, nextLayer, slots, nResolved, found>>
  BY DEF SetLen, FailToResolve, GoOn, walkVars, resolveVars, scratchVars, Resolving
<1>2. stage' \notin Resolving \cup BeforeResolving
  BY <1>1 DEF Resolving, BeforeResolving
<1>3. ResolutionTypeOK' /\ IsFiniteSet(DOMAIN tree)'
  BY <1>1, SlotsStay DEF ResolutionIInv, ResolutionTypeOK, TreeTypeOK
<1>4. /\ NothingResolved' /\ InOrder' /\ CountSound' /\ EntriesCounted' /\ Gathered'
      /\ CursorInRange' /\ LayersSound' /\ ResolvedCounted'
  BY <1>2
     DEF NothingResolved, InOrder, CountSound, EntriesCounted, ResolvedCounted, Gathered, CursorInRange,
              LayersSound, Resolving, BeforeResolving
<1>5. OverlaysGetTheirLayers' /\ FilesAreGenuine'
  BY <1>1, SlotsStay
<1>6. SlotsSound'
  <2>1. CASE SetLen
    <3>1. stage = "fresh" /\ stage' = "ready" /\ unvisited = {}
      BY <2>1 DEF SetLen, GoOn
    <3>2. Visited = DOMAIN tree
      BY <3>1 DEF Visited
    <3>3. Resolved = DOMAIN tree /\ Resolved' = DOMAIN tree
      BY <1>1, <3>1, <3>2 DEF Resolved, Bound, Overlaid
    <3> QED
      BY <1>1, <3>1, <3>3, ResolvedStay
  <2>2. CASE FailToResolve
    <3>1. stage' = "failed"
      BY <2>2 DEF FailToResolve
    <3> QED
      BY <3>1 DEF SlotsSound, Resolving
  <2> QED
    BY <2>1, <2>2
<1> QED
  BY <1>3, <1>4, <1>5, <1>6 DEF ResolutionIInv

\* Nothing depends on what the host renames, but for what a capture finds.
LEMMA RenamesKeep ==
  ASSUME ResolutionIInv, UNCHANGED <<treeVars, resolveVars>>, replaced' \subseteq Paths
  PROVE  ResolutionIInv'
<1>1. UNCHANGED <<tree, stage, stack, counted, hostMountCount, unvisited,
                  namespaces, layers, overlays, cursor, nextLayer, slots, nResolved, found>>
  BY DEF treeVars, walkVars, resolveVars, scratchVars
<1>2. ResolutionTypeOK' /\ IsFiniteSet(DOMAIN tree)'
  BY <1>1, SlotsStay DEF ResolutionIInv, ResolutionTypeOK, TreeTypeOK
<1>3. NothingResolved' /\ CursorInRange'
  BY <1>1 DEF ResolutionIInv, NothingResolved, CursorInRange
<1>4. InOrder'
  BY <1>1 DEF ResolutionIInv, InOrder, Visited
<1>5. CountSound'
  BY <1>1 DEF ResolutionIInv, CountSound, Budget, Visited
<1>6. EntriesCounted' /\ ResolvedCounted'
  BY <1>1 DEF ResolutionIInv, EntriesCounted, ResolvedCounted, Visited, Bound, Overlaid, Fresh
<1>7. Gathered'
  BY <1>1 DEF ResolutionIInv, Gathered, Visited, Elements, Bound, Overlaid
<1>8. Resolved' = Resolved
  BY <1>1 DEF Resolved, Bound, Overlaid, Visited
<1>9. SlotsSound'
  BY <1>1, <1>8, TreeFixed DEF ResolutionIInv, SlotsSound
<1>10. OverlaysGetTheirLayers' /\ FilesAreGenuine'
  BY <1>1, SlotsStay
<1>11. LayersSound'
  <2> SUFFICES ASSUME stage \in Resolving \ {"fresh"} PROVE LayersSound'
    BY <1>1 DEF LayersSound
  <2>1. PICK from \in [1 .. Len(overlays) + 1 -> 0 .. Len(layers)] :
          Laid(from) /\ nextLayer = IF stage = "overlays" THEN from[cursor] ELSE 0
    BY DEF ResolutionIInv, LayersSound
  <2>2. /\ \A p : LayersUsed(p)' = LayersUsed(p)
        /\ \A p, form : LayersOf(p, form)' = LayersOf(p, form)
        /\ \A i : FormAt(i)' = FormAt(i)
    BY <1>1, TreeFixed DEF FormAt
  <2>3. Laid(from)'
    BY <1>1, <2>1, <2>2 DEF Laid
  <2> QED
    BY <1>1, <2>1, <2>3 DEF LayersSound
<1> QED
  BY <1>2, <1>3, <1>4, <1>5, <1>6, <1>7, <1>9, <1>10, <1>11 DEF ResolutionIInv

LEMMA ResolutionInvariance == ResolutionSpec => []ResolutionIInv
<1>1. ResolutionIInv /\ [ResolutionNext]_resolutionVars => ResolutionIInv'
  <2> SUFFICES ASSUME ResolutionIInv, [ResolutionNext]_resolutionVars PROVE ResolutionIInv'
    OBVIOUS
  <2>1. ASSUME NEW p \in Paths, HostRenames(p) PROVE ResolutionIInv'
    <3>1. UNCHANGED <<treeVars, resolveVars>> /\ replaced' \subseteq Paths
      BY <2>1 DEF HostRenames, ResolutionIInv, ResolutionTypeOK
    <3> QED
      BY <3>1, RenamesKeep
  <2>2. CASE UNCHANGED resolutionVars
    <3>1. UNCHANGED <<treeVars, resolveVars>> /\ replaced' \subseteq Paths
      BY <2>2 DEF resolutionVars, ResolutionIInv, ResolutionTypeOK
    <3> QED
      BY <3>1, RenamesKeep
  <2>3. CASE ResolveStep
    BY <2>3, StartKeeps, CollectBindKeeps, CollectOverlayKeeps, CollectNothingKeeps, UnshareKeeps,
       CaptureKeeps, VerifyKeeps, CapturedKeeps, ConvertKeeps, ConvertedKeeps, FinishOverlayKeeps,
       OverlaysFinishedKeeps, MakeFreshKeeps, SkipResolvedKeeps, EndResolves DEF ResolveStep
  <2>4. CASE TreeNext /\ UNCHANGED <<resolveVars, replaced>>
    BY <2>4, TreeResolvesNothing
  <2> QED
    BY <2>1, <2>2, <2>3, <2>4 DEF ResolutionNext
<1> QED
  BY <1>1, ResolutionStarts, PTL DEF ResolutionSpec

\* The sources and what is made in the last loop are the whole tree.
LEMMA CountsAddUp ==
  ASSUME FiniteTree
  PROVE  /\ Cardinality(Bound(DOMAIN tree) \cup Overlaid(DOMAIN tree)) <= Cardinality(DOMAIN tree)
         /\ Cardinality(Bound(DOMAIN tree) \cup Overlaid(DOMAIN tree)) + Cardinality(Fresh(DOMAIN tree))
              = Cardinality(DOMAIN tree)
<1> DEFINE sources == Bound(DOMAIN tree) \cup Overlaid(DOMAIN tree)
           fresh == Fresh(DOMAIN tree)
<1>1. /\ sources \in SUBSET DOMAIN tree /\ fresh \in SUBSET DOMAIN tree
      /\ sources \cup fresh = DOMAIN tree /\ sources \cap fresh = {}
  BY DEF Bound, Overlaid, Fresh
<1> HIDE DEF sources, fresh
<1>2. /\ IsFiniteSet(sources) /\ IsFiniteSet(fresh)
      /\ Cardinality(sources) <= Cardinality(DOMAIN tree)
  BY <1>1, FS_Subset DEF FiniteTree
<1>3. /\ Cardinality(sources \cup fresh)
           = Cardinality(sources) + Cardinality(fresh) - Cardinality(sources \cap fresh)
      /\ Cardinality({}) = 0 /\ Cardinality(sources) \in Nat /\ Cardinality(fresh) \in Nat
  BY <1>2, FS_Union, FS_EmptySet, FS_CardinalityType
<1>4. Cardinality(sources) + Cardinality(fresh) = Cardinality(DOMAIN tree)
  <2>1. Cardinality(sources \cup fresh) = Cardinality(DOMAIN tree)
    BY <1>1
  <2>2. Cardinality(sources \cap fresh) = 0
    BY <1>1, <1>3
  <2> QED
    BY <1>3, <2>1, <2>2
<1> QED
  BY <1>2, <1>4 DEF sources, fresh

\* After set_len each slot has been written, with the entry of its rank, and the
\* check of the count before it, MappingsLengthMismatch, never fails.
THEOREM SlotsAreComplete == ResolutionSpec => []SlotsComplete
<1>1. ASSUME ResolutionIInv, stage = "ready"
      PROVE  /\ DOMAIN slots = 0 .. Cardinality(DOMAIN tree) - 1
             /\ \A p \in DOMAIN tree : slots[Rank(p)].path = p
  <2>1. Resolved = DOMAIN tree
    BY <1>1 DEF Resolved
  <2>2. FiniteTree
    BY <1>1, VectorsHoldEntries
  <2> QED
    BY <1>1, <2>1, <2>2, RanksAreAll DEF ResolutionIInv, SlotsSound
<1>2. ASSUME ResolutionIInv, stage = "fresh", unvisited = {}
      PROVE  nResolved = Cardinality(DOMAIN tree)
  <2>1. Visited = DOMAIN tree
    BY <1>2 DEF Visited
  <2>2. nResolved = Len(namespaces) + Len(overlays) + Cardinality(Fresh(DOMAIN tree))
    BY <1>2, <2>1 DEF ResolutionIInv, ResolvedCounted
  <2>3. Len(namespaces) + Len(overlays) = Cardinality(Bound(DOMAIN tree) \cup Overlaid(DOMAIN tree))
    BY <1>2 DEF ResolutionIInv, EntriesCounted, Resolving
  <2> QED
    BY <1>2, <2>2, <2>3, VectorsHoldEntries, CountsAddUp
<1>3. ResolutionIInv => SlotsComplete
  BY <1>1, <1>2 DEF SlotsComplete
<1> QED
  BY <1>3, ResolutionInvariance, PTL

\* The guest's pushes stay within what the host thread has allocated, by the
\* count that the validator has left in the policy.
THEOREM VectorsStayWithinCapacity == ResolutionSpec => []WithinCapacity
<1>1. ResolutionIInv => WithinCapacity
  <2> SUFFICES ASSUME ResolutionIInv, stage \in Resolving
               PROVE  /\ Len(namespaces) + Len(overlays) <= Cardinality(DOMAIN tree)
                      /\ Len(layers) <= hostMountCount
    BY DEF WithinCapacity
  <2>1. \A S \in SUBSET DOMAIN tree :
          /\ Cardinality(Bound(S) \cup Overlaid(S)) <= Cardinality(DOMAIN tree)
          /\ Visited \in SUBSET DOMAIN tree
    <3> SUFFICES ASSUME NEW S \in SUBSET DOMAIN tree
                 PROVE  Cardinality(Bound(S) \cup Overlaid(S)) <= Cardinality(DOMAIN tree)
      BY DEF Visited
    <3>1. Bound(S) \cup Overlaid(S) \in SUBSET DOMAIN tree
      BY DEF Bound, Overlaid
    <3> QED
      BY <3>1, FS_Subset DEF ResolutionIInv
  <2>2. Len(namespaces) + Len(overlays) <= Cardinality(DOMAIN tree)
    BY <2>1 DEF ResolutionIInv, EntriesCounted
  <2> QED
    BY <2>2 DEF ResolutionIInv, CountSound
<1> QED
  BY <1>1, ResolutionInvariance, PTL

\* Every overlay is made of its own layers, all captured, in their order.
THEOREM OverlaysAreWhole == ResolutionSpec => []OverlaysGetTheirLayers
<1>1. ResolutionIInv => OverlaysGetTheirLayers
  BY DEF ResolutionIInv
<1> QED
  BY <1>1, ResolutionInvariance, PTL

\* No file is bound into the guest but the one that the caller has opened.
THEOREM BoundFilesAreGenuine == ResolutionSpec => []FilesAreGenuine
<1>1. ResolutionIInv => FilesAreGenuine
  BY DEF ResolutionIInv
<1> QED
  BY <1>1, ResolutionInvariance, PTL

=============================================================================

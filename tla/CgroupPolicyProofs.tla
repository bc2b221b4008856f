------------------------- MODULE CgroupPolicyProofs -------------------------
(***************************************************************************)
(* Proofs about CgroupPolicy, for any values of the attributes and any     *)
(* hierarchies: the kernel refuses nothing but what the policy itself is   *)
(* refused for, and a guest that runs has the whole policy.                *)
(***************************************************************************)
EXTENDS CgroupPolicy, FiniteSetTheorems, WellFoundedInduction, TLAPS

Positions == 1 .. 26

-----------------------------------------------------------------------------
\* The order of the settings: every controller and every attribute has one
\* position in it.

LEMMA OrderLength == Len(AttributeOrder) = 26
  BY DEF AttributeOrder

LEMMA AttributesAre ==
  Attributes = AttributesOf.cgroup \cup AttributesOf.cpu \cup AttributesOf.memory
                 \cup AttributesOf.io \cup AttributesOf.pids
<1>1. DOMAIN AttributesOf = {"cgroup", "cpu", "memory", "io", "pids"}
  BY DEF AttributesOf
<1> QED
  BY <1>1 DEF Attributes

LEMMA OnePosition ==
  ASSUME NEW j \in Positions, NEW k \in Positions, AttributeOrder[j] = AttributeOrder[k]
  PROVE  j = k
  BY DEF AttributeOrder, Positions

LEMMA SomePosition ==
  ASSUME NEW a \in Attributes \cup Controllers
  PROVE  \E j \in Positions : AttributeOrder[j] = a
  BY AttributesAre DEF AttributeOrder, AttributesOf, Controllers, Positions

LEMMA AtPosition ==
  ASSUME NEW j \in Positions
  PROVE  AttributeOrder[j] \in Attributes \cup Controllers
  BY AttributesAre DEF AttributeOrder, AttributesOf, Controllers, Positions

LEMMA NoControllerIsAttribute == Attributes \cap Controllers = {}
  BY AttributesAre DEF AttributesOf, Controllers

\* The type comes before every controller, a weight before the idle flag and a
\* quota before its burst.
LEMMA Places ==
  /\ AttributeOrder[1] = "cgroup.type" /\ AttributeOrder[5] = "cpu.weight"
  /\ AttributeOrder[6] = "cpu.max" /\ AttributeOrder[7] = "cpu.max.burst"
  /\ AttributeOrder[10] = "cpu.idle"
  /\ \A j \in Positions : AttributeOrder[j] \in Controllers => j > 1
  BY DEF AttributeOrder, Controllers, Positions

LEMMA SomeAttributes ==
  /\ {"cgroup.type", "cpu.weight", "cpu.idle", "cpu.max", "cpu.max.burst", "pids.max",
      "memory.zswap.writeback"} \subseteq Attributes
  /\ \A c \in Controllers : SubtreeOf[c] \in AttributesOf[c]
  /\ \A c \in Controllers : AttributesOf[c] \subseteq Attributes
  /\ \A c \in Controllers : SubtreeOf[c] \notin {"memory.zswap.writeback", "cpu.weight", "cpu.idle"}
  /\ \A c, d \in Controllers : SubtreeOf[c] = SubtreeOf[d] => c = d
  BY AttributesAre DEF AttributesOf, Controllers, SubtreeOf

\* A controller's attributes are its own.
LEMMA OwnAttributes ==
  /\ \A c \in Controllers : AttributesOf.cgroup \cap AttributesOf[c] = {}
  /\ \A c, d \in Controllers : c # d => AttributesOf[c] \cap AttributesOf[d] = {}
  /\ AttributesOf.cgroup \subseteq Attributes
  BY AttributesAre DEF AttributesOf, Controllers

-----------------------------------------------------------------------------
\* FirstAsked finds the first setting from i on that the policy has something
\* for, or the end.

LEMMA MinimalSet ==
  ASSUME NEW F, F # {}, \A T \in F : IsFiniteSet(T)
  PROVE  \E T \in F : \A U \in F : U \subseteq T => U = T
<1> DEFINE S == UNION F
<1>1. IsWellFoundedOn(StrictSubsetOrdering(S), FiniteSubsetsOf(S))
  BY FS_StrictSubsetOrderingWellFounded
<1>2. F \subseteq FiniteSubsetsOf(S)
  BY DEF FiniteSubsetsOf
<1>3. PICK T \in F : \A U \in F : ~(<<U, T>> \in StrictSubsetOrdering(S))
  BY <1>1, <1>2, WFMin
<1>4. \A U \in F : <<U, T>> \in (SUBSET S) \X (SUBSET S)
  OBVIOUS
<1> QED
  BY <1>3, <1>4 DEF StrictSubsetOrdering

LEMMA LeastPosition ==
  ASSUME NEW T \in SUBSET Positions, T # {}
  PROVE  \E x \in T : \A y \in T : x <= y
<1> DEFINE Upto(n) == 1 .. n
           F == {Upto(n) : n \in T}
<1>1. \A n \in T : n \in Int /\ 1 <= n
  BY DEF Positions
<1>2. \A n \in T : IsFiniteSet(Upto(n))
  BY <1>1, FS_Interval
<1>3. PICK U \in F : \A V \in F : V \subseteq U => V = U
  <2>1. F # {} /\ \A U \in F : IsFiniteSet(U)
    BY <1>2
  <2> HIDE DEF F
  <2> QED
    BY <2>1, MinimalSet
<1>4. PICK x \in T : U = Upto(x)
  OBVIOUS
<1>5. \A y \in T : x <= y
  <2> SUFFICES ASSUME NEW y \in T, ~(x <= y) PROVE FALSE
    OBVIOUS
  <2>1. Upto(y) \subseteq Upto(x) /\ x \in Upto(x) /\ x \notin Upto(y)
    BY <1>1
  <2> QED
    BY <1>3, <1>4, <2>1
<1> QED
  BY <1>5

LEMMA FirstAskedIs ==
  ASSUME NEW i \in 1 .. 27
  PROVE  /\ FirstAsked(i) \in i .. 27
         /\ FirstAsked(i) # 27 => IsAsked(AttributeOrder[FirstAsked(i)])
         /\ \A j \in Positions : i <= j /\ j < FirstAsked(i) => ~IsAsked(AttributeOrder[j])
<1> DEFINE asked == {j \in i .. 26 : IsAsked(AttributeOrder[j])}
<1>1. FirstAsked(i) = IF asked = {} THEN 27
                      ELSE CHOOSE j \in asked : \A k \in asked : j <= k
  BY OrderLength DEF FirstAsked
<1>2. asked \in SUBSET Positions /\ \A j \in asked : i <= j
  BY DEF Positions
<1>3. \A j \in Positions : i <= j /\ j \notin asked => ~IsAsked(AttributeOrder[j])
  BY DEF Positions
<1>4. \A j \in asked : IsAsked(AttributeOrder[j])
  OBVIOUS
<1> HIDE DEF asked
<1>5. CASE asked = {}
  BY <1>1, <1>3, <1>5 DEF Positions
<1>6. CASE asked # {}
  <2>1. \E x \in asked : \A y \in asked : x <= y
    BY <1>2, <1>6, LeastPosition
  <2>2. FirstAsked(i) \in asked /\ \A k \in asked : FirstAsked(i) <= k
    BY <1>1, <1>6, <2>1
  <2>3. FirstAsked(i) \in Positions /\ i <= FirstAsked(i)
    BY <1>2, <2>2
  <2>4. FirstAsked(i) \in i .. 27 /\ FirstAsked(i) # 27
    BY <2>3 DEF Positions
  <2>5. ASSUME NEW j \in Positions, i <= j, j < FirstAsked(i) PROVE ~IsAsked(AttributeOrder[j])
    <3>1. ~(FirstAsked(i) <= j)
      BY <2>3, <2>5 DEF Positions
    <3> QED
      BY <1>3, <2>2, <2>5, <3>1
  <2> QED
    BY <1>4, <2>2, <2>4, <2>5
<1> QED
  BY <1>5, <1>6

-----------------------------------------------------------------------------
\* The inductive invariant.

Options == (UNION {Values[a] : a \in Attributes}) \cup BOOLEAN \cup {None}

TypeInv ==
  /\ pc \in {"policy", "start", "create", "move", "delegate", "apply", "clone",
             "running", "refused", "missing", "failed"}
  /\ backend \in {"owned", "systemd"}
  /\ policy \in [controllers : SUBSET Controllers, set : [Attributes -> Options]]
  /\ \A a \in {"cpu.idle", "memory.zswap.writeback"} : policy.set[a] \in BOOLEAN \cup {None}
  /\ tree \in [root : SUBSET Controllers, settings : SUBSET Controllers,
               child : SUBSET Controllers]
  /\ attrs \in [Attributes -> Options]
  /\ guest \in {"none", "anchor", "child"}
  /\ todo \in 0 .. 27

\* A policy that sets an attribute of a controller enables the controller.
Consistent ==
  \A c \in Controllers : \A a \in AttributesOf[c] :
    policy.set[a] # None => c \in policy.controllers

\* Where the guest and the application are at each step of the backends.
Staged ==
  /\ pc \in {"policy", "start", "create", "move", "delegate"} => todo = 0
  /\ pc \in {"clone", "running"} => todo = 27
  /\ pc \in {"start", "move", "delegate"} => backend = "systemd"
  /\ pc = "clone" => backend = "owned"
  /\ pc \in {"delegate", "running"} => guest = "child"
  /\ pc = "apply" /\ backend = "systemd" => guest = "child"
  /\ todo \in Positions => IsAsked(Current)

\* What the settings cgroup has and has passed on.
Delegated ==
  /\ backend = "owned" => tree.settings = tree.root
  /\ backend = "systemd" /\ pc \in {"apply", "running"} =>
       tree.settings = policy.controllers \cap tree.root
  /\ tree.child = {c \in Controllers : attrs[SubtreeOf[c]] # None}

\* What the policy makes of an attribute.
Target(a) == IF policy.set[a] = None THEN None ELSE Written(a, policy.set[a])

Weightless == attrs["cpu.idle"] = TRUE

Settled(a) ==
  /\ a \in policy.controllers => a \in Present
  /\ a \in Attributes =>
       attrs[a] = IF a = "cpu.weight" /\ Weightless THEN None ELSE Target(a)

\* The settings before the current one are made, and no other.
SettledUpTo(n) ==
  \A j \in Positions :
    /\ j < n => Settled(AttributeOrder[j])
    /\ n <= j /\ AttributeOrder[j] \in Attributes => attrs[AttributeOrder[j]] = None

IInv ==
  /\ TypeInv
  /\ Consistent
  /\ Staged
  /\ Delegated
  /\ SettledUpTo(todo)
  /\ RefusedOnlyForCause

-----------------------------------------------------------------------------
\* The start and the builders.

LEMMA NoneIsAnOption == None \in Options /\ \A a \in Attributes : Values[a] \subseteq Options
<1>1. ASSUME NEW a \in Attributes, NEW v \in Values[a] PROVE v \in Options
  <2>1. v \in UNION {Values[b] : b \in Attributes}
    OBVIOUS
  <2> QED
    BY <2>1 DEF Options
<1>2. None \in Options
  BY DEF Options
<1> QED
  BY <1>1, <1>2

LEMMA InitImpliesIInv == Init => IInv
<1> SUFFICES ASSUME Init PROVE IInv
  OBVIOUS
<1>1. PICK v \in Available :
        tree = [root |-> v, settings |-> IF backend = "owned" THEN v ELSE {}, child |-> {}]
  BY DEF Init
<1>2. v \in SUBSET Controllers
  BY PolicyAssumption
<1>3. /\ pc = "policy" /\ todo = 0 /\ backend \in {"owned", "systemd"}
      /\ policy = [controllers |-> {}, set |-> [a \in Attributes |-> None]]
      /\ attrs = [a \in Attributes |-> None] /\ guest = "none"
  BY DEF Init
<1>4. TypeInv
  <2>1. policy \in [controllers : SUBSET Controllers, set : [Attributes -> Options]]
    BY <1>3, NoneIsAnOption
  <2>2. attrs \in [Attributes -> Options]
    BY <1>3, NoneIsAnOption
  <2>3. \A a \in {"cpu.idle", "memory.zswap.writeback"} : policy.set[a] = None
    BY <1>3, SomeAttributes
  <2>4. tree \in [root : SUBSET Controllers, settings : SUBSET Controllers,
                  child : SUBSET Controllers]
    BY <1>1, <1>2
  <2> QED
    BY <1>3, <2>1, <2>2, <2>3, <2>4 DEF TypeInv
<1>5. Consistent
  <2> SUFFICES ASSUME NEW c \in Controllers, NEW a \in AttributesOf[c] PROVE policy.set[a] = None
    BY DEF Consistent
  <2> QED
    BY <1>3, SomeAttributes
<1>6. Staged
  BY <1>3 DEF Staged, Positions
<1>7. Delegated
  <2>1. \A c \in Controllers : attrs[SubtreeOf[c]] = None
    BY <1>3, SomeAttributes
  <2> QED
    BY <1>1, <1>3, <2>1 DEF Delegated
<1>8. SettledUpTo(todo)
  BY <1>3 DEF SettledUpTo, Positions
<1>9. RefusedOnlyForCause
  BY <1>3 DEF RefusedOnlyForCause
<1> QED
  BY <1>4, <1>5, <1>6, <1>7, <1>8, <1>9 DEF IInv

\* A builder that leaves a policy of the right shape.
LEMMA BuildKeeps ==
  ASSUME IInv, NEW p, Build(p),
         p \in [controllers : SUBSET Controllers, set : [Attributes -> Options]],
         \A a \in {"cpu.idle", "memory.zswap.writeback"} : p.set[a] \in BOOLEAN \cup {None},
         \A c \in Controllers : \A a \in AttributesOf[c] :
           p.set[a] # None => c \in p.controllers
  PROVE  IInv'
<1>1. /\ pc = "policy" /\ pc' = pc /\ policy' = p /\ backend' = backend /\ tree' = tree
      /\ attrs' = attrs /\ guest' = guest /\ todo' = todo
  BY DEF Build
<1>2. TypeInv /\ todo = 0
  BY <1>1 DEF IInv, Staged
<1>3. TypeInv'
  BY <1>1, <1>2 DEF TypeInv
<1>4. Consistent'
  BY <1>1 DEF Consistent
<1>5. Staged'
  BY <1>1, <1>2 DEF IInv, Staged, Positions
<1>6. Delegated'
  BY <1>1 DEF IInv, Delegated
<1>7. SettledUpTo(todo)'
  <2> SUFFICES ASSUME NEW j \in Positions, AttributeOrder[j] \in Attributes
               PROVE  attrs[AttributeOrder[j]] = None
    BY <1>1, <1>2 DEF SettledUpTo, Positions
  <2> QED
    BY <1>2 DEF IInv, SettledUpTo, Positions
<1>8. RefusedOnlyForCause'
  BY <1>1 DEF RefusedOnlyForCause
<1> QED
  BY <1>3, <1>4, <1>5, <1>6, <1>7, <1>8 DEF IInv

\* The attributes of the policy once a is set to v, or cleared.
Set(a, v) == [policy.set EXCEPT ![a] = v]

LEMMA SetIsTyped ==
  ASSUME TypeInv, NEW a \in Attributes, NEW v \in Values[a] \cup {None}
  PROVE  /\ Set(a, v) \in [Attributes -> Options]
         /\ \A b \in {"cpu.idle", "memory.zswap.writeback"} : Set(a, v)[b] \in BOOLEAN \cup {None}
         /\ \A b \in Attributes : Set(a, v)[b] = IF b = a THEN v ELSE policy.set[b]
<1>1. v \in Options /\ policy.set \in [Attributes -> Options]
  BY NoneIsAnOption DEF TypeInv
<1>2. Set(a, v) = [policy.set EXCEPT ![a] = v]
  BY DEF Set
<1>3. \A b \in Attributes : Set(a, v)[b] = IF b = a THEN v ELSE policy.set[b]
  BY <1>1, <1>2
<1>4. ASSUME NEW b \in {"cpu.idle", "memory.zswap.writeback"}
      PROVE  Set(a, v)[b] \in BOOLEAN \cup {None}
  <2>1. b \in Attributes /\ Values[b] \subseteq BOOLEAN
    BY SomeAttributes, PolicyAssumption
  <2>2. CASE b = a
    BY <1>3, <2>1, <2>2
  <2>3. CASE b # a
    BY <1>3, <2>1, <2>3 DEF TypeInv
  <2> QED
    BY <2>2, <2>3
<1> QED
  BY <1>1, <1>2, <1>3, <1>4

LEMMA ConfigureGroupKeeps ==
  ASSUME IInv, ConfigureGroup
  PROVE  IInv'
<1>1. PICK a \in AttributesOf.cgroup : \E v \in Values[a] \cup {None} :
             Build([policy EXCEPT !.set = Set(a, v)])
  BY DEF ConfigureGroup, Set
<1>2. PICK v \in Values[a] \cup {None} : Build([policy EXCEPT !.set = Set(a, v)])
  BY <1>1
<1> DEFINE p == [policy EXCEPT !.set = Set(a, v)]
<1>3. TypeInv /\ a \in Attributes
  BY OwnAttributes DEF IInv
<1>4. /\ Set(a, v) \in [Attributes -> Options]
      /\ \A b \in {"cpu.idle", "memory.zswap.writeback"} : Set(a, v)[b] \in BOOLEAN \cup {None}
      /\ \A b \in Attributes : Set(a, v)[b] = IF b = a THEN v ELSE policy.set[b]
  BY <1>3, SetIsTyped
<1>5. /\ p \in [controllers : SUBSET Controllers, set : [Attributes -> Options]]
      /\ p.set = Set(a, v) /\ p.controllers = policy.controllers
  BY <1>3, <1>4 DEF TypeInv
<1>6. ASSUME NEW c \in Controllers, NEW b \in AttributesOf[c], p.set[b] # None
      PROVE  c \in p.controllers
  <2>1. b \in Attributes /\ b # a
    BY SomeAttributes, OwnAttributes
  <2>2. policy.set[b] # None
    BY <1>4, <1>5, <1>6, <2>1
  <2> QED
    BY <1>5, <2>2 DEF IInv, Consistent
<1>7. \A b \in {"cpu.idle", "memory.zswap.writeback"} : p.set[b] \in BOOLEAN \cup {None}
  BY <1>4, <1>5
<1>8. Build(p)
  BY <1>2
<1> HIDE DEF p
<1> QED
  BY <1>5, <1>6, <1>7, <1>8, BuildKeeps

LEMMA ConfigureControllerKeeps ==
  ASSUME IInv, ConfigureController
  PROVE  IInv'
<1>1. PICK c \in Controllers :
        \/ Build([policy EXCEPT !.controllers = @ \cup {c}])
        \/ \E a \in AttributesOf[c] : \E v \in Values[a] \cup {None} :
             Build([controllers |-> policy.controllers \cup {c}, set |-> Set(a, v)])
  BY DEF ConfigureController, Set
<1>2. TypeInv /\ Consistent
  BY DEF IInv
<1>3. CASE Build([policy EXCEPT !.controllers = @ \cup {c}])
  <2> DEFINE p == [policy EXCEPT !.controllers = @ \cup {c}]
  <2>1. /\ p \in [controllers : SUBSET Controllers, set : [Attributes -> Options]]
        /\ p.set = policy.set /\ p.controllers = policy.controllers \cup {c}
    BY <1>2 DEF TypeInv
  <2>2. \A d \in Controllers : \A b \in AttributesOf[d] : p.set[b] # None => d \in p.controllers
    BY <1>2, <2>1 DEF Consistent
  <2>3. \A b \in {"cpu.idle", "memory.zswap.writeback"} : p.set[b] \in BOOLEAN \cup {None}
    BY <1>2, <2>1 DEF TypeInv
  <2>4. Build(p)
    BY <1>3
  <2> HIDE DEF p
  <2> QED
    BY <2>1, <2>2, <2>3, <2>4, BuildKeeps
<1>4. CASE \E a \in AttributesOf[c] : \E v \in Values[a] \cup {None} :
             Build([controllers |-> policy.controllers \cup {c}, set |-> Set(a, v)])
  <2>1. PICK a \in AttributesOf[c] : \E v \in Values[a] \cup {None} :
               Build([controllers |-> policy.controllers \cup {c}, set |-> Set(a, v)])
    BY <1>4
  <2>2. PICK v \in Values[a] \cup {None} :
               Build([controllers |-> policy.controllers \cup {c}, set |-> Set(a, v)])
    BY <2>1
  <2> DEFINE p == [controllers |-> policy.controllers \cup {c}, set |-> Set(a, v)]
  <2>3. a \in Attributes
    BY SomeAttributes
  <2>4. /\ Set(a, v) \in [Attributes -> Options]
        /\ \A b \in {"cpu.idle", "memory.zswap.writeback"} : Set(a, v)[b] \in BOOLEAN \cup {None}
        /\ \A b \in Attributes : Set(a, v)[b] = IF b = a THEN v ELSE policy.set[b]
    BY <1>2, <2>3, SetIsTyped
  <2>5. /\ p \in [controllers : SUBSET Controllers, set : [Attributes -> Options]]
        /\ p.set = Set(a, v) /\ p.controllers = policy.controllers \cup {c}
    BY <1>2, <2>4 DEF TypeInv
  <2>6. ASSUME NEW d \in Controllers, NEW b \in AttributesOf[d], p.set[b] # None
        PROVE  d \in p.controllers
    <3>1. CASE d = c
      BY <2>5, <3>1
    <3>2. CASE d # c
      <4>1. b \in Attributes /\ b # a
        BY <3>2, SomeAttributes, OwnAttributes
      <4>2. policy.set[b] # None
        BY <2>4, <2>5, <2>6, <4>1
      <4> QED
        BY <1>2, <2>5, <4>2 DEF Consistent
    <3> QED
      BY <3>1, <3>2
  <2>7. \A b \in {"cpu.idle", "memory.zswap.writeback"} : p.set[b] \in BOOLEAN \cup {None}
    BY <2>4, <2>5
  <2>8. Build(p)
    BY <2>2
  <2> HIDE DEF p
  <2> QED
    BY <2>5, <2>6, <2>7, <2>8, BuildKeeps
<1> QED
  BY <1>1, <1>3, <1>4

LEMMA DisableControllerKeeps ==
  ASSUME IInv, DisableController
  PROVE  IInv'
<1> DEFINE p(c) == [controllers |-> policy.controllers \ {c},
                    set |-> [a \in Attributes |-> IF a \in AttributesOf[c] THEN None
                                                  ELSE policy.set[a]]]
<1>1. PICK c \in Controllers : Build(p(c))
  BY DEF DisableController
<1>2. TypeInv /\ Consistent
  BY DEF IInv
<1>3. \A b \in Attributes : p(c).set[b] = IF b \in AttributesOf[c] THEN None ELSE policy.set[b]
  OBVIOUS
<1>4. p(c) \in [controllers : SUBSET Controllers, set : [Attributes -> Options]]
  BY <1>2, NoneIsAnOption DEF TypeInv
<1>5. p(c).controllers = policy.controllers \ {c}
  OBVIOUS
<1> HIDE DEF p
<1>6. ASSUME NEW d \in Controllers, NEW b \in AttributesOf[d], p(c).set[b] # None
      PROVE  d \in p(c).controllers
  <2>1. b \in Attributes
    BY SomeAttributes
  <2>2. b \notin AttributesOf[c] /\ policy.set[b] # None
    BY <1>3, <1>6, <2>1
  <2> QED
    BY <1>2, <1>5, <2>2 DEF Consistent
<1>7. \A b \in {"cpu.idle", "memory.zswap.writeback"} : p(c).set[b] \in BOOLEAN \cup {None}
  BY <1>2, <1>3, SomeAttributes DEF TypeInv
<1> QED
  BY <1>1, <1>4, <1>6, <1>7, BuildKeeps

-----------------------------------------------------------------------------
\* The steps of the backends.

\* A step that leaves the policy and the settings alone.
LEMMA FrameKeeps ==
  ASSUME TypeInv, Consistent, Delegated, SettledUpTo(todo),
         policy' = policy, attrs' = attrs, todo' = todo, tree'.child = tree.child,
         tree'.settings = tree.settings \/ todo = 0
  PROVE  /\ Consistent' /\ SettledUpTo(todo)'
         /\ tree'.child = {c \in Controllers : attrs'[SubtreeOf[c]] # None}
<1>1. Consistent'
  BY DEF Consistent
<1>2. SettledUpTo(todo)'
  <2> SUFFICES ASSUME NEW j \in Positions
               PROVE  /\ j < todo => Settled(AttributeOrder[j])'
                      /\ todo <= j /\ AttributeOrder[j] \in Attributes =>
                           attrs[AttributeOrder[j]] = None
    BY DEF SettledUpTo
  <2>1. ASSUME j < todo PROVE Settled(AttributeOrder[j])'
    <3>1. todo # 0
      BY <2>1 DEF Positions
    <3>2. Settled(AttributeOrder[j])
      BY <2>1 DEF SettledUpTo
    <3> QED
      BY <3>1, <3>2 DEF Settled, Present, IsThreaded, Target, Weightless
  <2> QED
    BY <2>1 DEF SettledUpTo
<1> QED
  BY <1>1, <1>2 DEF Delegated

LEMMA BackendKeeps ==
  ASSUME IInv, Choose \/ StartUnit \/ CreateCgroups \/ MoveGuest \/ Delegate
  PROVE  IInv'
<1>1. TypeInv /\ Consistent /\ Staged /\ Delegated /\ SettledUpTo(todo)
  BY DEF IInv
<1>2. /\ pc \in {"policy", "start", "create", "move", "delegate"}
      /\ policy' = policy /\ attrs' = attrs /\ todo' = todo /\ backend' = backend
  BY DEF Choose, StartUnit, CreateCgroups, MoveGuest, Delegate
<1>3. todo = 0
  BY <1>1, <1>2 DEF Staged
<1>4. CASE Choose \/ StartUnit \/ CreateCgroups \/ MoveGuest
  <2>1. /\ tree' = tree
        /\ pc' \in {"start", "create", "move", "delegate", "apply"}
        /\ guest' \in {guest, "anchor", "child"}
    BY <1>4 DEF Choose, StartUnit, CreateCgroups, MoveGuest
  <2>2. TypeInv'
    BY <1>1, <1>2, <2>1 DEF TypeInv
  <2>3. Staged'
    BY <1>1, <1>2, <1>3, <1>4
       DEF TypeInv, Staged, Positions, Choose, StartUnit, CreateCgroups, MoveGuest
  <2>4. pc' = "apply" => backend = "owned"
    BY <1>4, <1>1 DEF TypeInv, Staged, Choose, StartUnit, CreateCgroups, MoveGuest
  <2>5. Consistent' /\ SettledUpTo(todo)'
    BY <1>1, <1>2, <2>1, FrameKeeps
  <2>6. Delegated'
    BY <1>1, <1>2, <2>1, <2>4 DEF Delegated, TypeInv
  <2>7. RefusedOnlyForCause'
    BY <2>1 DEF RefusedOnlyForCause
  <2> QED
    BY <2>2, <2>3, <2>5, <2>6, <2>7 DEF IInv
<1>5. CASE Delegate
  <2>1. /\ pc = "delegate" /\ guest = "child" /\ backend = "systemd" /\ guest' = guest
        /\ tree' = [tree EXCEPT !.settings = policy.controllers \cap tree.root]
    BY <1>1, <1>5 DEF Delegate, Staged
  <2>2. pc' = "apply"
    BY <1>5, <2>1 DEF Delegate
  <2>3. /\ tree'.child = tree.child /\ tree'.root = tree.root
        /\ tree'.settings = policy.controllers \cap tree.root
        /\ tree' \in [root : SUBSET Controllers, settings : SUBSET Controllers,
                      child : SUBSET Controllers]
    BY <1>1, <2>1 DEF TypeInv
  <2>4. TypeInv'
    BY <1>1, <1>2, <2>1, <2>2, <2>3 DEF TypeInv
  <2>5. Staged'
    BY <1>2, <1>3, <2>1, <2>2 DEF Staged, Positions
  <2>6. /\ Consistent' /\ SettledUpTo(todo)'
        /\ tree'.child = {c \in Controllers : attrs'[SubtreeOf[c]] # None}
    BY <1>1, <1>2, <1>3, <2>3, FrameKeeps
  <2>7. Delegated'
    BY <1>2, <2>1, <2>3, <2>6 DEF Delegated
  <2>8. RefusedOnlyForCause'
    BY <2>2 DEF RefusedOnlyForCause
  <2> QED
    BY <2>4, <2>5, <2>6, <2>7, <2>8 DEF IInv
<1> QED
  BY <1>4, <1>5

\* Everything settled and no type asked for: the cgroup is not threaded.
LEMMA WholeIsSettled ==
  ASSUME IInv, todo = 27, NEW a \in Attributes \cup Controllers
  PROVE  Settled(a)
<1>1. PICK j \in Positions : AttributeOrder[j] = a
  BY SomePosition
<1>2. j < todo
  BY DEF Positions
<1> QED
  BY <1>1, <1>2 DEF IInv, SettledUpTo

\* Outside of two attributes what is set is what was asked for.
LEMMA TargetIsAsked ==
  ASSUME NEW a \in Attributes \ {"memory.zswap.writeback"}
  PROVE  Target(a) = policy.set[a]
  BY DEF Target, Written

\* The ends of the application and of the clone.
LEMMA EndKeeps ==
  ASSUME IInv, EndApply \/ Clone \/ CloneRefused \/ Fail
  PROVE  IInv'
<1>1. TypeInv /\ Consistent /\ Staged /\ Delegated /\ SettledUpTo(todo)
  BY DEF IInv
<1>2. /\ policy' = policy /\ attrs' = attrs /\ todo' = todo /\ backend' = backend
      /\ tree' = tree
  BY DEF EndApply, Clone, CloneRefused, Fail
<1>3. /\ pc' \in {"clone", "running", "refused", "failed"} /\ guest' \in {guest, "child"}
  BY DEF EndApply, Clone, CloneRefused, Fail
<1>4. TypeInv'
  BY <1>1, <1>2, <1>3 DEF TypeInv
<1>5. Consistent' /\ SettledUpTo(todo)'
  BY <1>1, <1>2, FrameKeeps
<1>6. Staged'
  <2>1. (todo \in Positions => IsAsked(Current))'
    BY <1>1, <1>2 DEF Staged, IsAsked, Current
  <2>2. pc' \in {"clone", "running"} => todo = 27
    BY <1>1, OrderLength DEF Staged, EndApply, Clone, CloneRefused, Fail
  <2>3. /\ pc' = "clone" => backend = "owned"
        /\ pc' = "running" => guest' = "child"
    BY <1>1 DEF Staged, TypeInv, EndApply, Clone, CloneRefused, Fail
  <2> QED
    BY <1>2, <1>3, <2>1, <2>2, <2>3 DEF Staged
<1>7. Delegated'
  <2>1. pc' = "running" /\ backend = "systemd" => pc = "apply"
    BY <1>1 DEF Staged, EndApply, Clone, CloneRefused, Fail
  <2> QED
    BY <1>1, <1>2, <1>3, <2>1 DEF Delegated
<1>8. RefusedOnlyForCause'
  <2>1. pc' # "missing"
    BY <1>3
  <2>2. ASSUME pc' = "refused"
        PROVE  policy.set["cgroup.type"] # None \/ (backend = "owned" /\ policy.set["pids.max"] = 0)
    <3>1. pc = "clone" /\ ~CloneAllowed
      BY <2>2 DEF EndApply, Clone, CloneRefused, Fail
    <3>2. todo = 27 /\ backend = "owned"
      BY <1>1, <3>1 DEF Staged
    <3>3. Settled("cgroup.type") /\ Settled("pids.max")
      BY <3>2, SomeAttributes, WholeIsSettled
    <3>4. /\ attrs["cgroup.type"] = policy.set["cgroup.type"]
          /\ attrs["pids.max"] = policy.set["pids.max"]
      BY <3>3, SomeAttributes, TargetIsAsked DEF Settled
    <3>5. attrs["cgroup.type"] # None \/ attrs["pids.max"] = 0
      BY <3>1 DEF CloneAllowed, IsThreaded
    <3> QED
      BY <3>2, <3>4, <3>5
  <2> QED
    BY <1>2, <2>1, <2>2 DEF RefusedOnlyForCause
<1> QED
  BY <1>4, <1>5, <1>6, <1>7, <1>8 DEF IInv

-----------------------------------------------------------------------------
\* The application.

\* Going on to the next setting passes only over what is not asked for.
LEMMA AdvancePasses ==
  ASSUME todo \in 0 .. 26, Advance, policy' = policy
  PROVE  /\ todo' \in 1 .. 27 /\ todo < todo'
         /\ (todo \in Positions => IsAsked(Current))'
         /\ \A j \in Positions : todo < j /\ j < todo' => ~IsAsked(AttributeOrder[j])
<1>1. todo + 1 \in 1 .. 27 /\ todo' = FirstAsked(todo + 1)
  BY DEF Advance
<1>2. /\ todo' \in todo + 1 .. 27
      /\ todo' # 27 => IsAsked(AttributeOrder[todo'])
      /\ \A j \in Positions : todo + 1 <= j /\ j < todo' => ~IsAsked(AttributeOrder[j])
  BY <1>1, FirstAskedIs
<1>3. todo' \in 1 .. 27 /\ todo < todo'
  BY <1>2
<1>4. \A j \in Positions : todo < j => todo + 1 <= j
  BY DEF Positions
<1>5. ASSUME todo' \in Positions PROVE IsAsked(Current)'
  <2>1. IsAsked(AttributeOrder[todo'])
    BY <1>2, <1>5 DEF Positions
  <2> QED
    BY <2>1 DEF IsAsked, Current
<1> QED
  BY <1>2, <1>3, <1>4, <1>5

\* A setting that is not asked for is made by leaving it.
LEMMA UnaskedIsSettled ==
  ASSUME NEW j \in Positions, ~IsAsked(AttributeOrder[j]), policy' = policy,
         policy.controllers \subseteq Controllers,
         AttributeOrder[j] \in Attributes => attrs'[AttributeOrder[j]] = None
  PROVE  Settled(AttributeOrder[j])'
<1> DEFINE a == AttributeOrder[j]
<1>1. CASE a \in Controllers
  <2>1. a \notin policy.controllers /\ a \notin Attributes
    BY <1>1, NoControllerIsAttribute DEF IsAsked
  <2> QED
    BY <2>1 DEF Settled
<1>2. CASE a \in Attributes
  <2>1. a \notin Controllers
    BY <1>2, NoControllerIsAttribute
  <2>2. policy.set[a] = None /\ attrs'[a] = None
    BY <1>2, <2>1 DEF IsAsked
  <2>3. Target(a)' = None
    BY <2>2 DEF Target
  <2> QED
    BY <2>1, <2>2, <2>3 DEF Settled
<1> QED
  BY <1>1, <1>2, AtPosition

\* A step to the next setting that has made the current one, if there is one,
\* and disturbed none before.
LEMMA SettledOn ==
  ASSUME TypeInv, SettledUpTo(todo), todo \in 0 .. 26, Advance, policy' = policy,
         \A j \in Positions : j <= todo => Settled(AttributeOrder[j])',
         \A j \in Positions : todo < j /\ AttributeOrder[j] \in Attributes =>
                                attrs'[AttributeOrder[j]] = None
  PROVE  SettledUpTo(todo)'
<1>1. /\ todo' \in 1 .. 27 /\ todo < todo'
      /\ \A j \in Positions : todo < j /\ j < todo' => ~IsAsked(AttributeOrder[j])
  BY AdvancePasses
<1>2. ASSUME NEW j \in Positions, j < todo' PROVE Settled(AttributeOrder[j])'
  <2>1. CASE j <= todo
    BY <2>1
  <2>2. CASE todo < j
    <3>1. ~IsAsked(AttributeOrder[j])
      BY <1>1, <1>2, <2>2
    <3>2. AttributeOrder[j] \in Attributes => attrs'[AttributeOrder[j]] = None
      BY <2>2
    <3>3. policy.controllers \subseteq Controllers
      BY DEF TypeInv
    <3> QED
      BY <3>1, <3>2, <3>3, UnaskedIsSettled
  <2> QED
    BY <2>1, <2>2 DEF Positions
<1>3. ASSUME NEW j \in Positions, todo' <= j, AttributeOrder[j] \in Attributes
      PROVE  attrs'[AttributeOrder[j]] = None
  BY <1>1, <1>3 DEF Positions
<1> QED
  BY <1>2, <1>3 DEF SettledUpTo

LEMMA ReadKeeps ==
  ASSUME IInv, BeginApply \/ FindController
  PROVE  IInv'
<1>1. TypeInv /\ Consistent /\ Staged /\ Delegated /\ SettledUpTo(todo)
  BY DEF IInv
<1>2. /\ policy' = policy /\ attrs' = attrs /\ backend' = backend /\ tree' = tree
      /\ pc' = "apply" /\ pc = "apply" /\ guest' = guest /\ Advance /\ todo \in 0 .. 26
  BY <1>1, OrderLength DEF TypeInv, BeginApply, FindController, Applying
<1>3. todo \in Positions => Current \in Present \ Attributes
  <2>1. CASE BeginApply
    BY <2>1 DEF BeginApply, Positions
  <2>2. CASE FindController
    <3>1. Current \in Present /\ Present \subseteq Controllers
      BY <1>1, <2>2 DEF FindController, Present, TypeInv
    <3> QED
      BY <3>1, NoControllerIsAttribute
  <2> QED
    BY <2>1, <2>2
<1>4. /\ todo' \in 1 .. 27 /\ todo < todo'
      /\ (todo \in Positions => IsAsked(Current))'
  BY <1>2, AdvancePasses
<1>5. TypeInv'
  BY <1>1, <1>2, <1>4 DEF TypeInv
<1>6. Consistent'
  BY <1>1, <1>2 DEF Consistent
<1>7. Staged'
  BY <1>1, <1>2, <1>4 DEF Staged
<1>8. Delegated'
  BY <1>1, <1>2 DEF Delegated
<1>9. SettledUpTo(todo)'
  <2>1. ASSUME NEW j \in Positions, j < todo PROVE Settled(AttributeOrder[j])'
    <3>1. Settled(AttributeOrder[j])
      BY <1>1, <2>1 DEF SettledUpTo
    <3> QED
      BY <1>2, <3>1 DEF Settled, Present, IsThreaded, Target, Weightless
  <2>2. ASSUME NEW j \in Positions, j = todo PROVE Settled(AttributeOrder[j])'
    <3>1. Present' = Present
      BY <1>2 DEF Present, IsThreaded
    <3> QED
      BY <1>3, <2>2, <3>1 DEF Settled, Current
  <2>3. \A j \in Positions : todo < j /\ AttributeOrder[j] \in Attributes =>
                               attrs'[AttributeOrder[j]] = None
    BY <1>1, <1>2 DEF SettledUpTo, Positions
  <2> QED
    BY <1>1, <1>2, <2>1, <2>2, <2>3, SettledOn DEF Positions
<1>10. RefusedOnlyForCause'
  BY <1>2 DEF RefusedOnlyForCause
<1> QED
  BY <1>5, <1>6, <1>7, <1>8, <1>9, <1>10 DEF IInv

\* What a write leaves: the value asked for, and no weight beside the idle flag.
LEMMA WriteIs ==
  ASSUME TypeInv, Staged, WriteAttribute
  PROVE  /\ todo \in Positions /\ Current \in Attributes /\ Current \notin Controllers
         /\ policy.set[Current] # None
         /\ attrs' \in [Attributes -> Options]
         /\ attrs'[Current] = Target(Current)
         /\ \A b \in Attributes \ {Current, "cpu.weight"} : attrs'[b] = attrs[b]
         /\ Current # "cpu.weight" =>
              attrs'["cpu.weight"] = IF Current = "cpu.idle" /\ attrs'["cpu.idle"] = TRUE
                                     THEN None ELSE attrs["cpu.weight"]
<1> DEFINE a == Current
           v == Written(a, policy.set[a])
<1>1. todo \in Positions /\ a \in Attributes
  BY OrderLength DEF WriteAttribute, Applying, Positions
<1>2. a \notin Controllers /\ policy.set[a] # None
  BY <1>1, NoControllerIsAttribute DEF Staged, IsAsked
<1>3. v = Target(a)
  BY <1>2 DEF Target
<1>4. v \in Options
  <2>1. policy.set[a] \in Options /\ BOOLEAN \subseteq Options
    BY <1>1 DEF TypeInv, Options
  <2> QED
    BY <2>1 DEF Written
<1>5. attrs \in [Attributes -> Options] /\ None \in Options /\ "cpu.weight" \in Attributes
      /\ "cpu.idle" \in Attributes
  BY NoneIsAnOption, SomeAttributes DEF TypeInv
<1>6. attrs' = AfterWrite(a, v)
  BY DEF WriteAttribute
<1>7. a = "cpu.idle" => v \in BOOLEAN
  BY <1>2 DEF Written, TypeInv
<1>8. a = "cpu.idle" => (v <=> v = TRUE)
  BY <1>7
<1>9. attrs' = [b \in Attributes |-> IF b = a THEN v
                                    ELSE IF b = "cpu.weight" /\ a = "cpu.idle" /\ v = TRUE
                                         THEN None ELSE attrs[b]]
  BY <1>6, <1>8 DEF AfterWrite
<1> HIDE DEF a, v
<1>10. /\ attrs' \in [Attributes -> Options] /\ attrs'[a] = v
       /\ \A b \in Attributes \ {a, "cpu.weight"} : attrs'[b] = attrs[b]
  BY <1>1, <1>4, <1>5, <1>9
<1>11. a # "cpu.weight" => attrs'["cpu.weight"] = IF a = "cpu.idle" /\ v = TRUE THEN None
                                                  ELSE attrs["cpu.weight"]
  BY <1>5, <1>9
<1> QED
  BY <1>1, <1>2, <1>3, <1>10, <1>11 DEF a

LEMMA WriteKeeps ==
  ASSUME IInv, WriteAttribute
  PROVE  IInv'
<1>1. TypeInv /\ Consistent /\ Staged /\ Delegated /\ SettledUpTo(todo)
  BY DEF IInv
<1>2. /\ policy' = policy /\ backend' = backend /\ pc' = "apply" /\ pc = "apply"
      /\ guest' = guest /\ Advance
      /\ tree' = [tree EXCEPT !.child = @ \cup {c \in Controllers : SubtreeOf[c] = Current}]
  BY DEF WriteAttribute, Applying
<1>0. PICK a : a = Current
  OBVIOUS
<1>3. /\ todo \in Positions /\ a \in Attributes /\ a \notin Controllers
      /\ policy.set[a] # None /\ attrs' \in [Attributes -> Options] /\ attrs'[a] = Target(a)
      /\ \A b \in Attributes \ {a, "cpu.weight"} : attrs'[b] = attrs[b]
      /\ a # "cpu.weight" =>
           attrs'["cpu.weight"] = IF a = "cpu.idle" /\ attrs'["cpu.idle"] = TRUE
                                  THEN None ELSE attrs["cpu.weight"]
  BY <1>0, <1>1, WriteIs
<1>4. a = AttributeOrder[todo] /\ todo \in 0 .. 26
  BY <1>0, <1>3 DEF Current, Positions
<1>5. /\ todo' \in 1 .. 27 /\ todo < todo'
      /\ (todo \in Positions => IsAsked(Current))'
  BY <1>2, <1>4, AdvancePasses
<1>6. /\ tree' \in [root : SUBSET Controllers, settings : SUBSET Controllers,
                    child : SUBSET Controllers]
      /\ tree'.root = tree.root /\ tree'.settings = tree.settings
      /\ tree'.child = tree.child \cup {c \in Controllers : SubtreeOf[c] = a}
  BY <1>0, <1>1, <1>2 DEF TypeInv
<1>7. TypeInv'
  BY <1>1, <1>2, <1>3, <1>5, <1>6 DEF TypeInv
<1>8. Consistent'
  BY <1>1, <1>2 DEF Consistent
<1>9. Staged'
  BY <1>1, <1>2, <1>5 DEF Staged
<1>10. Delegated'
  <2>1. ASSUME NEW c \in Controllers
        PROVE  attrs'[SubtreeOf[c]] # None <=> attrs[SubtreeOf[c]] # None \/ SubtreeOf[c] = a
    <3>1. /\ SubtreeOf[c] \in Attributes
          /\ SubtreeOf[c] \notin {"memory.zswap.writeback", "cpu.weight", "cpu.idle"}
      BY SomeAttributes
    <3>2. CASE SubtreeOf[c] = a
      BY <1>3, <3>1, <3>2, TargetIsAsked
    <3>3. CASE SubtreeOf[c] # a
      BY <1>3, <3>1, <3>3
    <3> QED
      BY <3>2, <3>3
  <2>2. tree'.child = {c \in Controllers : attrs'[SubtreeOf[c]] # None}
    BY <1>1, <1>6, <2>1 DEF Delegated
  <2> QED
    BY <1>1, <1>2, <1>6, <2>2 DEF Delegated
<1>11. \A j \in Positions : todo < j /\ AttributeOrder[j] \in Attributes =>
                              attrs'[AttributeOrder[j]] = None
  <2> SUFFICES ASSUME NEW j \in Positions, todo < j, AttributeOrder[j] \in Attributes
               PROVE  attrs'[AttributeOrder[j]] = None
    OBVIOUS
  <2>1. attrs[AttributeOrder[j]] = None
    BY <1>1, <1>3 DEF SettledUpTo, Positions
  <2>2. AttributeOrder[j] # a
    BY <1>3, <1>4, OnePosition DEF Positions
  <2> QED
    BY <1>3, <2>1, <2>2
\* The type of the cgroup is written before any controller is looked for.
<1>12. ASSUME NEW j \in Positions, j < todo, AttributeOrder[j] \in Present
       PROVE  AttributeOrder[j] \in Present'
  <2>1. a # "cgroup.type"
    BY <1>3, <1>4, <1>12, Places, OnePosition DEF Positions
  <2>2. attrs'["cgroup.type"] = attrs["cgroup.type"]
    BY <1>3, <2>1, SomeAttributes
  <2> QED
    BY <1>6, <1>12, <2>2 DEF Present, IsThreaded
<1>13. \A b \in Attributes : Target(b)' = Target(b)
  BY <1>2 DEF Target
<1>14. ASSUME NEW j \in Positions, j < todo PROVE Settled(AttributeOrder[j])'
  <2> DEFINE b == AttributeOrder[j]
  <2>1. Settled(b)
    BY <1>1, <1>14 DEF SettledUpTo
  <2>2. b # a
    BY <1>3, <1>4, <1>14, OnePosition DEF Positions
  <2>3. b \in policy'.controllers => b \in Present'
    BY <1>2, <1>12, <1>14, <2>1 DEF Settled
  <2>4. ASSUME b \in Attributes, b # "cpu.weight" PROVE attrs'[b] = Target(b)'
    BY <1>3, <1>13, <2>1, <2>2, <2>4 DEF Settled
  <2>5. ASSUME b = "cpu.weight"
        PROVE  attrs'[b] = IF Weightless' THEN None ELSE Target(b)'
    <3>1. attrs[b] = IF Weightless THEN None ELSE Target(b)
      BY <2>1, <2>5, SomeAttributes DEF Settled
    <3>2. CASE a = "cpu.idle"
      <4>1. attrs["cpu.idle"] = None
        <5>1. todo <= todo /\ AttributeOrder[todo] \in Attributes
          BY <1>3, <1>4
        <5> QED
          BY <1>1, <1>3, <1>4, <3>2, <5>1 DEF SettledUpTo
      <4>2. ~Weightless
        BY <4>1, PolicyAssumption DEF Weightless
      <4> QED
        BY <1>3, <1>13, <2>2, <2>5, <3>1, <3>2, <4>2, SomeAttributes DEF Weightless
    <3>3. CASE a # "cpu.idle"
      <4>1. attrs'["cpu.idle"] = attrs["cpu.idle"]
        BY <1>3, <3>3, SomeAttributes
      <4>2. attrs'["cpu.weight"] = attrs["cpu.weight"]
        BY <1>3, <2>2, <2>5, <3>3
      <4> QED
        BY <1>13, <2>5, <3>1, <4>1, <4>2, SomeAttributes DEF Weightless
    <3> QED
      BY <3>2, <3>3
  <2> HIDE DEF b
  <2>6. Settled(b)'
    BY <2>3, <2>4, <2>5 DEF Settled
  <2> QED
    BY <2>6 DEF b
<1>15. Settled(a)'
  <2>1. a \notin policy'.controllers
    BY <1>1, <1>2, <1>3 DEF TypeInv
  <2>2. a = "cpu.weight" => ~Weightless'
    <3> SUFFICES ASSUME a = "cpu.weight" PROVE ~Weightless'
      OBVIOUS
    <3>1. todo = 5 /\ 10 \in Positions /\ 5 \in Positions
      BY <1>3, <1>4, Places, OnePosition DEF Positions
    <3>2. attrs'["cpu.idle"] = None
      BY <1>11, <3>1, Places, SomeAttributes
    <3> QED
      BY <3>2, PolicyAssumption DEF Weightless
  <2> QED
    BY <1>3, <1>13, <2>1, <2>2 DEF Settled
<1>16. SettledUpTo(todo)'
  <2>1. ASSUME NEW j \in Positions, j <= todo PROVE Settled(AttributeOrder[j])'
    <3>1. CASE j < todo
      BY <1>14, <3>1
    <3>2. CASE j = todo
      <4>1. AttributeOrder[j] = a
        BY <1>4, <3>2
      <4> QED
        BY <1>15, <4>1
    <3> QED
      BY <1>4, <2>1, <3>1, <3>2 DEF Positions
  <2> QED
    BY <1>1, <1>2, <1>4, <1>11, <2>1, SettledOn
<1>17. RefusedOnlyForCause'
  BY <1>2 DEF RefusedOnlyForCause
<1> QED
  BY <1>7, <1>8, <1>9, <1>10, <1>16, <1>17 DEF IInv

\* A write is refused for what the policy asks for, not for what was written
\* before it: the weight comes before the idle flag, the burst after the quota.
LEMMA RefuseKeeps ==
  ASSUME IInv, RefuseAttribute
  PROVE  IInv'
<1>1. TypeInv /\ Consistent /\ Staged /\ Delegated /\ SettledUpTo(todo)
  BY DEF IInv
<1>2. /\ policy' = policy /\ attrs' = attrs /\ todo' = todo /\ backend' = backend
      /\ tree' = tree /\ guest' = guest /\ pc' = "refused"
  BY DEF RefuseAttribute
<1>3. /\ todo \in Positions /\ Current \in Attributes /\ Current \notin Controllers
      /\ Refuses(Current, Written(Current, policy.set[Current]))
  BY OrderLength, NoControllerIsAttribute DEF RefuseAttribute, Applying, Positions
<1>4. policy.set[Current] # None
  BY <1>1, <1>3 DEF Staged, IsAsked
<1>5. TypeInv'
  BY <1>1, <1>2 DEF TypeInv
<1>6. Consistent' /\ SettledUpTo(todo)'
  BY <1>1, <1>2, FrameKeeps
<1>7. Staged'
  BY <1>1, <1>2 DEF Staged, IsAsked, Current
<1>8. Delegated'
  BY <1>1, <1>2 DEF Delegated
<1>9. \/ policy.set["cgroup.type"] # None
      \/ Exceeds(policy.set["cpu.max.burst"], policy.set["cpu.max"])
  <2>1. PICK a : a = Current
    OBVIOUS
  <2>2. a = AttributeOrder[todo] /\ a \in Attributes
    BY <1>3, <2>1 DEF Current
  <2>3. \A j \in Positions : todo <= j /\ AttributeOrder[j] \in Attributes =>
                               attrs[AttributeOrder[j]] = None
    BY <1>1 DEF SettledUpTo
  <2>4. {5, 6, 7, 10} \subseteq Positions
    BY DEF Positions
  <2>5. CASE a = "cgroup.type"
    BY <1>4, <2>1, <2>5
  <2>6. ~(a = "cpu.weight" /\ attrs["cpu.idle"] = TRUE)
    <3> SUFFICES ASSUME a = "cpu.weight" PROVE ~(attrs["cpu.idle"] = TRUE)
      OBVIOUS
    <3>1. todo = 5
      BY <1>3, <2>2, <2>4, Places, OnePosition
    <3>2. attrs["cpu.idle"] = None
      BY <2>3, <2>4, <3>1, Places, SomeAttributes
    <3> QED
      BY <3>2, PolicyAssumption
  <2>7. \A q : ~(a = "cpu.max" /\ Exceeds(attrs["cpu.max.burst"], q))
    <3> SUFFICES ASSUME a = "cpu.max" PROVE attrs["cpu.max.burst"] = None
      BY DEF Exceeds
    <3>1. todo = 6
      BY <1>3, <2>2, <2>4, Places, OnePosition
    <3> QED
      BY <2>3, <2>4, <3>1, Places, SomeAttributes
  <2>8. CASE a = "cpu.max.burst" /\ Exceeds(policy.set[a], attrs["cpu.max"])
    <3>1. todo = 7
      BY <1>3, <2>2, <2>4, <2>8, Places, OnePosition
    <3>2. Settled("cpu.max")
      BY <1>1, <2>4, <3>1, Places DEF SettledUpTo
    <3>3. attrs["cpu.max"] = policy.set["cpu.max"]
      BY <3>2, SomeAttributes, TargetIsAsked DEF Settled
    <3> QED
      BY <2>8, <3>3
  <2>9. ~((\E c \in Controllers : SubtreeOf[c] = a) /\ guest = "settings")
    BY <1>1 DEF TypeInv
  <2>10. a = "cpu.max.burst" => Written(a, policy.set[a]) = policy.set[a]
    BY DEF Written
  <2>11. Refuses(a, Written(a, policy.set[a]))
    BY <1>3, <2>1
  <2> QED
    BY <2>5, <2>6, <2>7, <2>8, <2>9, <2>10, <2>11 DEF Refuses
<1>10. RefusedOnlyForCause'
  BY <1>2, <1>9 DEF RefusedOnlyForCause, Exceeds
<1> QED
  BY <1>5, <1>6, <1>7, <1>8, <1>10 DEF IInv

\* A controller is reported missing only if the hierarchy does not have it.
LEMMA MissKeeps ==
  ASSUME IInv, MissController
  PROVE  IInv'
<1>1. TypeInv /\ Consistent /\ Staged /\ Delegated /\ SettledUpTo(todo)
  BY DEF IInv
<1>2. /\ policy' = policy /\ attrs' = attrs /\ todo' = todo /\ backend' = backend
      /\ tree' = tree /\ guest' = guest /\ pc' = "missing" /\ pc = "apply"
      /\ todo \in Positions /\ Current \in Controllers \ Present
  BY OrderLength DEF MissController, Applying, Positions
<1>3. Current \in policy.controllers
  BY <1>1, <1>2 DEF Staged, IsAsked
<1>4. TypeInv'
  BY <1>1, <1>2 DEF TypeInv
<1>5. Consistent' /\ SettledUpTo(todo)'
  BY <1>1, <1>2, FrameKeeps
<1>6. Staged'
  BY <1>1, <1>2 DEF Staged, IsAsked, Current
<1>7. Delegated'
  BY <1>1, <1>2 DEF Delegated
<1>8. ~(policy.controllers \subseteq
          (IF policy.set["cgroup.type"] = None THEN tree.root ELSE tree.root \cap Threaded))
  <2>1. policy.controllers \cap tree.root \subseteq tree.settings
    BY <1>1, <1>2 DEF Delegated, TypeInv
  <2>2. CASE Current \notin tree.root
    BY <1>3, <2>2
  <2>3. CASE Current \in tree.root
    <3>1. Current \in tree.settings
      BY <1>3, <2>1, <2>3
    <3>2. IsThreaded /\ Current \notin Threaded
      BY <1>2, <3>1 DEF Present
    <3>3. PICK j \in Positions : AttributeOrder[j] = "cgroup.type"
      BY SomePosition, SomeAttributes
    <3>4. j < todo \/ todo <= j
      BY <1>2 DEF Positions
    <3>5. Settled("cgroup.type")
      BY <1>1, <3>2, <3>3, <3>4, SomeAttributes DEF SettledUpTo, IsThreaded
    <3>6. policy.set["cgroup.type"] # None
      BY <3>2, <3>5, SomeAttributes, TargetIsAsked DEF Settled, IsThreaded
    <3> QED
      BY <1>3, <3>2, <3>6
  <2> QED
    BY <2>2, <2>3
<1>9. RefusedOnlyForCause'
  BY <1>2, <1>8 DEF RefusedOnlyForCause
<1> QED
  BY <1>4, <1>5, <1>6, <1>7, <1>9 DEF IInv

LEMMA StepKeeps == IInv /\ [Next]_vars => IInv'
<1> SUFFICES ASSUME IInv, [Next]_vars PROVE IInv'
  OBVIOUS
<1>1. CASE UNCHANGED vars
  BY <1>1 DEF vars, IInv, TypeInv, Consistent, Staged, Delegated, SettledUpTo, Settled,
              Present, IsThreaded, Target, Weightless, IsAsked, Current, RefusedOnlyForCause
<1>2. CASE ConfigureGroup
  BY <1>2, ConfigureGroupKeeps
<1>3. CASE ConfigureController
  BY <1>3, ConfigureControllerKeeps
<1>4. CASE DisableController
  BY <1>4, DisableControllerKeeps
<1>5. CASE Choose \/ StartUnit \/ CreateCgroups \/ MoveGuest \/ Delegate
  BY <1>5, BackendKeeps
<1>6. CASE BeginApply \/ FindController
  BY <1>6, ReadKeeps
<1>7. CASE MissController
  BY <1>7, MissKeeps
<1>8. CASE WriteAttribute
  BY <1>8, WriteKeeps
<1>9. CASE RefuseAttribute
  BY <1>9, RefuseKeeps
<1>10. CASE EndApply \/ Clone \/ CloneRefused \/ Fail
  BY <1>10, EndKeeps
<1> QED
  BY <1>1, <1>2, <1>3, <1>4, <1>5, <1>6, <1>7, <1>8, <1>9, <1>10 DEF Next

LEMMA InvariantHolds == Spec => []IInv
  BY InitImpliesIInv, StepKeeps, PTL DEF Spec

\* The kernel refuses a write or the clone, and a controller is reported
\* missing, only because of what the caller asked for: whatever the builders
\* leave, the order of apply_to_cgroup and of the two backends stands in no
\* write's way.
THEOREM RefusalsHaveACause == Spec => []RefusedOnlyForCause
<1>1. IInv => RefusedOnlyForCause
  BY DEF IInv
<1> QED
  BY <1>1, InvariantHolds, PTL

LEMMA Negated ==
  ASSUME NEW v \in BOOLEAN
  PROVE  ~v \in BOOLEAN \ {v}
  OBVIOUS

\* A guest that runs is below a cgroup with all that its policy asks for and
\* nothing else, whichever backend made the cgroup.
THEOREM PolicyIsWhole == Spec => []PolicyWhole
<1>1. ASSUME IInv PROVE PolicyWhole
  <2> SUFFICES ASSUME pc = "running"
               PROVE  /\ guest = "child" /\ policy.controllers \subseteq tree.root \cap Present
                      /\ tree.child = {c \in Controllers : policy.set[SubtreeOf[c]] # None}
                      /\ tree.child \subseteq policy.controllers
                      /\ \A a \in Attributes \ {"memory.zswap.writeback", "cpu.weight"} :
                           attrs[a] = policy.set[a]
                      /\ attrs["memory.zswap.writeback"] \in
                           IF policy.set["memory.zswap.writeback"] = None THEN {None}
                           ELSE BOOLEAN \ {policy.set["memory.zswap.writeback"]}
                      /\ attrs["cpu.weight"] =
                           IF policy.set["cpu.idle"] = TRUE THEN None ELSE policy.set["cpu.weight"]
    BY DEF PolicyWhole
  <2>1. TypeInv /\ Consistent /\ Staged /\ Delegated
    BY <1>1 DEF IInv
  <2>2. todo = 27 /\ guest = "child"
    BY <2>1 DEF Staged
  <2>3. \A a \in Attributes \cup Controllers : Settled(a)
    BY <1>1, <2>2, WholeIsSettled
  <2>4. policy.controllers \subseteq tree.root \cap Present
    <3> SUFFICES ASSUME NEW c \in policy.controllers PROVE c \in tree.root /\ c \in Present
      OBVIOUS
    <3>1. c \in Controllers /\ c \in Present
      BY <2>1, <2>3 DEF TypeInv, Settled
    <3>2. Present \subseteq tree.settings /\ tree.settings \subseteq tree.root
      BY <2>1 DEF Present, Delegated, TypeInv
    <3> QED
      BY <3>1, <3>2
  <2>5. \A a \in Attributes \ {"memory.zswap.writeback", "cpu.weight"} : attrs[a] = policy.set[a]
    BY <2>3, TargetIsAsked DEF Settled
  <2>6. \A c \in Controllers : attrs[SubtreeOf[c]] = policy.set[SubtreeOf[c]]
    BY <2>5, SomeAttributes
  <2>7. tree.child = {c \in Controllers : policy.set[SubtreeOf[c]] # None}
    BY <2>1, <2>6 DEF Delegated
  <2>8. tree.child \subseteq policy.controllers
    BY <2>1, <2>7, SomeAttributes DEF Consistent
  <2>9. attrs["cpu.weight"] =
          IF policy.set["cpu.idle"] = TRUE THEN None ELSE policy.set["cpu.weight"]
    BY <2>3, <2>5, SomeAttributes, TargetIsAsked DEF Settled, Weightless
  <2>10. attrs["memory.zswap.writeback"] \in
           IF policy.set["memory.zswap.writeback"] = None THEN {None}
           ELSE BOOLEAN \ {policy.set["memory.zswap.writeback"]}
    <3>1. attrs["memory.zswap.writeback"] = Target("memory.zswap.writeback")
      BY <2>3, SomeAttributes DEF Settled
    <3>2. PICK v : v = policy.set["memory.zswap.writeback"]
      OBVIOUS
    <3>3. v \in BOOLEAN \cup {None}
      BY <2>1, <3>2 DEF TypeInv
    <3>4. CASE v = None
      BY <3>1, <3>2, <3>4 DEF Target
    <3>5. CASE v # None
      <4>1. attrs["memory.zswap.writeback"] = ~v
        BY <3>1, <3>2, <3>5 DEF Target, Written
      <4>2. ~v \in BOOLEAN \ {v}
        BY <3>3, <3>5, Negated
      <4> QED
        BY <3>2, <3>5, <4>1, <4>2
    <3> QED
      BY <3>4, <3>5
  <2> QED
    BY <2>2, <2>4, <2>5, <2>7, <2>8, <2>9, <2>10
<1> QED
  BY <1>1, InvariantHolds, PTL

=============================================================================

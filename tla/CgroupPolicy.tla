----------------------------- MODULE CgroupPolicy -----------------------------
(***************************************************************************)
(* The cgroup policy of a sandbox and the hierarchy it is applied to, with *)
(* the owned descriptor backend (policy first, then a clone into the child *)
(* cgroup) and the systemd backend (guest first, in a subgroup of its      *)
(* scope, then moved to the child cgroup before the controllers are        *)
(* delegated and the policy is applied above it).  When the host asks      *)
(* systemd, and who waits for whom, is in Spawn; a hierarchy is fresh and  *)
(* belongs to one spawn.                                                   *)
(***************************************************************************)
EXTENDS Integers, Sequences, FiniteSets

CONSTANTS
  None,       \* what an option holds that is not set
  Max,        \* the value of the token "max", greater than all others
  Values,     \* per attribute, the values a caller gives it
  Available,  \* the sets of controllers a caller's hierarchy may have
  MaxCalls    \* how often a caller calls a builder

Controllers == {"cpu", "memory", "io", "pids"}
Threaded == {"cpu", "pids"}  \* the kernel's threaded controllers

\* The settings of apply_to_cgroup in the order they are written, each
\* controller's after the check that the cgroup has the controller.
AttributeOrderIdleFirst ==
  <<"cgroup.type", "cgroup.pressure",
    "cpu", "cpu.subtree", "cpu.idle", "cpu.weight", "cpu.max", "cpu.max.burst",
    "cpu.uclamp.min", "cpu.uclamp.max",
    "memory", "memory.subtree", "memory.min", "memory.low", "memory.high",
    "memory.max", "memory.oom.group", "memory.swap.high", "memory.swap.max",
    "memory.zswap.max", "memory.zswap.writeback",
    "io", "io.subtree", "pids", "pids.subtree", "pids.max">>

AttributeOrder ==
  <<"cgroup.type", "cgroup.pressure",
    "cpu", "cpu.subtree", "cpu.weight", "cpu.max", "cpu.max.burst",
    "cpu.uclamp.min", "cpu.uclamp.max", "cpu.idle",
    "memory", "memory.subtree", "memory.min", "memory.low", "memory.high",
    "memory.max", "memory.oom.group", "memory.swap.high", "memory.swap.max",
    "memory.zswap.max", "memory.zswap.writeback",
    "io", "io.subtree", "pids", "pids.subtree", "pids.max">>

AttributesOf ==
  [cgroup |-> {"cgroup.type", "cgroup.pressure"},
   cpu |-> {"cpu.subtree", "cpu.weight", "cpu.max", "cpu.max.burst",
            "cpu.uclamp.min", "cpu.uclamp.max", "cpu.idle"},
   memory |-> {"memory.subtree", "memory.min", "memory.low", "memory.high",
               "memory.max", "memory.oom.group", "memory.swap.high",
               "memory.swap.max", "memory.zswap.max", "memory.zswap.writeback"},
   io |-> {"io.subtree"},
   pids |-> {"pids.subtree", "pids.max"}]

\* CpuController::subtree_control and its like
SubtreeOf ==
  [cpu |-> "cpu.subtree", memory |-> "memory.subtree",
   io |-> "io.subtree", pids |-> "pids.subtree"]

Attributes == UNION {AttributesOf[c] : c \in DOMAIN AttributesOf}

\* The flags that mean something to the kernel are booleans, and what is not
\* set is neither of them.
ASSUME PolicyAssumption ==
  /\ None \notin BOOLEAN
  /\ \A a \in {"cpu.idle", "memory.zswap.writeback"} : Values[a] \subseteq BOOLEAN
  /\ Available \subseteq SUBSET Controllers

VARIABLES
  pc,       \* "policy", then the steps of the backend, then how it ended
  calls,    \* calls of a builder so far
  backend,  \* "owned" or "systemd"
  policy,   \* the controllers the policy enables and the attributes it sets
  tree,     \* controllers each cgroup has: root, settings and child
  attrs,    \* the attributes of the settings cgroup
  guest,    \* the cgroup the guest is in
  todo      \* position in AttributeOrder

vars == <<pc, calls, backend, policy, tree, attrs, guest, todo>>

(***************************************************************************)
(* The builders of the policy.                                             *)
(***************************************************************************)
Build(p) ==
  /\ pc = "policy" /\ calls < MaxCalls
  /\ calls' = calls + 1 /\ policy' = p
  /\ UNCHANGED <<pc, backend, tree, attrs, guest, todo>>

ConfigureGroup ==
  \E a \in AttributesOf.cgroup : \E v \in Values[a] \cup {None} :
    Build([policy EXCEPT !.set[a] = v])

\* Policy::cpu, memory, io and pids enable their controller, whatever the
\* closure does; without a call in it the controller has no attribute set.
ConfigureController ==
  \E c \in Controllers :
    \/ Build([policy EXCEPT !.controllers = @ \cup {c}])
    \/ \E a \in AttributesOf[c] : \E v \in Values[a] \cup {None} :
         Build([controllers |-> policy.controllers \cup {c},
                set |-> [policy.set EXCEPT ![a] = v]])

DisableController ==
  \E c \in Controllers :
    Build([controllers |-> policy.controllers \ {c},
           set |-> [a \in Attributes |-> IF a \in AttributesOf[c] THEN None
                                         ELSE policy.set[a]]])

(***************************************************************************)
(* The kernel's conditions for a write to the settings cgroup.             *)
(***************************************************************************)
IsThreaded == attrs["cgroup.type"] # None

Exceeds(burst, quota) == burst # None /\ quota \notin {None, Max} /\ burst > quota

Refuses(a, v) ==
  \* a populated cgroup cannot become threaded
  \/ a = "cgroup.type" /\ guest \in {"settings", "child"}
  \* nor can one that has processes itself give controllers to its children
  \/ (\E c \in Controllers : SubtreeOf[c] = a) /\ guest = "settings"
  \/ a = "cpu.weight" /\ attrs["cpu.idle"] = TRUE
  \/ a = "cpu.max" /\ Exceeds(attrs["cpu.max.burst"], v)
  \/ a = "cpu.max.burst" /\ Exceeds(v, attrs["cpu.max"])

\* An idle cgroup has no weight.
AfterWrite(a, v) ==
  LET idle == a = "cpu.idle" /\ v
  IN [b \in Attributes |-> IF b = a THEN v
                           ELSE IF b = "cpu.weight" /\ idle THEN None ELSE attrs[b]]

(***************************************************************************)
(* The hierarchy.                                                          *)
(***************************************************************************)
Choose ==
  /\ pc = "policy"
  /\ pc' = IF backend = "owned" THEN "create" ELSE "start"
  /\ UNCHANGED <<calls, backend, policy, tree, attrs, guest, todo>>

\* clone_into of the systemd backend, then StartTransientUnit, whose
\* DelegateSubgroup keeps the scope's own cgroup without processes.
StartUnit ==
  /\ pc = "start"
  /\ pc' = "create" /\ guest' = "anchor"
  /\ UNCHANGED <<calls, backend, policy, tree, attrs, todo>>

\* OwnedFdState::new makes the child only: the caller's cgroup is the settings.
CreateCgroups ==
  /\ pc = "create"
  /\ pc' = IF backend = "owned" THEN "apply" ELSE "move"
  /\ UNCHANGED <<calls, backend, policy, tree, attrs, guest, todo>>

MoveGuest ==
  /\ pc = "move"
  /\ pc' = "delegate" /\ guest' = "child"
  /\ UNCHANGED <<calls, backend, policy, tree, attrs, todo>>

\* Only what the policy enables and the scope has is delegated, so that the
\* application of the policy finds what is missing.  A cgroup that has
\* processes itself cannot delegate.
Delegate ==
  /\ pc = "delegate"
  /\ LET delegated == policy.controllers \cap tree.root
     IN /\ pc' = IF delegated # {} /\ guest = "root" THEN "refused" ELSE "apply"
        /\ tree' = [tree EXCEPT !.settings = delegated]
  /\ UNCHANGED <<calls, backend, policy, attrs, guest, todo>>

(***************************************************************************)
(* Policy::apply_to_cgroup, one step per check and per write.              *)
(***************************************************************************)
\* A threaded cgroup has no domain controllers.
Present == IF IsThreaded THEN tree.settings \cap Threaded ELSE tree.settings

Current == AttributeOrder[todo]

\* What is written for the value v: the policy disables zswap writeback, the
\* attribute enables it.
WrittenAsIs(a, v) == v

Written(a, v) == IF a = "memory.zswap.writeback" THEN ~v ELSE v

\* Steps the policy has nothing for are passed over.
IsAsked(a) == IF a \in Controllers THEN a \in policy.controllers ELSE policy.set[a] # None

FirstAsked(i) ==
  LET asked == {j \in i .. Len(AttributeOrder) : IsAsked(AttributeOrder[j])}
  IN IF asked = {} THEN Len(AttributeOrder) + 1
     ELSE CHOOSE j \in asked : \A k \in asked : j <= k

Advance == todo' = FirstAsked(todo + 1)

BeginApply ==
  /\ pc = "apply" /\ todo = 0
  /\ Advance
  /\ UNCHANGED <<pc, calls, backend, policy, tree, attrs, guest>>

Applying == pc = "apply" /\ todo \in 1 .. Len(AttributeOrder)

FindController ==
  /\ Applying /\ Current \in Present
  /\ Advance
  /\ UNCHANGED <<pc, calls, backend, policy, tree, attrs, guest>>

MissController ==
  /\ Applying /\ Current \in Controllers \ Present
  /\ pc' = "missing"
  /\ UNCHANGED <<calls, backend, policy, tree, attrs, guest, todo>>

WriteAttribute ==
  /\ Applying /\ Current \in Attributes
  /\ LET v == Written(Current, policy.set[Current])
     IN /\ ~Refuses(Current, v)
        /\ attrs' = AfterWrite(Current, v)
  /\ tree' = [tree EXCEPT !.child = @ \cup {c \in Controllers : SubtreeOf[c] = Current}]
  /\ Advance
  /\ UNCHANGED <<pc, calls, backend, policy, guest>>

RefuseAttribute ==
  /\ Applying /\ Current \in Attributes
  /\ Refuses(Current, Written(Current, policy.set[Current]))
  /\ pc' = "refused"
  /\ UNCHANGED <<calls, backend, policy, tree, attrs, guest, todo>>

\* The systemd backend wakes the guest; with the owned backend clone3 makes
\* it in the child cgroup.
EndApply ==
  /\ pc = "apply" /\ todo = Len(AttributeOrder) + 1
  /\ pc' = IF backend = "owned" THEN "clone" ELSE "running"
  /\ UNCHANGED <<calls, backend, policy, tree, attrs, guest, todo>>

\* The kernel clones no process into a child of a threaded cgroup that is
\* not threaded itself, nor beyond pids.max.
CloneAllowed == ~IsThreaded /\ attrs["pids.max"] # 0

Clone ==
  /\ pc = "clone" /\ CloneAllowed
  /\ pc' = "running" /\ guest' = "child"
  /\ UNCHANGED <<calls, backend, policy, tree, attrs, todo>>

CloneRefused ==
  /\ pc = "clone" /\ ~CloneAllowed
  /\ pc' = "refused"
  /\ UNCHANGED <<calls, backend, policy, tree, attrs, guest, todo>>

\* Any system call may fail.
Fail ==
  /\ pc \in {"start", "create", "move", "delegate", "apply", "clone"}
  /\ pc' = "failed"
  /\ UNCHANGED <<calls, backend, policy, tree, attrs, guest, todo>>

Init ==
  /\ pc = "policy" /\ calls = 0 /\ todo = 0
  /\ backend \in {"owned", "systemd"}
  /\ policy = [controllers |-> {}, set |-> [a \in Attributes |-> None]]
  /\ \E a \in Available :
       tree = [root |-> a, settings |-> IF backend = "owned" THEN a ELSE {}, child |-> {}]
  /\ attrs = [a \in Attributes |-> None]
  /\ guest = "none"

Next ==
  \/ ConfigureGroup \/ ConfigureController \/ DisableController
  \/ Choose \/ StartUnit \/ CreateCgroups \/ MoveGuest \/ Delegate
  \/ BeginApply \/ FindController \/ MissController \/ WriteAttribute
  \/ RefuseAttribute \/ EndApply \/ Clone \/ CloneRefused \/ Fail

Spec == Init /\ [][Next]_vars

-----------------------------------------------------------------------------
\* Nothing but the policy itself makes the kernel refuse a write or the clone:
\* whatever the builders leave, no order of moving the guest, delegating and
\* writing stands in its way, and a controller the hierarchy has is never
\* reported missing.
RefusedOnlyForCause ==
  /\ pc = "refused" =>
       \/ policy.set["cgroup.type"] # None
       \/ Exceeds(policy.set["cpu.max.burst"], policy.set["cpu.max"])
       \/ backend = "owned" /\ policy.set["pids.max"] = 0
  /\ pc = "missing" =>
       ~(policy.controllers \subseteq
           (IF policy.set["cgroup.type"] = None THEN tree.root ELSE tree.root \cap Threaded))

\* A guest that runs is below a cgroup with the whole policy: every controller
\* enabled, every attribute as it was asked last, those cleared or disabled
\* untouched, and only the controllers asked for passed on to the child.
PolicyWhole ==
  pc = "running" =>
    /\ guest = "child" /\ policy.controllers \subseteq tree.root \cap Present
    /\ tree.child = {c \in Controllers : policy.set[SubtreeOf[c]] # None}
    /\ tree.child \subseteq policy.controllers
    /\ \A a \in Attributes \ {"memory.zswap.writeback", "cpu.weight"} :
         attrs[a] = policy.set[a]
    /\ attrs["memory.zswap.writeback"] \in
         IF policy.set["memory.zswap.writeback"] = None THEN {None}
         ELSE BOOLEAN \ {policy.set["memory.zswap.writeback"]}
    /\ attrs["cpu.weight"] =
         IF policy.set["cpu.idle"] = TRUE THEN None ELSE policy.set["cpu.weight"]

=============================================================================

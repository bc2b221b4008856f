------------------------------ MODULE GuestSetup ------------------------------
(***************************************************************************)
(* What guest_post_clone does to the process it runs in, one action per    *)
(* privileged step and in the order of the code, and the steps of clone_into *)
(* around it: the clone, and the last steps before execveat.  The policy   *)
(* comes from the builders of the Namespaces, UtsOptions, TimeOptions,     *)
(* UserOptions and Policy types.                                           *)
(*                                                                         *)
(* A guest lives in user namespace 1 (0 is the caller's) and, when the     *)
(* policy disables user namespaces, ends in user namespace 2, a child of   *)
(* 1.  Capabilities count only in the user namespace the process is in, so *)
(* the steps that need them over a namespace of level 1 must come before   *)
(* the second unshare; Allowed has the kernel's conditions for each step.  *)
(*                                                                         *)
(* The mounts are in MountResolution and MountAttach, descriptors in       *)
(* FdPolicy, limits, scheduling and keys in GuestLimits, and the messages  *)
(* to the host in Spawn: here each of these is one step.                   *)
(***************************************************************************)
EXTENDS Integers, FiniteSets

CONSTANTS
  MaxLastCap,   \* capability bits a CapabilitySet can hold are 0 .. MaxLastCap - 1
  LastCap,      \* the last capability the running kernel knows
  Setpcap, SysAdmin, NetAdmin, SysResource, SysTime, \* CAP_* numbers
  Targets,      \* capability sets a caller asks for
  UtsFields,    \* which of "hostname" and "domain" callers set
  Clocks        \* which of "monotonic" and "boottime" callers shift

Known == 0 .. LastCap
Bits == 0 .. MaxLastCap - 1

ASSUME GuestSetupAssumption ==
  /\ LastCap \in Nat /\ MaxLastCap \in Nat /\ LastCap < MaxLastCap
  /\ {Setpcap, SysAdmin, NetAdmin, SysResource, SysTime} \subseteq Known
  /\ Targets \subseteq SUBSET Bits

VARIABLES
  pc,      \* "policy" while the policy is built, then the guest's next step
  policy,  \* the caller's policy
  cred,    \* the guest's user namespace and capability sets
  owner,   \* level of the user namespace that owns each of its namespaces
  maps,    \* per level: which of "uid", "gid" and "deny" have been written
  env      \* what else the steps set up

vars == <<pc, policy, cred, owner, maps, env>>

(***************************************************************************)
(* The policy and its builders.  "root" is a simple mapping that gives the *)
(* guest uid 0; without it the caller's own uid is mapped.                 *)
(***************************************************************************)
Shared == [shared |-> TRUE, set |-> {}]
Unshared(s) == [shared |-> FALSE, set |-> s]

DefaultPolicy ==
  [ipc |-> Unshared({}), network |-> Unshared({}), uts |-> Unshared({}),
   time |-> Unshared({}), root |-> FALSE, disable_userns |-> TRUE,
   new_session |-> TRUE, target |-> {}, seccomp |-> FALSE, cgroups |-> "null"]

Build(p) == pc = "policy" /\ policy' = p /\ UNCHANGED <<pc, cred, owner, maps, env>>

ConfigureIpc ==
  \E o \in {Shared, Unshared({})} : Build([policy EXCEPT !.ipc = o])

ConfigureNetwork ==
  \E o \in {Shared, Unshared({})} : Build([policy EXCEPT !.network = o])

\* unshare_uts keeps the options of a namespace that was unshared already
ConfigureUts ==
  \/ Build([policy EXCEPT !.uts = Shared])
  \/ \E f \in UtsFields :
       \/ Build([policy EXCEPT !.uts = Unshared(@.set \cup {f})])
       \/ Build([policy EXCEPT !.uts = Unshared(@.set \ {f})])

ConfigureTime ==
  \/ Build([policy EXCEPT !.time = Shared])
  \/ \E c \in Clocks :
       \/ Build([policy EXCEPT !.time = Unshared(@.set \cup {c})])
       \/ Build([policy EXCEPT !.time = Unshared(@.set \ {c})])

ConfigureUser ==
  \E b \in BOOLEAN :
    \/ Build([policy EXCEPT !.root = b])
    \/ Build([policy EXCEPT !.disable_userns = b])

ConfigurePolicy ==
  \/ \E t \in Targets : Build([policy EXCEPT !.target = t])
  \/ \E b \in BOOLEAN : Build([policy EXCEPT !.new_session = b])
  \/ \E b \in BOOLEAN : Build([policy EXCEPT !.seccomp = b])
  \/ \E c \in {"null", "owned", "systemd"} : Build([policy EXCEPT !.cgroups = c])

(***************************************************************************)
(* The kernel's conditions.                                                *)
(***************************************************************************)
\* A process has a capability over what its own user namespace owns.
Has(cap, level) == cred.userns = level /\ cap \in cred.effective

IdsMapped == {"uid", "gid"} \subseteq maps[cred.userns]

Target == policy.target \cap Known

\* What the kernel asks for before it carries out step s.
Allowed(s) ==
  /\ s \in {"drop_bounding", "drop_bounding_again"} => Has(Setpcap, cred.userns)
  /\ s \in {"cgroup_ns", "binds", "time_ns", "vsock_ns"} =>
       Has(SysAdmin, cred.userns)
  /\ s \in {"overlays", "private", "nonbind", "attach", "pivot"} =>
       Has(SysAdmin, owner.mount)
  \* files of a file system of the guest's cannot belong to an unmapped id
  /\ s \in {"overlays", "nonbind", "attach", "userns"} => IdsMapped
  /\ s \in {"uid_map", "uid_map_again"} => "uid" \notin maps[cred.userns]
  /\ s \in {"gid_map", "gid_map_again"} =>
       "deny" \in maps[cred.userns] /\ "gid" \notin maps[cred.userns]
  \* offsets of a time namespace are fixed once a process is in it
  /\ s = "time_offsets" => Has(SysTime, cred.userns) /\ owner.time = 0
  /\ s = "time_enter" => Has(SysAdmin, cred.userns)
  /\ s = "uts" /\ policy.uts.set # {} => Has(SysAdmin, owner.uts)
  \* only a whole procfs has a sys directory
  /\ s \in {"vsock_mode", "limit"} => env.proc = "full"
  /\ s \in {"vsock_mode", "loopback"} => Has(NetAdmin, owner.network)
  /\ s = "limit" => Has(SysResource, 1)
  /\ s = "userns" => (env.max_userns = "one" => cred.userns = 1)
  /\ s = "capset" => Target \subseteq cred.permitted \cap (cred.inheritable \cup cred.bounding)
  /\ s = "ambient" => Target \subseteq cred.permitted \cap cred.inheritable
  /\ s = "seccomp" => env.no_new_privs \/ Has(SysAdmin, cred.userns)

Go(from, to) == pc = from /\ Allowed(from) /\ pc' = to

(***************************************************************************)
(* clone_into, before and in the clone.                                    *)
(***************************************************************************)
NewNamespace(ns) == IF ns.shared THEN 0 ELSE 1

\* CLONE_NEWUSER gives all capabilities in the new namespace; OwnedFdCgroups
\* clones the guest into its cgroup.
Clone ==
  /\ Go("policy", "drop_bounding")
  /\ cred' = [userns |-> 1, effective |-> Known, permitted |-> Known,
              inheritable |-> {}, bounding |-> Known, ambient |-> {}]
  /\ owner' = [owner EXCEPT !.ipc = NewNamespace(policy.ipc),
                            !.network = NewNamespace(policy.network),
                            !.uts = NewNamespace(policy.uts)]
  /\ env' = [env EXCEPT !.no_new_privs = TRUE,
                        !.cgroup = IF policy.cgroups = "owned" THEN "sandbox" ELSE @]
  /\ UNCHANGED <<policy, maps>>

\* host_post_clone_hook of the systemd backend moves the guest, then wakes it.
HostPlacesGuest ==
  /\ pc # "policy" /\ policy.cgroups = "systemd" /\ env.cgroup # "sandbox"
  /\ env' = [env EXCEPT !.cgroup = "sandbox"]
  /\ UNCHANGED <<pc, policy, cred, owner, maps>>

(***************************************************************************)
(* guest_post_clone.                                                       *)
(***************************************************************************)
\* A walk that ends at the first bit to keep.
DroppedUntilKept(keep) == {c \in Bits : \A d \in 0 .. c : d \notin keep}

\* The bits drop_bounding_set(keep) drops: it walks all of them in order and
\* ends at the first one the kernel does not know.
Dropped(keep) ==
  {c \in Bits \ keep : \A d \in (0 .. c) \ keep : d \in Known}

DropBoundingSet(from, to) ==
  /\ Go(from, to)
  /\ cred' = [cred EXCEPT !.bounding = @ \ Dropped(policy.target)]
  /\ UNCHANGED <<policy, owner, maps, env>>

ResetSignals ==
  /\ Go("signals", "cgroup_hook")
  /\ env' = [env EXCEPT !.signals = "default"]
  /\ UNCHANGED <<policy, cred, owner, maps>>

\* A hook that does not wait for the host.
CgroupHookEarly ==
  /\ Go("cgroup_hook", "cgroup_ns")
  /\ UNCHANGED <<policy, cred, owner, maps, env>>

CgroupHook ==
  /\ Go("cgroup_hook", "cgroup_ns")
  /\ policy.cgroups = "systemd" => env.cgroup = "sandbox"
  /\ UNCHANGED <<policy, cred, owner, maps, env>>

UnshareCgroup ==
  /\ Go("cgroup_ns", "binds")
  /\ owner' = [owner EXCEPT !.cgroup = cred.userns]
  /\ env' = [env EXCEPT !.cgroup_root = env.cgroup]
  /\ UNCHANGED <<policy, cred, maps>>

\* resolve_bind_mappings unshares the mount namespace.
ResolveBinds ==
  /\ Go("binds", "proc")
  /\ owner' = [owner EXCEPT !.mount = cred.userns]
  /\ UNCHANGED <<policy, cred, maps, env>>

\* A procfs restricted whenever user namespaces stay enabled.
MountProcForUsers ==
  /\ Go("proc", "uid_map")
  /\ env' = [env EXCEPT !.proc = IF ~policy.disable_userns THEN "pid" ELSE "full"]
  /\ UNCHANGED <<policy, cred, owner, maps>>

MountProc ==
  /\ Go("proc", "uid_map")
  /\ env' = [env EXCEPT !.proc =
               IF ~policy.disable_userns /\ policy.network.shared THEN "pid" ELSE "full"]
  /\ UNCHANGED <<policy, cred, owner, maps>>

\* write_simple_uid_gid_map, for both user namespaces
WriteMap(what, from, to) ==
  /\ Go(from, to)
  /\ maps' = [maps EXCEPT ![cred.userns] = @ \cup {what}]
  /\ UNCHANGED <<policy, cred, owner, env>>

WriteSimpleMap ==
  \/ WriteMap("uid", "uid_map", "setgroups")
  \/ WriteMap("deny", "setgroups", "gid_map")
  \/ WriteMap("gid", "gid_map", "overlays")

Pass(from, to) == Go(from, to) /\ UNCHANGED <<policy, cred, owner, maps, env>>

FinishOverlays ==
  Pass("overlays", IF policy.time.shared THEN "umask" ELSE "time_ns")

UnshareTime == Pass("time_ns", "time_offsets")

WriteTimensOffsets ==
  /\ Go("time_offsets", "time_enter")
  /\ env' = [env EXCEPT !.clocks = policy.time.set]
  /\ UNCHANGED <<policy, cred, owner, maps>>

EnterTime ==
  /\ Go("time_enter", "umask")
  /\ owner' = [owner EXCEPT !.time = cred.userns]
  /\ UNCHANGED <<policy, cred, maps, env>>

ClearUmask ==
  /\ Go("umask", "private")
  /\ env' = [env EXCEPT !.umask = "zero"]
  /\ UNCHANGED <<policy, cred, owner, maps>>

MakePrivate == Pass("private", "nonbind")

ResolveNonbinds == Pass("nonbind", "attach")

\* The root is mounted, its tree attached and made read-only.
AttachMounts ==
  /\ Go("attach", "pivot")
  /\ env' = [env EXCEPT !.tree = env.umask]
  /\ UNCHANGED <<policy, cred, owner, maps>>

PivotRoot ==
  /\ Go("pivot", "uts")
  /\ env' = [env EXCEPT !.root = "sandbox"]
  /\ UNCHANGED <<policy, cred, owner, maps>>

SetUts ==
  /\ Go("uts", IF policy.network.shared THEN "umask_restore" ELSE "vsock_probe")
  /\ env' = [env EXCEPT !.uts = policy.uts.set]
  /\ UNCHANGED <<policy, cred, owner, maps>>

\* The kernel may not have the vsock family.
ProbeVsock ==
  \E supported \in BOOLEAN :
    /\ Go("vsock_probe", IF supported THEN "vsock_mode" ELSE "loopback")
    /\ env' = [env EXCEPT !.vsock = IF supported THEN "global" ELSE "none"]
    /\ UNCHANGED <<policy, cred, owner, maps>>

SetVsockMode ==
  /\ Go("vsock_mode", "vsock_ns")
  /\ env' = [env EXCEPT !.child_mode = "local"]
  /\ UNCHANGED <<policy, cred, owner, maps>>

\* A network namespace takes the mode its parent has for children, and comes
\* with its loopback device down.
UnshareNetworkAgain ==
  /\ Go("vsock_ns", "loopback")
  /\ owner' = [owner EXCEPT !.network = cred.userns]
  /\ env' = [env EXCEPT !.vsock = env.child_mode, !.loopback = FALSE]
  /\ UNCHANGED <<policy, cred, maps>>

SetupLoopback ==
  /\ Go("loopback", "umask_restore")
  /\ env' = [env EXCEPT !.loopback = TRUE]
  /\ UNCHANGED <<policy, cred, owner, maps>>

RestoreUmask ==
  /\ Go("umask_restore", "session")
  /\ env' = [env EXCEPT !.umask = "caller"]
  /\ UNCHANGED <<policy, cred, owner, maps>>

NewSession ==
  /\ Go("session", IF policy.disable_userns THEN "limit" ELSE "capset")
  /\ env' = [env EXCEPT !.session = IF policy.new_session THEN "own" ELSE @]
  /\ UNCHANGED <<policy, cred, owner, maps>>

LimitUserNamespaces ==
  /\ Go("limit", "userns")
  /\ env' = [env EXCEPT !.max_userns = "one"]
  /\ UNCHANGED <<policy, cred, owner, maps>>

\* A process that enters a new user namespace has all capabilities there, a
\* full bounding set and no ambient capability; setgroups stays denied.
UnshareUser ==
  /\ Go("userns", "drop_bounding_again")
  /\ cred' = [userns |-> cred.userns + 1, effective |-> Known, permitted |-> Known,
              inheritable |-> {}, bounding |-> Known, ambient |-> {}]
  /\ maps' = [maps EXCEPT ![cred.userns + 1] = maps[cred.userns] \cap {"deny"}]
  /\ UNCHANGED <<policy, owner, env>>

WriteSimpleMapAgain ==
  \/ WriteMap("uid", "uid_map_again", "setgroups_again")
  \/ WriteMap("deny", "setgroups_again", "gid_map_again")
  \/ WriteMap("gid", "gid_map_again", "capset")

SetCapabilities ==
  /\ Go("capset", "resources")
  /\ cred' = [cred EXCEPT !.effective = {}, !.permitted = Target, !.inheritable = Target]
  /\ UNCHANGED <<policy, owner, maps, env>>

\* apply_scheduler_policy and apply_keyring_policy
ApplyResources == Pass("resources", "callback")

\* The callback asks for an execveat or an exit.
Callback ==
  \/ Pass("callback", "fds")
  \/ Pass("callback", "exited")

\* apply_file_descriptor_policy and apply_resource_limit_policy
ApplyLate == Pass("fds", "ambient")

\* PR_CAP_AMBIENT_RAISE refuses a capability the kernel does not know.
SetAmbient ==
  /\ Go("ambient", IF policy.seccomp THEN "seccomp" ELSE "exec")
  /\ policy.target \subseteq Known
  /\ cred' = [cred EXCEPT !.ambient = policy.target]
  /\ UNCHANGED <<policy, owner, maps, env>>

SetSeccomp ==
  /\ Go("seccomp", "exec")
  /\ env' = [env EXCEPT !.seccomp = TRUE]
  /\ UNCHANGED <<policy, cred, owner, maps>>

\* Capabilities across execveat of a file without capabilities: ambient ones
\* stay; uid 0 gains the inheritable and bounding sets, of which no_new_privs
\* lets it keep what was permitted before.
Exec ==
  /\ Go("exec", "program")
  /\ LET gained == IF policy.root THEN cred.inheritable \cup cred.bounding ELSE cred.ambient
         kept == IF env.no_new_privs THEN gained \cap cred.permitted ELSE gained
     IN cred' = [cred EXCEPT !.permitted = kept, !.effective = kept]
  /\ UNCHANGED <<policy, owner, maps, env>>

\* Any step may fail, or be refused; the guest reports it and exits.
Fail ==
  /\ pc \notin {"policy", "program", "exited", "failed"}
  /\ pc' = "failed"
  /\ UNCHANGED <<policy, cred, owner, maps, env>>

Init ==
  /\ pc = "policy"
  /\ policy = DefaultPolicy
  /\ cred = [userns |-> 0, effective |-> {}, permitted |-> {},
             inheritable |-> {}, bounding |-> Known, ambient |-> {}]
  /\ owner = [n \in {"ipc", "network", "uts", "time", "cgroup", "mount"} |-> 0]
  /\ maps = [l \in 1 .. 2 |-> {}]
  /\ env = [no_new_privs |-> FALSE, cgroup |-> "caller", cgroup_root |-> "host",
            signals |-> "caller", proc |-> "none", clocks |-> {}, umask |-> "caller",
            tree |-> "none", root |-> "host", uts |-> {}, vsock |-> "global",
            child_mode |-> "global", loopback |-> FALSE, session |-> "caller",
            max_userns |-> "many", seccomp |-> FALSE]

Configure ==
  ConfigureIpc \/ ConfigureNetwork \/ ConfigureUts \/ ConfigureTime
    \/ ConfigureUser \/ ConfigurePolicy

Namespaces ==
  UnshareCgroup \/ ResolveBinds \/ MountProc \/ WriteSimpleMap \/ FinishOverlays
    \/ UnshareTime \/ WriteTimensOffsets \/ EnterTime

Filesystem ==
  ClearUmask \/ MakePrivate \/ ResolveNonbinds \/ AttachMounts \/ PivotRoot

Network ==
  SetUts \/ ProbeVsock \/ SetVsockMode \/ UnshareNetworkAgain \/ SetupLoopback

Privileges ==
  RestoreUmask \/ NewSession \/ LimitUserNamespaces \/ UnshareUser
    \/ DropBoundingSet("drop_bounding_again", "uid_map_again")
    \/ WriteSimpleMapAgain \/ SetCapabilities

Program ==
  ApplyResources \/ Callback \/ ApplyLate \/ SetAmbient \/ SetSeccomp \/ Exec

Next ==
  \/ Configure \/ Clone \/ HostPlacesGuest
  \/ DropBoundingSet("drop_bounding", "signals") \/ ResetSignals \/ CgroupHook
  \/ Namespaces \/ Filesystem \/ Network \/ Privileges \/ Program \/ Fail

Spec == Init /\ [][Next]_vars

-----------------------------------------------------------------------------
\* Whatever the policy, the guest's own order of steps never makes the kernel
\* refuse one: no privilege is given up, no namespace left and no file hidden
\* that a later step of guest_post_clone or clone_into still needs.
NeverRefused == Allowed(pc)

\* The program has exactly the capabilities its policy names, uid 0 or not,
\* cannot get others, and cannot make user namespaces when they are disabled.
CapabilitiesAsAsked ==
  pc = "program" =>
    /\ cred.effective = policy.target /\ cred.permitted = policy.target
    /\ cred.inheritable \cup cred.ambient \cup cred.bounding \subseteq policy.target
    /\ policy.disable_userns = (env.max_userns = "one" /\ cred.userns = 2)

\* The program is in the namespaces the policy asks for, each set up while it
\* could still be, with nothing of the set-up left behind: its cgroup is the
\* root of the hierarchy it sees, its network has a loopback device and a
\* local vsock, and its umask, session, signals and filter are as asked.
SandboxAsAsked ==
  pc = "program" =>
    /\ \A n \in {"ipc", "network", "uts", "time"} : (owner[n] = 0) = policy[n].shared
    /\ owner.cgroup = 1 /\ owner.mount = 1 /\ env.cgroup_root = env.cgroup
    /\ (policy.cgroups # "null") = (env.cgroup = "sandbox")
    /\ env.uts = policy.uts.set /\ env.clocks = policy.time.set
    /\ ~policy.network.shared => (env.loopback /\ env.vsock # "global")
    /\ env.root = "sandbox" /\ env.tree = "zero" /\ env.umask = "caller"
    /\ env.signals = "default" /\ (env.session = "own") = policy.new_session
    /\ env.seccomp = policy.seccomp

=============================================================================

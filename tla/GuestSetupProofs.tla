---------------------------- MODULE GuestSetupProofs ----------------------------
(***************************************************************************)
(* That no order of the guest's steps makes the kernel refuse one, and     *)
(* that the program gets the capabilities and the sandbox its policy asks  *)
(* for: for every number of capabilities a kernel or the program knows,    *)
(* every set of them asked for, and every option of the namespaces.        *)
(***************************************************************************)
EXTENDS GuestSetup, TLAPS

(***************************************************************************)
(* The steps, from the last to the first: each set goes on to the program. *)
(***************************************************************************)
Final == {"seccomp", "exec"}
Restricted == {"resources", "callback", "fds", "ambient"} \cup Final
Again == {"drop_bounding_again", "uid_map_again", "setgroups_again", "gid_map_again"}
Disabling == {"limit", "userns"}
Networking == {"vsock_probe", "vsock_mode", "vsock_ns", "loopback"}
Timing == {"time_ns", "time_offsets", "time_enter"}

FromCapset == {"capset", "program"} \cup Restricted
FromLimit == Disabling \cup Again \cup FromCapset
FromSession == {"session"} \cup FromLimit
FromRestore == {"umask_restore"} \cup FromSession
FromUts == {"uts"} \cup Networking \cup FromRestore
FromAttach == {"attach", "pivot"} \cup FromUts
FromPrivate == {"private", "nonbind"} \cup FromAttach
FromOverlays == {"overlays", "umask"} \cup Timing \cup FromPrivate
FromUidMap == {"uid_map", "setgroups", "gid_map"} \cup FromOverlays
FromProc == {"proc"} \cup FromUidMap
FromBinds == {"binds"} \cup FromProc
FromHook == {"cgroup_ns"} \cup FromBinds
FromSignals == {"signals", "cgroup_hook"} \cup FromHook
FromClone == {"drop_bounding"} \cup FromSignals

\* The steps in the first user namespace with all capabilities in it.
Privileged == FromClone \ (Again \cup FromCapset)

Options == [shared : BOOLEAN, set : SUBSET (UtsFields \cup Clocks)]

Policies ==
  [ipc : Options, network : Options, uts : Options, time : Options,
   root : BOOLEAN, disable_userns : BOOLEAN, new_session : BOOLEAN,
   target : SUBSET Bits, seccomp : BOOLEAN, cgroups : {"null", "owned", "systemd"}]

Credentials ==
  [userns : 0 .. 2, effective : SUBSET Known, permitted : SUBSET Known,
   inheritable : SUBSET Known, bounding : SUBSET Known, ambient : SUBSET Known]

Owners == [{"ipc", "network", "uts", "time", "cgroup", "mount"} -> 0 .. 2]

Environments ==
  [no_new_privs : BOOLEAN, cgroup : {"caller", "sandbox"},
   cgroup_root : {"host", "caller", "sandbox"}, signals : {"caller", "default"},
   proc : {"none", "pid", "full"}, clocks : SUBSET (UtsFields \cup Clocks),
   umask : {"caller", "zero"}, tree : {"none", "caller", "zero"},
   root : {"host", "sandbox"}, uts : SUBSET (UtsFields \cup Clocks),
   vsock : {"global", "none", "local"}, child_mode : {"global", "local"},
   loopback : BOOLEAN, session : {"caller", "own"}, max_userns : {"many", "one"},
   seccomp : BOOLEAN]

TypeOK ==
  /\ pc \in FromClone \cup {"policy", "exited", "failed"}
  /\ policy \in Policies /\ cred \in Credentials /\ owner \in Owners
  /\ maps \in [1 .. 2 -> SUBSET {"uid", "gid", "deny"}]
  /\ env \in Environments

\* The branches of the code: what a step says of the policy that led to it.
PolicyOK ==
  /\ policy.uts.shared => policy.uts.set = {}
  /\ policy.time.shared => policy.time.set = {}
  /\ pc \in Timing => ~policy.time.shared
  /\ pc \in Networking => ~policy.network.shared
  /\ pc \in Disabling \cup Again => policy.disable_userns
  /\ pc = "seccomp" => policy.seccomp

\* Capabilities go in one direction, and each step still has those it needs.
CredOK ==
  /\ pc \in Privileged => cred.userns = 1
  /\ pc \in Again => cred.userns = 2
  /\ pc \in FromCapset => cred.userns = IF policy.disable_userns THEN 2 ELSE 1
  /\ pc \in Privileged \cup Again \cup {"capset"} =>
       /\ cred.effective = Known /\ cred.permitted = Known /\ cred.inheritable = {}
  /\ pc \in {"drop_bounding", "drop_bounding_again"} => cred.bounding = Known
  /\ pc \in FromSignals \ {"drop_bounding_again"} => cred.bounding = Target
  /\ pc \in Restricted => cred.permitted = Target /\ cred.inheritable = Target
  /\ pc \in Final => cred.ambient = policy.target
  /\ pc = "program" =>
       /\ cred.effective = policy.target /\ cred.permitted = policy.target
       /\ cred.inheritable = policy.target /\ cred.ambient = policy.target

OwnerOK ==
  /\ pc \in FromClone =>
       /\ owner.ipc = NewNamespace(policy.ipc) /\ owner.uts = NewNamespace(policy.uts)
       /\ owner.network = NewNamespace(policy.network)
  /\ pc \in FromBinds => owner.cgroup = 1
  /\ pc \in FromProc => owner.mount = 1
  /\ pc \in (FromClone \cup {"policy"}) \ ({"umask"} \cup FromPrivate) => owner.time = 0
  /\ pc \in {"umask"} \cup FromPrivate => owner.time = NewNamespace(policy.time)

\* Each map is written once, and gid_map after setgroups is denied.
MapsOK ==
  /\ pc \in {"policy", "uid_map"} \cup (FromClone \ FromUidMap) => maps[1] = {}
  /\ pc = "setgroups" => maps[1] = {"uid"}
  /\ pc = "gid_map" => maps[1] = {"uid", "deny"}
  /\ pc \in FromOverlays => maps[1] = {"uid", "gid", "deny"}
  /\ pc \in {"drop_bounding_again", "uid_map_again"} => maps[2] = {"deny"}
  /\ pc \in {"setgroups_again", "gid_map_again"} => maps[2] = {"uid", "deny"}

EnvOK ==
  /\ pc \in FromClone =>
       /\ env.no_new_privs
       /\ policy.cgroups = "null" => env.cgroup = "caller"
       /\ policy.cgroups = "owned" => env.cgroup = "sandbox"
  /\ pc = "policy" => env.cgroup = "caller"
  /\ pc \in FromHook => (policy.cgroups = "systemd" => env.cgroup = "sandbox")
  /\ pc \in FromBinds => env.cgroup_root = env.cgroup
  /\ pc \in FromHook \cup {"cgroup_hook"} => env.signals = "default"
  /\ pc \in FromUidMap =>
       env.proc = IF ~policy.disable_userns /\ policy.network.shared THEN "pid" ELSE "full"
  /\ pc \in (FromClone \cup {"policy"}) \ ({"umask", "time_enter"} \cup FromPrivate) =>
       env.clocks = {}
  /\ pc \in {"umask", "time_enter"} \cup FromPrivate => env.clocks = policy.time.set
  /\ pc \in FromPrivate \ FromSession => env.umask = "zero"
  /\ pc \in FromSession => env.umask = "caller"
  /\ pc \in {"pivot"} \cup FromUts => env.tree = "zero"
  /\ pc \in FromUts => env.root = "sandbox"
  /\ pc \in FromUts \ {"uts"} => env.uts = policy.uts.set
  /\ pc = "vsock_ns" => env.child_mode = "local"
  /\ pc = "loopback" => env.vsock # "global"
  /\ pc \in FromRestore =>
       (~policy.network.shared => env.loopback /\ env.vsock # "global")
  /\ pc \in (FromClone \cup {"policy"}) \ FromLimit => env.session = "caller"
  /\ pc \in FromLimit => (env.session = "own") = policy.new_session
  /\ pc \in (FromClone \cup {"policy"}) \ FromLimit => env.max_userns = "many"
  /\ pc \in {"userns"} \cup Again => env.max_userns = "one"
  /\ pc \in FromCapset => (env.max_userns = "one") = policy.disable_userns
  /\ pc \in (FromClone \cup {"policy"}) \ {"exec", "program"} => env.seccomp = FALSE
  /\ pc \in {"exec", "program"} => env.seccomp = policy.seccomp

IInv == TypeOK /\ PolicyOK /\ CredOK /\ OwnerOK /\ MapsOK /\ EnvOK

USE DEF Final, Restricted, Again, Disabling, Networking, Timing, FromCapset, FromLimit,
  FromSession, FromRestore, FromUts, FromAttach, FromPrivate, FromOverlays,
  FromUidMap, FromProc, FromBinds, FromHook, FromSignals, FromClone, Privileged,
  Policies, Credentials, Owners, Environments

\* The kernel knows the bits up to LastCap, so the walk drops all it knows but
\* what it keeps.
LEMMA DroppedBits ==
  ASSUME NEW keep \in SUBSET Bits
  PROVE  Dropped(keep) = Known \ keep
<1>1. \A c \in Known : c \in Bits /\ \A d \in 0 .. c : d \in Known
  BY GuestSetupAssumption DEF Known, Bits
<1>2. \A c \in Bits : c \in 0 .. c
  BY DEF Bits
<1> QED
  BY <1>1, <1>2 DEF Dropped

LEMMA InitInv == Init => IInv
<1> SUFFICES ASSUME Init PROVE IInv
  OBVIOUS
<1> USE DEF IInv
<1> USE DEF Init
<1>1. TypeOK
  BY GuestSetupAssumption DEF TypeOK, DefaultPolicy, Unshared, Options, Known, Bits
<1>2. PolicyOK /\ CredOK /\ OwnerOK /\ MapsOK /\ EnvOK
  BY DEF PolicyOK, CredOK, OwnerOK, MapsOK, EnvOK, DefaultPolicy, Unshared
<1> QED
  BY <1>1, <1>2

\* A builder changes one option, before there is a guest.
LEMMA ConfigureInv == IInv /\ Configure => IInv'
<1> SUFFICES ASSUME IInv, Configure PROVE IInv'
  OBVIOUS
<1> USE DEF IInv
<1>1. /\ pc = "policy" /\ pc' = pc
      /\ UNCHANGED <<cred, owner, maps, env>>
  BY DEF Configure, ConfigureIpc, ConfigureNetwork, ConfigureUts, ConfigureTime,
         ConfigureUser, ConfigurePolicy, Build
<1>2. /\ policy' \in Policies
      /\ policy'.uts.shared => policy'.uts.set = {}
      /\ policy'.time.shared => policy'.time.set = {}
  <2>0. Shared \in Options /\ Unshared({}) \in Options
        /\ \A s \in SUBSET (UtsFields \cup Clocks) : Unshared(s) \in Options
    BY DEF Shared, Unshared, Options
  <2>1. CASE ConfigureIpc
    BY <2>0, <2>1 DEF ConfigureIpc, Build, TypeOK, PolicyOK
  <2>2. CASE ConfigureNetwork
    BY <2>0, <2>2 DEF ConfigureNetwork, Build, TypeOK, PolicyOK
  <2>3. CASE ConfigureUts
    <3>1. \A f \in UtsFields : /\ Unshared(policy.uts.set \cup {f}) \in Options
                               /\ Unshared(policy.uts.set \ {f}) \in Options
      BY <2>0 DEF TypeOK, Options
    <3>2. Shared.set = {} /\ \A s : Unshared(s).shared = FALSE
      BY DEF Shared, Unshared
    <3>3. PICK o \in Options : /\ policy' = [policy EXCEPT !.uts = o]
                               /\ o.shared => o.set = {}
      BY <2>0, <2>3, <3>1, <3>2 DEF ConfigureUts, Build
    <3> QED
      BY <3>3 DEF TypeOK, PolicyOK
  <2>4. CASE ConfigureTime
    <3>1. \A c \in Clocks : /\ Unshared(policy.time.set \cup {c}) \in Options
                            /\ Unshared(policy.time.set \ {c}) \in Options
      BY <2>0 DEF TypeOK, Options
    <3>2. Shared.set = {} /\ \A s : Unshared(s).shared = FALSE
      BY DEF Shared, Unshared
    <3>3. PICK o \in Options : /\ policy' = [policy EXCEPT !.time = o]
                               /\ o.shared => o.set = {}
      BY <2>0, <2>4, <3>1, <3>2 DEF ConfigureTime, Build
    <3> QED
      BY <3>3 DEF TypeOK, PolicyOK
  <2>5. CASE ConfigureUser
    BY <2>5 DEF ConfigureUser, Build, TypeOK, PolicyOK
  <2>6. CASE ConfigurePolicy
    BY <2>6, GuestSetupAssumption DEF ConfigurePolicy, Build, TypeOK, PolicyOK
  <2> QED
    BY <2>1, <2>2, <2>3, <2>4, <2>5, <2>6 DEF Configure
<1>3. TypeOK' /\ PolicyOK'
  BY <1>1, <1>2 DEF TypeOK, PolicyOK
<1>4. CredOK' /\ OwnerOK' /\ MapsOK' /\ EnvOK'
  BY <1>1 DEF CredOK, OwnerOK, MapsOK, EnvOK
<1> QED
  BY <1>3, <1>4

\* The clone makes the first user namespace, with every capability in it; the
\* host may move the guest at any time.
LEMMA CloneInv ==
  IInv /\ (Clone \/ HostPlacesGuest) => IInv'
<1> SUFFICES ASSUME IInv, Clone \/ HostPlacesGuest
             PROVE  IInv'
  OBVIOUS
<1> USE DEF IInv
<1>1. CASE Clone
  <2>1. TypeOK'
    <3>1. cred' \in Credentials
      BY <1>1 DEF Clone
    <3>2. \A o : NewNamespace(o) \in 0 .. 2
      BY DEF NewNamespace
    <3>3. owner' \in Owners
      BY <1>1, <3>2 DEF Clone, TypeOK
    <3>4. env' \in Environments
      <4>1. \A c \in {"caller", "sandbox"} :
              [env EXCEPT !.no_new_privs = TRUE, !.cgroup = c] \in Environments
        BY DEF TypeOK
      <4>2. (IF policy.cgroups = "owned" THEN "sandbox" ELSE env.cgroup) \in {"caller", "sandbox"}
        BY DEF TypeOK
      <4>3. env' = [env EXCEPT !.no_new_privs = TRUE,
                               !.cgroup = IF policy.cgroups = "owned" THEN "sandbox" ELSE env.cgroup]
        BY <1>1 DEF Clone, TypeOK
      <4> QED
        BY <4>1, <4>2, <4>3
    <3> QED
      BY <1>1, <3>1, <3>2, <3>3, <3>4 DEF Clone, Go, TypeOK
  <2>2. PolicyOK' /\ CredOK' /\ OwnerOK' /\ MapsOK'
    BY <1>1 DEF Clone, Go, TypeOK, PolicyOK, CredOK, OwnerOK,
       MapsOK, Target, NewNamespace
  <2>3. EnvOK'
    BY <1>1 DEF Clone, Go, TypeOK, PolicyOK, EnvOK
  <2> QED
    BY <2>1, <2>2, <2>3
<1>2. CASE HostPlacesGuest
  <2>1. TypeOK'
    BY <1>2 DEF HostPlacesGuest, Go, TypeOK
  <2>2. PolicyOK' /\ CredOK' /\ OwnerOK' /\ MapsOK'
    BY <1>2 DEF HostPlacesGuest, Go, TypeOK, PolicyOK, CredOK, OwnerOK,
       MapsOK, Target, NewNamespace
  <2>3. EnvOK'
    BY <1>2 DEF HostPlacesGuest, Go, TypeOK, PolicyOK, EnvOK
  <2> QED
    BY <2>1, <2>2, <2>3
<1> QED
  BY <1>1, <1>2

\* Up to the cgroup hook, which waits for the host.
LEMMA StartInv ==
  IInv /\ (DropBoundingSet("drop_bounding", "signals") \/ ResetSignals \/ CgroupHook) => IInv'
<1> SUFFICES ASSUME IInv,
                    DropBoundingSet("drop_bounding", "signals") \/ ResetSignals \/ CgroupHook
             PROVE  IInv'
  OBVIOUS
<1> USE DEF IInv
<1>d. Dropped(policy.target) = Known \ policy.target
  BY DroppedBits DEF TypeOK
<1>1. CASE DropBoundingSet("drop_bounding", "signals")
  <2>1. TypeOK'
    BY <1>1, <1>d DEF DropBoundingSet, Go, TypeOK
  <2>2. PolicyOK' /\ CredOK' /\ OwnerOK' /\ MapsOK'
    BY <1>1, <1>d DEF DropBoundingSet, Go, TypeOK, PolicyOK, CredOK, OwnerOK,
       MapsOK, Target, NewNamespace
  <2>3. EnvOK'
    BY <1>1, <1>d DEF DropBoundingSet, Go, TypeOK, PolicyOK, EnvOK
  <2> QED
    BY <2>1, <2>2, <2>3
<1>2. CASE ResetSignals
  <2>1. TypeOK'
    BY <1>2 DEF ResetSignals, Go, TypeOK
  <2>2. PolicyOK' /\ CredOK' /\ OwnerOK' /\ MapsOK'
    BY <1>2 DEF ResetSignals, Go, TypeOK, PolicyOK, CredOK, OwnerOK,
       MapsOK, Target, NewNamespace
  <2>3. EnvOK'
    BY <1>2 DEF ResetSignals, Go, TypeOK, PolicyOK, EnvOK
  <2> QED
    BY <2>1, <2>2, <2>3
<1>3. CASE CgroupHook
  <2>1. TypeOK'
    BY <1>3 DEF CgroupHook, Go, TypeOK
  <2>2. PolicyOK' /\ CredOK' /\ OwnerOK' /\ MapsOK'
    BY <1>3 DEF CgroupHook, Go, TypeOK, PolicyOK, CredOK, OwnerOK,
       MapsOK, Target, NewNamespace
  <2>3. EnvOK'
    BY <1>3 DEF CgroupHook, Go, TypeOK, PolicyOK, EnvOK
  <2> QED
    BY <2>1, <2>2, <2>3
<1> QED
  BY <1>1, <1>2, <1>3

\* From the cgroup namespace to the time namespace.
LEMMA NamespacesInv == IInv /\ Namespaces => IInv'
<1> SUFFICES ASSUME IInv, Namespaces
             PROVE  IInv'
  OBVIOUS
<1> USE DEF IInv
<1>1. CASE UnshareCgroup
  <2>1. TypeOK'
    BY <1>1 DEF UnshareCgroup, Go, TypeOK
  <2>2. PolicyOK' /\ CredOK' /\ OwnerOK' /\ MapsOK'
    BY <1>1 DEF UnshareCgroup, Go, TypeOK, PolicyOK, CredOK, OwnerOK,
       MapsOK, Target, NewNamespace
  <2>3. EnvOK'
    BY <1>1 DEF UnshareCgroup, Go, TypeOK, PolicyOK, EnvOK
  <2> QED
    BY <2>1, <2>2, <2>3
<1>2. CASE ResolveBinds
  <2>1. TypeOK'
    BY <1>2 DEF ResolveBinds, Go, TypeOK
  <2>2. PolicyOK' /\ CredOK' /\ OwnerOK' /\ MapsOK'
    BY <1>2 DEF ResolveBinds, Go, TypeOK, PolicyOK, CredOK, OwnerOK,
       MapsOK, Target, NewNamespace
  <2>3. EnvOK'
    BY <1>2 DEF ResolveBinds, Go, TypeOK, PolicyOK, EnvOK
  <2> QED
    BY <2>1, <2>2, <2>3
<1>3. CASE MountProc
  <2>1. TypeOK'
    BY <1>3 DEF MountProc, Go, TypeOK
  <2>2. PolicyOK' /\ CredOK' /\ OwnerOK' /\ MapsOK'
    BY <1>3 DEF MountProc, Go, TypeOK, PolicyOK, CredOK, OwnerOK,
       MapsOK, Target, NewNamespace
  <2>3. EnvOK'
    BY <1>3 DEF MountProc, Go, TypeOK, PolicyOK, EnvOK
  <2> QED
    BY <2>1, <2>2, <2>3
<1>4. CASE WriteSimpleMap
  <2>1. TypeOK'
    BY <1>4 DEF WriteSimpleMap, WriteMap, Go, TypeOK
  <2>2. PolicyOK' /\ CredOK' /\ OwnerOK' /\ MapsOK'
    BY <1>4 DEF WriteSimpleMap, WriteMap, Go, TypeOK, PolicyOK, CredOK, OwnerOK,
       MapsOK, Target, NewNamespace
  <2>3. EnvOK'
    BY <1>4 DEF WriteSimpleMap, WriteMap, Go, TypeOK, PolicyOK, EnvOK
  <2> QED
    BY <2>1, <2>2, <2>3
<1>5. CASE FinishOverlays
  <2>1. TypeOK'
    BY <1>5 DEF FinishOverlays, Pass, Go, TypeOK
  <2>2. PolicyOK' /\ CredOK' /\ OwnerOK' /\ MapsOK'
    BY <1>5 DEF FinishOverlays, Pass, Go, TypeOK, PolicyOK, CredOK, OwnerOK,
       MapsOK, Target, NewNamespace
  <2>3. EnvOK'
    <3>1. policy.time.shared => env.clocks = policy.time.set
      BY <1>5 DEF FinishOverlays, Pass, Go, PolicyOK, EnvOK
    <3> QED
      BY <1>5, <3>1 DEF FinishOverlays, Pass, Go, EnvOK, TypeOK
  <2> QED
    BY <2>1, <2>2, <2>3
<1>6. CASE UnshareTime
  <2>1. TypeOK'
    BY <1>6 DEF UnshareTime, Pass, Go, TypeOK
  <2>2. PolicyOK' /\ CredOK' /\ OwnerOK' /\ MapsOK'
    BY <1>6 DEF UnshareTime, Pass, Go, TypeOK, PolicyOK, CredOK, OwnerOK,
       MapsOK, Target, NewNamespace
  <2>3. EnvOK'
    BY <1>6 DEF UnshareTime, Pass, Go, TypeOK, PolicyOK, EnvOK
  <2> QED
    BY <2>1, <2>2, <2>3
<1>7. CASE WriteTimensOffsets
  <2>1. TypeOK'
    BY <1>7 DEF WriteTimensOffsets, Go, TypeOK, Options
  <2>2. PolicyOK' /\ CredOK' /\ OwnerOK' /\ MapsOK'
    BY <1>7 DEF WriteTimensOffsets, Go, TypeOK, PolicyOK, CredOK, OwnerOK,
       MapsOK, Target, NewNamespace
  <2>3. EnvOK'
    BY <1>7 DEF WriteTimensOffsets, Go, TypeOK, PolicyOK, EnvOK
  <2> QED
    BY <2>1, <2>2, <2>3
<1>8. CASE EnterTime
  <2>1. TypeOK'
    BY <1>8 DEF EnterTime, Go, TypeOK
  <2>2. PolicyOK' /\ CredOK' /\ OwnerOK' /\ MapsOK'
    BY <1>8 DEF EnterTime, Go, TypeOK, PolicyOK, CredOK, OwnerOK,
       MapsOK, Target, NewNamespace
  <2>3. EnvOK'
    BY <1>8 DEF EnterTime, Go, TypeOK, PolicyOK, EnvOK
  <2> QED
    BY <2>1, <2>2, <2>3
<1> QED
  BY <1>1, <1>2, <1>3, <1>4, <1>5, <1>6, <1>7, <1>8 DEF Namespaces

\* From the umask to the new root.
LEMMA FilesystemInv == IInv /\ Filesystem => IInv'
<1> SUFFICES ASSUME IInv, Filesystem
             PROVE  IInv'
  OBVIOUS
<1> USE DEF IInv
<1>1. CASE ClearUmask
  <2>1. TypeOK'
    BY <1>1 DEF ClearUmask, Go, TypeOK
  <2>2. PolicyOK' /\ CredOK' /\ OwnerOK' /\ MapsOK'
    BY <1>1 DEF ClearUmask, Go, TypeOK, PolicyOK, CredOK, OwnerOK,
       MapsOK, Target, NewNamespace
  <2>3. EnvOK'
    BY <1>1 DEF ClearUmask, Go, TypeOK, PolicyOK, EnvOK
  <2> QED
    BY <2>1, <2>2, <2>3
<1>2. CASE MakePrivate
  <2>1. TypeOK'
    BY <1>2 DEF MakePrivate, Pass, Go, TypeOK
  <2>2. PolicyOK' /\ CredOK' /\ OwnerOK' /\ MapsOK'
    BY <1>2 DEF MakePrivate, Pass, Go, TypeOK, PolicyOK, CredOK, OwnerOK,
       MapsOK, Target, NewNamespace
  <2>3. EnvOK'
    BY <1>2 DEF MakePrivate, Pass, Go, TypeOK, PolicyOK, EnvOK
  <2> QED
    BY <2>1, <2>2, <2>3
<1>3. CASE ResolveNonbinds
  <2>1. TypeOK'
    BY <1>3 DEF ResolveNonbinds, Pass, Go, TypeOK
  <2>2. PolicyOK' /\ CredOK' /\ OwnerOK' /\ MapsOK'
    BY <1>3 DEF ResolveNonbinds, Pass, Go, TypeOK, PolicyOK, CredOK, OwnerOK,
       MapsOK, Target, NewNamespace
  <2>3. EnvOK'
    BY <1>3 DEF ResolveNonbinds, Pass, Go, TypeOK, PolicyOK, EnvOK
  <2> QED
    BY <2>1, <2>2, <2>3
<1>4. CASE AttachMounts
  <2>1. TypeOK'
    BY <1>4 DEF AttachMounts, Go, TypeOK
  <2>2. PolicyOK' /\ CredOK' /\ OwnerOK' /\ MapsOK'
    BY <1>4 DEF AttachMounts, Go, TypeOK, PolicyOK, CredOK, OwnerOK,
       MapsOK, Target, NewNamespace
  <2>3. EnvOK'
    BY <1>4 DEF AttachMounts, Go, TypeOK, PolicyOK, EnvOK
  <2> QED
    BY <2>1, <2>2, <2>3
<1>5. CASE PivotRoot
  <2>1. TypeOK'
    BY <1>5 DEF PivotRoot, Go, TypeOK
  <2>2. PolicyOK' /\ CredOK' /\ OwnerOK' /\ MapsOK'
    BY <1>5 DEF PivotRoot, Go, TypeOK, PolicyOK, CredOK, OwnerOK,
       MapsOK, Target, NewNamespace
  <2>3. EnvOK'
    BY <1>5 DEF PivotRoot, Go, TypeOK, PolicyOK, EnvOK
  <2> QED
    BY <2>1, <2>2, <2>3
<1> QED
  BY <1>1, <1>2, <1>3, <1>4, <1>5 DEF Filesystem

\* Host name, vsock and loopback device.
LEMMA NetworkInv == IInv /\ Network => IInv'
<1> SUFFICES ASSUME IInv, Network
             PROVE  IInv'
  OBVIOUS
<1> USE DEF IInv
<1>1. CASE SetUts
  <2>1. TypeOK'
    BY <1>1 DEF SetUts, Go, TypeOK, Options
  <2>2. PolicyOK' /\ CredOK' /\ OwnerOK' /\ MapsOK'
    BY <1>1 DEF SetUts, Go, TypeOK, PolicyOK, CredOK, OwnerOK,
       MapsOK, Target, NewNamespace
  <2>3. EnvOK'
    BY <1>1 DEF SetUts, Go, TypeOK, PolicyOK, EnvOK
  <2> QED
    BY <2>1, <2>2, <2>3
<1>2. CASE ProbeVsock
  <2>1. TypeOK'
    BY <1>2 DEF ProbeVsock, Go, TypeOK
  <2>2. PolicyOK' /\ CredOK' /\ OwnerOK' /\ MapsOK'
    BY <1>2 DEF ProbeVsock, Go, TypeOK, PolicyOK, CredOK, OwnerOK,
       MapsOK, Target, NewNamespace
  <2>3. EnvOK'
    BY <1>2 DEF ProbeVsock, Go, TypeOK, PolicyOK, EnvOK
  <2> QED
    BY <2>1, <2>2, <2>3
<1>3. CASE SetVsockMode
  <2>1. TypeOK'
    BY <1>3 DEF SetVsockMode, Go, TypeOK
  <2>2. PolicyOK' /\ CredOK' /\ OwnerOK' /\ MapsOK'
    BY <1>3 DEF SetVsockMode, Go, TypeOK, PolicyOK, CredOK, OwnerOK,
       MapsOK, Target, NewNamespace
  <2>3. EnvOK'
    BY <1>3 DEF SetVsockMode, Go, TypeOK, PolicyOK, EnvOK
  <2> QED
    BY <2>1, <2>2, <2>3
<1>4. CASE UnshareNetworkAgain
  <2>1. TypeOK'
    <3>1. cred.userns \in 0 .. 2
      BY DEF TypeOK
    <3>2. owner' \in Owners
      BY <1>4, <3>1 DEF UnshareNetworkAgain, TypeOK
    <3>3. env' \in Environments
      <4>1. \A m \in {"global", "local"} :
              [env EXCEPT !.vsock = m, !.loopback = FALSE] \in Environments
        BY DEF TypeOK
      <4>2. env.child_mode \in {"global", "local"}
        BY DEF TypeOK
      <4>3. env' = [env EXCEPT !.vsock = env.child_mode, !.loopback = FALSE]
        BY <1>4 DEF UnshareNetworkAgain
      <4> QED
        BY <4>1, <4>2, <4>3
    <3> QED
      BY <1>4, <3>1, <3>2, <3>3 DEF UnshareNetworkAgain, Go, TypeOK
  <2>2. PolicyOK' /\ CredOK' /\ OwnerOK' /\ MapsOK'
    BY <1>4 DEF UnshareNetworkAgain, Go, TypeOK, PolicyOK, CredOK, OwnerOK,
       MapsOK, Target, NewNamespace
  <2>3. EnvOK'
    BY <1>4 DEF UnshareNetworkAgain, Go, TypeOK, PolicyOK, EnvOK
  <2> QED
    BY <2>1, <2>2, <2>3
<1>5. CASE SetupLoopback
  <2>1. TypeOK'
    BY <1>5 DEF SetupLoopback, Go, TypeOK
  <2>2. PolicyOK' /\ CredOK' /\ OwnerOK' /\ MapsOK'
    BY <1>5 DEF SetupLoopback, Go, TypeOK, PolicyOK, CredOK, OwnerOK,
       MapsOK, Target, NewNamespace
  <2>3. EnvOK'
    BY <1>5 DEF SetupLoopback, Go, TypeOK, PolicyOK, EnvOK
  <2> QED
    BY <2>1, <2>2, <2>3
<1> QED
  BY <1>1, <1>2, <1>3, <1>4, <1>5 DEF Network

\* The second user namespace, and capset.
LEMMA PrivilegesInv == IInv /\ Privileges => IInv'
<1> SUFFICES ASSUME IInv, Privileges
             PROVE  IInv'
  OBVIOUS
<1> USE DEF IInv
<1>d. Dropped(policy.target) = Known \ policy.target
  BY DroppedBits DEF TypeOK
<1>1. CASE RestoreUmask
  <2>1. TypeOK'
    BY <1>1 DEF RestoreUmask, Go, TypeOK
  <2>2. PolicyOK' /\ CredOK' /\ OwnerOK' /\ MapsOK'
    BY <1>1 DEF RestoreUmask, Go, TypeOK, PolicyOK, CredOK, OwnerOK,
       MapsOK, Target, NewNamespace
  <2>3. EnvOK'
    BY <1>1 DEF RestoreUmask, Go, TypeOK, PolicyOK, EnvOK
  <2> QED
    BY <2>1, <2>2, <2>3
<1>2. CASE NewSession
  <2>1. TypeOK'
    BY <1>2 DEF NewSession, Go, TypeOK
  <2>2. PolicyOK' /\ CredOK' /\ OwnerOK' /\ MapsOK'
    BY <1>2 DEF NewSession, Go, TypeOK, PolicyOK, CredOK, OwnerOK,
       MapsOK, Target, NewNamespace
  <2>3. EnvOK'
    BY <1>2 DEF NewSession, Go, TypeOK, PolicyOK, EnvOK
  <2> QED
    BY <2>1, <2>2, <2>3
<1>3. CASE LimitUserNamespaces
  <2>1. TypeOK'
    BY <1>3 DEF LimitUserNamespaces, Go, TypeOK
  <2>2. PolicyOK' /\ CredOK' /\ OwnerOK' /\ MapsOK'
    BY <1>3 DEF LimitUserNamespaces, Go, TypeOK, PolicyOK, CredOK, OwnerOK,
       MapsOK, Target, NewNamespace
  <2>3. EnvOK'
    BY <1>3 DEF LimitUserNamespaces, Go, TypeOK, PolicyOK, EnvOK
  <2> QED
    BY <2>1, <2>2, <2>3
<1>4. CASE UnshareUser
  <2>1. TypeOK'
    <3>1. cred.userns = 1
      BY <1>4 DEF UnshareUser, Go, CredOK
    <3>2. cred' \in Credentials
      BY <1>4, <3>1 DEF UnshareUser
    <3>3. maps' \in [1 .. 2 -> SUBSET {"uid", "gid", "deny"}]
      BY <1>4, <3>1 DEF UnshareUser, TypeOK
    <3> QED
      BY <1>4, <3>1, <3>2, <3>3 DEF UnshareUser, Go, TypeOK
  <2>2. PolicyOK' /\ CredOK' /\ OwnerOK' /\ MapsOK'
    BY <1>4 DEF UnshareUser, Go, TypeOK, PolicyOK, CredOK, OwnerOK,
       MapsOK, Target, NewNamespace
  <2>3. EnvOK'
    BY <1>4 DEF UnshareUser, Go, TypeOK, PolicyOK, EnvOK
  <2> QED
    BY <2>1, <2>2, <2>3
<1>5. CASE DropBoundingSet("drop_bounding_again", "uid_map_again")
  <2>1. TypeOK'
    BY <1>5, <1>d DEF DropBoundingSet, Go, TypeOK
  <2>2. PolicyOK' /\ CredOK' /\ OwnerOK' /\ MapsOK'
    BY <1>5, <1>d DEF DropBoundingSet, Go, TypeOK, PolicyOK, CredOK, OwnerOK,
       MapsOK, Target, NewNamespace
  <2>3. EnvOK'
    BY <1>5, <1>d DEF DropBoundingSet, Go, TypeOK, PolicyOK, EnvOK
  <2> QED
    BY <2>1, <2>2, <2>3
<1>6. CASE WriteSimpleMapAgain
  <2>1. TypeOK'
    BY <1>6 DEF WriteSimpleMapAgain, WriteMap, Go, TypeOK
  <2>2. PolicyOK' /\ CredOK' /\ OwnerOK' /\ MapsOK'
    BY <1>6 DEF WriteSimpleMapAgain, WriteMap, Go, TypeOK, PolicyOK, CredOK, OwnerOK,
       MapsOK, Target, NewNamespace
  <2>3. EnvOK'
    BY <1>6 DEF WriteSimpleMapAgain, WriteMap, Go, TypeOK, PolicyOK, EnvOK
  <2> QED
    BY <2>1, <2>2, <2>3
<1>7. CASE SetCapabilities
  <2>1. TypeOK'
    <3>1. Target \in SUBSET Known
      BY DEF Target
    <3>2. cred' \in Credentials
      BY <1>7, <3>1 DEF SetCapabilities, TypeOK
    <3> QED
      BY <1>7, <3>1, <3>2 DEF SetCapabilities, Go, TypeOK
  <2>2. PolicyOK' /\ CredOK' /\ OwnerOK' /\ MapsOK'
    BY <1>7 DEF SetCapabilities, Go, TypeOK, PolicyOK, CredOK, OwnerOK,
       MapsOK, Target, NewNamespace
  <2>3. EnvOK'
    BY <1>7 DEF SetCapabilities, Go, TypeOK, PolicyOK, EnvOK
  <2> QED
    BY <2>1, <2>2, <2>3
<1> QED
  BY <1>1, <1>2, <1>3, <1>4, <1>5, <1>6, <1>7 DEF Privileges

\* The last steps, and execveat.
LEMMA ProgramInv == IInv /\ Program => IInv'
<1> SUFFICES ASSUME IInv, Program
             PROVE  IInv'
  OBVIOUS
<1> USE DEF IInv
<1>1. CASE ApplyResources
  <2>1. TypeOK'
    BY <1>1 DEF ApplyResources, Pass, Go, TypeOK
  <2>2. PolicyOK' /\ CredOK' /\ OwnerOK' /\ MapsOK'
    BY <1>1 DEF ApplyResources, Pass, Go, TypeOK, PolicyOK, CredOK, OwnerOK,
       MapsOK, Target, NewNamespace
  <2>3. EnvOK'
    BY <1>1 DEF ApplyResources, Pass, Go, TypeOK, PolicyOK, EnvOK
  <2> QED
    BY <2>1, <2>2, <2>3
<1>2. CASE Callback
  <2>1. TypeOK'
    BY <1>2 DEF Callback, Pass, Go, TypeOK
  <2>2. PolicyOK' /\ CredOK' /\ OwnerOK' /\ MapsOK'
    BY <1>2 DEF Callback, Pass, Go, TypeOK, PolicyOK, CredOK, OwnerOK,
       MapsOK, Target, NewNamespace
  <2>3. EnvOK'
    BY <1>2 DEF Callback, Pass, Go, TypeOK, PolicyOK, EnvOK
  <2> QED
    BY <2>1, <2>2, <2>3
<1>3. CASE ApplyLate
  <2>1. TypeOK'
    BY <1>3 DEF ApplyLate, Pass, Go, TypeOK
  <2>2. PolicyOK' /\ CredOK' /\ OwnerOK' /\ MapsOK'
    BY <1>3 DEF ApplyLate, Pass, Go, TypeOK, PolicyOK, CredOK, OwnerOK,
       MapsOK, Target, NewNamespace
  <2>3. EnvOK'
    BY <1>3 DEF ApplyLate, Pass, Go, TypeOK, PolicyOK, EnvOK
  <2> QED
    BY <2>1, <2>2, <2>3
<1>4. CASE SetAmbient
  <2>1. TypeOK'
    BY <1>4 DEF SetAmbient, Go, TypeOK
  <2>2. PolicyOK' /\ CredOK' /\ OwnerOK' /\ MapsOK'
    BY <1>4 DEF SetAmbient, Go, TypeOK, PolicyOK, CredOK, OwnerOK,
       MapsOK, Target, NewNamespace
  <2>3. EnvOK'
    BY <1>4 DEF SetAmbient, Go, TypeOK, PolicyOK, EnvOK
  <2> QED
    BY <2>1, <2>2, <2>3
<1>5. CASE SetSeccomp
  <2>1. TypeOK'
    BY <1>5 DEF SetSeccomp, Go, TypeOK
  <2>2. PolicyOK' /\ CredOK' /\ OwnerOK' /\ MapsOK'
    BY <1>5 DEF SetSeccomp, Go, TypeOK, PolicyOK, CredOK, OwnerOK,
       MapsOK, Target, NewNamespace
  <2>3. EnvOK'
    <3>1. policy.seccomp = TRUE
      BY <1>5 DEF SetSeccomp, Go, PolicyOK, TypeOK
    <3>2. env'.seccomp = policy'.seccomp
      BY <1>5, <3>1 DEF SetSeccomp, Go, TypeOK
    <3>3. /\ env'.no_new_privs = env.no_new_privs /\ env'.cgroup = env.cgroup
          /\ env'.cgroup_root = env.cgroup_root /\ env'.signals = env.signals
          /\ env'.proc = env.proc /\ env'.clocks = env.clocks
          /\ env'.umask = env.umask /\ env'.tree = env.tree
          /\ env'.root = env.root /\ env'.uts = env.uts
          /\ env'.vsock = env.vsock /\ env'.child_mode = env.child_mode
          /\ env'.loopback = env.loopback /\ env'.session = env.session
          /\ env'.max_userns = env.max_userns
      BY <1>5 DEF SetSeccomp, Go, TypeOK
    <3>4. pc = "seccomp" /\ pc' = "exec" /\ policy' = policy
      BY <1>5 DEF SetSeccomp, Go
    <3> QED
      BY <3>2, <3>3, <3>4 DEF EnvOK
  <2> QED
    BY <2>1, <2>2, <2>3
<1>6. CASE Exec
  <2>1. TypeOK'
    <3>1. cred' \in Credentials
      BY <1>6 DEF Exec, TypeOK
    <3> QED
      BY <1>6, <3>1 DEF Exec, Go, TypeOK
  <2>2. PolicyOK' /\ CredOK' /\ OwnerOK' /\ MapsOK'
    <3>1. /\ cred.permitted = policy.target /\ cred.inheritable = policy.target
          /\ cred.bounding = policy.target /\ cred.ambient = policy.target
          /\ env.no_new_privs = TRUE
      <4>1. cred.ambient = policy.target /\ cred.ambient \subseteq Known
        BY <1>6 DEF Exec, Go, TypeOK, CredOK
      <4>2. Target = policy.target
        BY <4>1 DEF Target
      <4>3. cred.permitted = Target /\ cred.inheritable = Target /\ cred.bounding = Target
        BY <1>6 DEF Exec, Go, CredOK
      <4>4. env.no_new_privs = TRUE
        BY <1>6 DEF Exec, Go, TypeOK, EnvOK
      <4> QED
        BY <4>1, <4>2, <4>3, <4>4
    <3>2. cred' = [cred EXCEPT !.permitted = policy.target, !.effective = policy.target]
      BY <1>6, <3>1 DEF Exec, Go
    <3>3. CredOK'
      BY <1>6, <3>1, <3>2 DEF Exec, Go, TypeOK, CredOK, Target
    <3> QED
      BY <1>6, <3>3 DEF Exec, Go, PolicyOK, OwnerOK, MapsOK, NewNamespace
  <2>3. EnvOK'
    BY <1>6 DEF Exec, Go, TypeOK, PolicyOK, EnvOK
  <2> QED
    BY <2>1, <2>2, <2>3
<1> QED
  BY <1>1, <1>2, <1>3, <1>4, <1>5, <1>6 DEF Program

LEMMA NextInv == IInv /\ [Next]_vars => IInv'
<1> SUFFICES ASSUME IInv, [Next]_vars PROVE IInv'
  OBVIOUS
<1>1. CASE Fail
  <2> USE DEF IInv
  <2> QED
    BY <1>1 DEF Fail, TypeOK, PolicyOK, CredOK, OwnerOK, MapsOK, EnvOK
<1>2. CASE UNCHANGED vars
  BY <1>2, SMTT(60) DEF vars, IInv, TypeOK, PolicyOK, CredOK, OwnerOK, MapsOK, EnvOK, Target
<1> QED
  BY <1>1, <1>2, ConfigureInv, CloneInv, StartInv, NamespacesInv, FilesystemInv,
     NetworkInv, PrivilegesInv, ProgramInv DEF Next

\* Each step finds the capabilities, maps and files the kernel asks for.
LEMMA InvAllowed == IInv => NeverRefused
<1> SUFFICES ASSUME IInv PROVE Allowed(pc)
  BY DEF NeverRefused
<1> USE DEF IInv
<1> USE DEF TypeOK, Has, IdsMapped
<1>1. pc \in {"drop_bounding", "drop_bounding_again"} => Has(Setpcap, cred.userns)
  BY GuestSetupAssumption DEF CredOK
<1>2. pc \in {"cgroup_ns", "binds", "time_ns", "vsock_ns", "time_enter"}
        => Has(SysAdmin, cred.userns)
  BY GuestSetupAssumption DEF CredOK
<1>3. pc \in {"overlays", "private", "nonbind", "attach", "pivot"}
        => Has(SysAdmin, owner.mount)
  BY GuestSetupAssumption DEF CredOK, OwnerOK
<1>4. pc \in {"overlays", "nonbind", "attach", "userns"} => IdsMapped
  BY DEF CredOK, MapsOK
<1>5. /\ pc \in {"uid_map", "uid_map_again"} => "uid" \notin maps[cred.userns]
      /\ pc \in {"gid_map", "gid_map_again"} =>
           "deny" \in maps[cred.userns] /\ "gid" \notin maps[cred.userns]
  BY DEF CredOK, MapsOK
<1>6. pc = "time_offsets" => Has(SysTime, cred.userns) /\ owner.time = 0
  BY GuestSetupAssumption DEF CredOK, OwnerOK
<1>7. pc = "uts" /\ policy.uts.set # {} => Has(SysAdmin, owner.uts)
  BY GuestSetupAssumption DEF CredOK, OwnerOK, PolicyOK, NewNamespace
<1>8. /\ pc \in {"vsock_mode", "limit"} => env.proc = "full"
      /\ pc \in {"vsock_mode", "loopback"} => Has(NetAdmin, owner.network)
  <2>1. pc \in {"vsock_mode", "limit"} => env.proc = "full"
    BY DEF PolicyOK, EnvOK
  <2>2. pc \in {"vsock_mode", "loopback"} => Has(NetAdmin, owner.network)
    BY GuestSetupAssumption DEF CredOK, OwnerOK, PolicyOK, NewNamespace
  <2> QED
    BY <2>1, <2>2
<1>9. /\ pc = "limit" => Has(SysResource, 1)
      /\ pc = "userns" => (env.max_userns = "one" => cred.userns = 1)
  BY GuestSetupAssumption DEF CredOK
<1>10. /\ pc = "capset" => Target \subseteq cred.permitted \cap (cred.inheritable \cup cred.bounding)
       /\ pc = "ambient" => Target \subseteq cred.permitted \cap cred.inheritable
  BY DEF CredOK, Target
<1>11. pc = "seccomp" => env.no_new_privs \/ Has(SysAdmin, cred.userns)
  BY DEF EnvOK
<1> QED
  BY <1>1, <1>2, <1>3, <1>4, <1>5, <1>6, <1>7, <1>8, <1>9, <1>10, <1>11 DEF Allowed

LEMMA InvProgram == IInv => CapabilitiesAsAsked /\ SandboxAsAsked
<1> SUFFICES ASSUME IInv, pc = "program" PROVE CapabilitiesAsAsked /\ SandboxAsAsked
  BY DEF CapabilitiesAsAsked, SandboxAsAsked
<1> USE DEF IInv
<1>1. CapabilitiesAsAsked
  BY DEF CapabilitiesAsAsked, CredOK, EnvOK, Target, TypeOK
<1>2. SandboxAsAsked
  <2>1. /\ \A n \in {"ipc", "network", "uts", "time"} : (owner[n] = 0) = policy[n].shared
        /\ owner.cgroup = 1 /\ owner.mount = 1
    BY DEF OwnerOK, TypeOK, Options, NewNamespace
  <2>2. env.cgroup_root = env.cgroup /\ (policy.cgroups # "null") = (env.cgroup = "sandbox")
    BY DEF EnvOK, TypeOK
  <2>3. /\ env.uts = policy.uts.set /\ env.clocks = policy.time.set
        /\ ~policy.network.shared => (env.loopback /\ env.vsock # "global")
    BY DEF EnvOK
  <2>4. /\ env.root = "sandbox" /\ env.tree = "zero" /\ env.umask = "caller"
        /\ env.signals = "default" /\ (env.session = "own") = policy.new_session
        /\ env.seccomp = policy.seccomp
    BY DEF EnvOK
  <2> QED
    BY <2>1, <2>2, <2>3, <2>4 DEF SandboxAsAsked
<1> QED
  BY <1>1, <1>2

\* No step of guest_post_clone or of clone_into comes after one that took from
\* the guest what it needs, whatever numbers the capabilities have.
THEOREM StepsAreAllowed == Spec => []NeverRefused
BY InitInv, NextInv, InvAllowed, PTL DEF Spec

\* The program's capabilities are those of its policy, and it gets no others
\* (drop_bounding_set, capset, ambient capabilities and execveat together).
THEOREM CapabilitiesAreExact == Spec => []CapabilitiesAsAsked
BY InitInv, NextInv, InvProgram, PTL DEF Spec

\* The program is in the namespaces and the environment its policy asks for.
THEOREM SandboxIsExact == Spec => []SandboxAsAsked
BY InitInv, NextInv, InvProgram, PTL DEF Spec

=============================================================================

# layer-cake: a verification project

TLA+ specifications of the concurrent, order-sensitive and byte-level parts of layer-cake,
checked with TLC on small instances and, where the same statement is worth
having for every instance, proved with TLAPS.

The repository is a Rust workspace. `bubblebox` is a library that runs a program
in a Linux sandbox, `meowix` the system call layer under it, `store` a
content-addressed store of files, `bbx` a command line for bubblebox. The other
crates are empty (`core`, `mojang`, `modrinth`) or a window without logic
(`gtk4`). There are no tests in the repository.

## The system

| component | state | operations | what makes it correct |
|---|---|---|---|
| spawn protocol (`spawn/mod.rs`, `policy/mod.rs`) | the status pipe, the guest's pidfd, the stage of host and guest, the backend's state | `clone_into`, `host_post_clone`, `guest_post_clone`, the spawn action | the answer agrees with what the guest did; no guest outlives its owner |
| cgroups backends (`cgroups/`) | the eventfd or the cgroup descriptors, the unit | `host_post_clone_hook`, `guest_post_clone_hook`, `teardown` | limits before program; no unit left behind |
| cgroup policy (`cgroups/policy.rs`, `fd.rs`, `systemd.rs`) | controllers and attributes | the builders, `apply_to_cgroup`, the delegation | no order of steps gets in the policy's way; a guest runs under all of it |
| guest handle (`command.rs`) | pidfd, destructor | `wait`, `try_wait`, `terminate`, drop | kill, then wait, then destructor, once |
| descriptor policy (`policy/fd.rs`, `spawn/fd.rs`) | the map; the guest's descriptor table | `ignore`, `map`, `close`, `clear`, `is_valid`; `apply_file_descriptor_policy` | the program finds what the policy means; the pipe survives |
| mount tree (`policy/mounts.rs`, `mounts.rs`, `spawn/mounts.rs`, `paths.rs`) | a map of normalised guest paths to mounts; resolved slots | `mount`, `remove`, the validator; resolution and attachment in the guest | every accepted tree can be attached in order; capacities suffice |
| guest setup (`spawn/mod.rs`, `spawn/namespace.rs`, `policy/namespace.rs`, `meowix/capabilities.rs`) | capability sets, namespaces, maps, what the steps set up | `guest_post_clone`, the builders | no step needs what an earlier one gave up; the program gets what was asked |
| limits, scheduling, keyrings (`policy/` and `spawn/` `rlimit.rs`, `scheduler.rs`, `keyring.rs`) | options; the guest's attributes | builders, one `apply_*` each | the same, against the limits of the moment |
| error wire format (`spawn/wire.rs`, `spawn/errors.rs`) | none | encode, decode | the caller is told what happened |
| netlink (`meowix/netlink.rs`) | a buffer, a sequence number | `setup_loopback`, the message writer, `check_for_ack` | the acknowledgement is for this request; the wait ends |
| transfer helpers (`meowix/util.rs`) | none | read and write loops, digit bounds | what is transferred is accounted for |
| content store (`store/src/linux/mod.rs`) | a directory, `.generation`, `.lock`, unnamed files | open, create, insert, finish | a blob is there whole or not at all |

They interact as follows. A caller builds a `Policy`, whose builders validate the
descriptor policy and the mount tree. `Policy::spawn_with` calls `clone_into`.
The host thread opens a pipe, clones the guest and runs the backend's hook; the
guest waits in its half of the hook, sets up namespaces and mounts, writes a
message, applies the scheduler, keyring, descriptor and limit policies, raises the
ambient capabilities and executes the program. The host reads
that message and then waits for a second message or the end of the pipe. The
answer is a `Guest`, whose drop kills the guest; the kernel kills it too when the
last pidfd is closed (`CLONE_PIDFD_AUTOKILL`), which happens at the latest when
the host and everything that inherited its descriptors are gone. Several threads
may spawn at once, and they share one descriptor table. The store is separate:
processes meet in its directory only.

Hard behaviours: overlapping spawns (descriptors inherited by guests of other
calls), the guest's death or the host's at any point, an error of the hook while
the guest waits, the timeout of the service manager, the in-place application of
a descriptor policy, processes that die while they create a store or insert into
it, some forty privileged steps in the guest of which each may take away what a
later one needs, and a socket that delivers anything. `PROJECT.json` lists these as
hazards, each at its line, with the properties that are about it.

## Modules

| module | what it is |
|---|---|
| `Sandbox` | abstract: a request, its answer, the program's life |
| `Spawn` | the spawn protocol, the backend hooks, the handle |
| `MCSpawn` | instances of `Spawn` |
| `SpawnProofs` | type correctness and the safety properties of `Spawn`, and that it implements the safety part of `Sandbox`, proved |
| `FdPolicy` | the descriptor policy: builder, validator, application |
| `FdPolicyProofs` | type correctness and the invariants of `FdPolicy`, proved |
| `MountTree` | the mount tree of a policy: builder and validator |
| `MountResolution` | composes `MountTree` with the loops that resolve its entries in the guest |
| `MountAttach` | composes `MountTree` with the loop that attaches what was resolved |
| `MCMountResolution`, `MCMountAttach` | instances of these two |
| `MountProofs` | type correctness and the safety properties of `MountTree`, `MountAttach` and `MountResolution`, proved |
| `ContentStore` | abstract: a growing set of blobs and the writers' answers |
| `Store` | the directory backend |
| `MCStore` | instances of `Store` |
| `StoreProofs` | the safety properties of `Store`, and that it implements `ContentStore`, proved |
| `GuestSetup`, `MCGuestSetup` | the namespace policy and the privileged steps of the guest |
| `GuestSetupProofs` | the properties of `GuestSetup`, proved |
| `GuestLimits`, `MCGuestLimits` | limits, scheduling and keyrings: builders and application |
| `GuestLimitsProofs` | the properties of `GuestLimits`, proved |
| `CgroupPolicy`, `MCCgroupPolicy` | the cgroup policy, its hierarchy and its application by two backends |
| `CgroupPolicyProofs` | the two properties of `CgroupPolicy`, proved |
| `ErrorWire` | the encoding of an outcome in six bytes and back |
| `StatusChannel`, `MCStatusChannel` | composes `ErrorWire` with the status pipe, byte by byte |
| `Netlink`, `MCNetlink` | the loopback set-up over netlink |
| `WireProofs` | the round trip, and the safety properties of `StatusChannel` and `Netlink`, proved |

`Spawn` is the frame: its message is one step, which `StatusChannel` has byte by byte;
its set-up in the guest is one step, which `GuestSetup` takes apart. There the mounts,
the descriptors, the limits and the loopback device are one step each, and
`MountResolution` with `MountAttach`, `FdPolicy`, `GuestLimits` and `Netlink` have
those. Its backend's hook is a few steps; what they do to the hierarchy is in
`CgroupPolicy`.

### Spawn

One element of `Guests` is one call of `spawn_with` with the guest it clones, and
`hpc[g]` and `gpc[g]` say where the host thread and the guest are. Each stage of
the host is a place in `clone_into` or `host_post_clone` between two system calls
whose order matters; the stages of the guest are before, in and after the
backend's hook, the spawn action, the program. `writers[g]` and `pidfds[g]` are the
processes that hold the pipe's write end and the guest's pidfd: `Clone` copies
every descriptor of the host into the new guest, `Exec` closes all of them since
they are O_CLOEXEC, and a death closes them too. The pipe is a sequence of whole
messages (they are far below PIPE_BUF).

Some calls fail where the code goes on as it can, and `MayFail` names those that an
instance lets fail. Three are the host's: `"io"` (the pipe or the eventfd),
`"handle"` (a signal or a wait of the handle) and `"stop"` (a StopUnit). Two are the
guest's: its reports of `"setup"` and `"exec"`, which `clone_into` writes with the result
dropped. `faults[g]` and `lost[g]` remember which did, so that a property can name
exactly the cases in which it promises less. A lost report has these outcomes:

- the setup report is lost and `execveat` succeeds: the host reads the end of the pipe
  where it expects the report, and `clone_into` returns an error although the program ran
  (it is killed as the pidfd is dropped);
- the exec report is lost, for instance because the caller's seccomp filter, which is
  in force by then, denies the write: the end of the pipe is what an `execveat` looks
  like, and `clone_into` returns a handle for a guest that failed.

The steps of the systemd hook are those that the guest or a guard can tell apart:
connecting (no guard yet), asking for the unit (under the guard), waiting for its job,
filling the cgroup, writing the eventfd. `unit[g]` is `"queued"` from the request until the
service manager runs the job (`JobRuns`) or fails it, and the five second deadline may
pass in between. Then the guard's StopUnit, whose mode is `"fail"`, is refused, because
it would have to replace the queued job, and the unit comes up after the host has given
up on it; it goes when its guest is dead and systemd collects it. `state[g]` is
the backend's PreClone or PostClone: an error after the eventfd is written leaves it
PreClone, with the guard on the unit still armed.

What is abstracted here: the contents of errors, the steps inside `guest_post_clone`
after the hook, the D-Bus messages, the process identifier. A host that dies runs no
destructor, whatever the cause.

`Sandbox` has `trouble[g]` for what lies between the caller and the program: with trouble a
request may be lost, or answered with success for a program that failed; without it
it may not. `Spawn` maps to it the failures of the host's I/O and the lost reports.

### FdPolicy

A file is named by the descriptor it is open at when the guest is cloned, so the
table starts as a partial identity and a duplicate is visible as such. `Build` is
the caller's part with the validator; `Apply` is the loop over the map, one action
per system call or branch. `Meaning` says what a policy means with no order of
application.

### MountTree, MountResolution, MountAttach

A guest path is the sequence of its components, and a component is a number, since
only equality and order matter; this is what `GuestInner::new` leaves of a path
after it has dropped `.` and refused `..`. `Before` and `StartsWith` are `Ord` and
`starts_with`. A mount is its kind and, for an overlay, the number of its layers and
what its writable layer is; the options of a mount are left out. The validator is
one action per entry of the tree, `Visit` or `Reject`; `PopsTo` is its inner loop,
which also drops the ancestor it stops at.

`MountResolution` is what `resolve_bind_mappings`, `finish_overlay_mount_resolution`
and `resolve_nonbind_mappings` do, one action per turn of each loop. `Rank` is the
index `enumerate` gives an entry. Entering a mount namespace and capturing from it
are one step, so the namespace a thread is in is not in the state; capturing a file
and comparing it are two, and a process of the host may move files at any time.

`MountAttach` takes an accepted tree and attaches in path order, which is the order
of the slots by `SlotsComplete`. What a filesystem brings along is any choice of
objects at the paths beneath it. `touched` remembers the filesystems in which a
mount point was created or used, a file made, a link set. Pivoting to the new root
is the step `Finish`.

### Store

One element of `Writers` is one thread of one process from `open` to the end of one
insertion, and also names the `O_TMPFILE` it writes. Contents are sequences of
chunks, and `Hash` is any function without collisions. An action is one system call
that another writer could see, or a group that none can. The shared lock of
`finish` excludes nobody, because nothing takes the exclusive one, so it is not in
the state.

### GuestSetup

`pc` names the guest's next step, and an action is one privileged step with the
steps that need nothing around it. `cred` has the user namespace the guest is in and
its five capability sets, `owner` the user namespace that owns each of its other
namespaces, `maps` what has been written to the identity maps, `env` all that the
program or a later step can notice. `Allowed` collects what the kernel asks for at
each step, and it is the one place where the kernel is modelled: a capability counts
only over what the guest's own user namespace owns. The policy is what the builders
can reach, and `Fail` is any error at any step.

### GuestLimits

`guest` and `caller` are the attributes of two processes; the guest starts as `Cloned`
makes it, which is a copy but for a reset-on-fork flag: fork clears the flag in the child,
and takes from it what needs privileges (a real-time policy, a negative nice value) and
the utilization hints. `scheduler.rs` makes the same exception to what passes through
unaltered. A caller that runs under a deadline and has no such flag cannot clone.
`Order` is the order of `guest_post_clone` and `clone_into`, and `Refuses` the kernel's
answer to a process without capabilities, which depends on the limits the process
has at that moment: the scheduler's on RLIMIT_NICE and RLIMIT_RTPRIO, a descriptor's on
RLIMIT_NOFILE, a limit's on itself. Limits are applied one prlimit64 per step.

### CgroupPolicy

Three cgroups: the root (a caller's, or a scope's), the one that gets the settings,
and the child with the guest. With the owned backend the first two are one. A scope has
a fourth, `anchor`, in which systemd puts the guest (DelegateSubgroup) so that the scope's
own cgroup has no process; the guest is there until the host moves it to the child.
`AttributeOrder` is the order in which `apply_to_cgroup` checks controllers and writes
attributes, and `FirstAsked` skips what the policy does not set. `Refuses` has the
couplings between the kernel's files: idle and weight, quota and burst, processes in a
cgroup that is to delegate or become threaded.

### ErrorWire, StatusChannel

An outcome is a triple of a kind, what it is about and a number. `Encode`, `BytesOf`,
`FromBytes` and `Decode` are the four conversions, with the i32 in two's complement.
`StatusChannel` has the guest's two reports, `write_all` and `read_array` with short
and failed transfers, and the host's two reads. Interrupted calls change nothing and
are no step. `lost` remembers which reports did not get into the pipe.

### Netlink

Messages are sequences of 32-bit words where they are written, and records of the
fields that matter (size, claimed length, number, error) where they are read. A
record also says at which byte of its datagram it starts (`at`): `InFrontOf` puts a
message before others, as the kernel does when it joins them, and moves these back by
its aligned size. `Here` is the message at the guest's offset. The
kernel handles a request inside sendto, as rtnetlink does, and may lose the answer.
`NoiseMessages` lists what else the socket can hold. `ReadsOn` to `ReadAll` are the
turns of the loop over a datagram. The specification is `LoopbackSpec`; that of
`MountResolution` is `ResolutionSpec`, so that one module of proofs can have
two of these at hand.

## Runs

| run | instance | shows |
|---|---|---|
| `spawn_systemd` | 2 guests, systemd backend, exec and exit actions, all calls of `MayFail` fail at will | all safety properties of `Spawn` (1,550,000 states, up to symmetry) |
| `spawn_liveness` | 2 guests, systemd backend, a StopUnit may fail, with fairness | every call returns; nothing outlives its owner (197,000 states) |
| `spawn_refines` | 2 guests, null backend, exec, all but StopUnit may fail | `Spawn` implements `Sandbox`, with its liveness (239,000 states) |
| `fd_policy` | descriptors 0 to 3 and the invalid key -1 | the in-place application is right, and the pipe survives every error |
| `mount_attach` | 5 paths on 3 levels, 7 mounts, up to 3 in a tree | the validator accepts the trees that keep the host untouched, no others; the guest sees the whole tree |
| `mount_resolution` | 3 paths, 6 mounts, files replaced meanwhile | slots, capacities and layers agree between loops; files are the ones opened |
| `store` | 3 writers, 2 chunks, blobs of up to 2 writes, faults and deaths | a blob is there whole or not at all; a store without a generation is accounted for |
| `guest_setup` | six capabilities of eight bits, four target sets, every policy | no step is refused because of an earlier one; the program has what was asked (466,000 states) |
| `guest_limits` | five of the limits, five callers, up to 3 builder calls | a policy never stands in its own set-up's way; all or nothing (687,000 states) |
| `cgroup_policy` | every attribute, three hierarchies, both backends, up to 3 builder calls | what is refused is refused because of the policy alone; all of the policy or no guest (480,000 states) |
| `status_channel` | all 59 system calls, every kind of error, edge numbers | what the caller is told is what happened (63,000 states) |
| `netlink` | a buffer of 12 words, 2 datagrams that answer nothing | success means both requests were carried out in order; the wait ends (147,000 states) |

Bounds. Two guests are the smallest number with inherited descriptors, and the
properties with a circle in them (`NoAutokillCycle`) have one of length two; the
theorems remove the bound. Four descriptors let a policy have two mappings from
different sources with the pipe in the way of one and a free descriptor to move it
to; no bound is left in the theorems. Three writers let one create, one find the
directory between `mkdirat` and `linkat`, and one come later; two chunks and two
writes give contents that are prefixes of each other, which is what a partial blob
looks like. `MaxFd` also stands for the process's limit on descriptors: when no
descriptor is free, `MovePipe` has no successor and only `Fail` remains, which is
EMFILE.

Three mounts are a host mount, something beneath it and something between the two,
which is all the validator's stack can be wrong about; the five paths have siblings,
a third level, and an order that differs from that of names and from that of parents. For the resolution, three
entries put an overlay with each kind of upper layer before another. `MaxMounts` is
no part of the theorems' argument.

For `guest_setup`, bits 6 and 7 are capabilities the kernel does not know, and the
target sets have a gap, an unknown bit, and one that the set-up needs itself; nothing
else is bounded, but for one of two host names and of two clocks, which are alike. In
`guest_limits` the five limits are the three the kernel consults, one before and one
after them; three calls (`MaxCalls`) are enough for two attributes
that collide and a third that changes one of them, and the five callers have every kind
of scheduling, can grant everything, something and almost nothing, and two of them have a
reset-on-fork flag. In `cgroup_policy` an attribute has two
values where another write depends on it, and the couplings are between two
attributes or an attribute and a controller, so three calls suffice. `status_channel`
takes the error numbers at the ends of their range and where a byte ends, and the
values that are none, negative ones included; `PipeBuf` is the kernel's. `netlink` has the
larger request in 10 of its words, which leaves two that are not overwritten (the
buffer has 256). A poll that finds a datagram takes nothing from the polling budget,
so the code itself does not bound how long a stream of foreign notifications keeps it
reading: `MaxNoise` does, and the liveness property says only that after finitely
many the wait ends. `Budget` counts clock ticks; one is enough to have
a poll time out with or without one before.

Deadlock is not checked: in all of these a behaviour may end, since nobody owes
another call. That something must eventually happen is stated as liveness.

Fairness (`Spawn`): weak fairness of each host thread inside a call, of each guest
that can run, and of systemd running or failing a queued job and collecting an empty
scope. That is the scheduler, and what `CollectMode=inactive-or-failed` asks for. Nothing is assumed of what a caller
or a program may choose not to do: to call, to drop a handle, to end, to die. A system
call that waits (`HostBlocked`, `GuestBlocked`: the reads of the pipe, the wait for
the guest, the read of the eventfd) owes nothing until what it waits for is there;
in particular a guest in its hook is not assumed to be released, or to fail.

Fairness (`Netlink`): weak fairness of the guest's steps, which is the scheduler, and of
`Tick`, which is the clock. The kernel owes no answer.

`spawn_liveness` has the refused StopUnit, the start job that is late, all errors of the
hook, guest errors, crashes, and the death of the host. It excludes the other failures to
stay small: a failed signal or wait of the handle leaves the kill to the autokill, which
errors use anyway.

Properties that deserve a word:

- `OkMeansSettled`: success is the absence of a message. It is sound only because
  the guest's own copy of the pipe is closed by exec or death alone; copies in other
  guests can only delay it.
- `FailureReported` and `ErrorMeansNeverRan`: what an answer says of the program, with the
  two lost reports as the only exceptions, each to one of them. After an error the
  guest may be alive for a moment, but only before it was released from its hook, where
  it can do nothing but wait for its kill.
- `NoAutokillCycle` and `CallsSettle`: another guest's copy of a pidfd puts the autokill
  off, but the order of the clones orders the copies, so the last one goes first.
  The unit goes too, though its StopUnit may be refused and it may come up late.
- `NoUnitLeft`: two guards and a destructor share the duty to stop the unit. The unit
  that is still queued at the deadline is the case in which all three are of no use,
  and the note above the guard in `systemd.rs` ("we want to ensure that the unit is
  stopped on error") says more than mode `"fail"` can do.
- `ProgramSeesPolicy`: the loop mutates the table it reads from; the validator is
  what makes this right.
- `NothingUnderHost`, `RejectedForReason`: the validator looks at the top of its
  stack only, and forgets ancestors. That it is exact rests on the order of paths.
- `HostUntouched`, `GuestSeesTree`: what the accepted condition is for.
- `WithinCapacity`, `OverlaysGetTheirLayers`, `SlotsComplete`: each relates two loops
  that count the same things at different times, without a check in release builds.
- `CreationAccounted`: a store without a generation has exactly one creator, at
  work or gone. A creator that fails after `mkdirat` leaves such a store for good:
  later opens succeed and every insertion fails. The source knows (the TODO of a
  repair in `open_at_internal`).
- `NeverRefused`: the capabilities over the first user namespace end with the second
  unshare, procfs is mounted from a condition that repeats what two later steps need
  of it, and the maps decide what can be mounted. Each is far from what relies on it.
- `CapabilitiesAsAsked`: with uid 0 in the guest the kernel would give back on execveat
  what `capset` took; that it does not rests on the bounding set, the second drop of it
  in the second user namespace, and the inheritable set.
- `NeverInItsOwnWay`: the comment in `clone_into` says that the limits come late
  because they "may affect our setup"; here is how, and that nothing else does.
- `LimitsAsAsked`: of every option, what the program has if it is set and what it has if
  it is not, which for scheduling depends on what fork did.
- `RefusedOnlyForCause`: a weight cannot be written to an idle cgroup, so the weight has to
  come first, and no process may be left in a cgroup that is to delegate controllers.
  Three causes remain, each of the policy's own making, and one of them
  is that a threaded cgroup is refused by both backends (the TODO in `policy.rs`).
- `HostLearnsOutcome`: both reports go through one pipe; a first that was lost makes the
  host take the second for it, and the property holds for that too because of what
  the second can be.
- `AckIsGenuine`: an answer is matched by number alone; a late one to the first request
  must not count for the second.

## Theorems

`SpawnProofs` proves, from `SpawnAssumption` alone (so for any set of calls, any
backend, any choice of actions): type correctness and every safety property that
`spawn_systemd` checks. The invariant `IInv` is a conjunction of named parts. The
properties are not inductive by themselves, because they relate the two ends of
the pipe: what makes them so is that a stage of the host and a stage of the guest
determine what is in the pipe, less the reports that were lost (`InPipe`), and who may
still write to it. `AutokillIsAcyclic`
needs nothing of that: a new guest's pidfd is held by the host alone, so a set that
contains it has a member that no other holds, and the other steps only shrink
the holders.

`ImplementsSandboxSafety`, in the same module, is that every step of `Spawn` is a step or
a stutter of `Sandbox`, lost reports included. Its liveness part stays with TLC
(`spawn_refines`).

`FdPolicyProofs` proves all invariants of `FdPolicy` for every `MaxFd`. The strengthening
says, at each entry of the loop, which descriptors already have their final value
(those below `rangeStart`), that the sources are still what they were, and where
the pipe is.

`MountProofs` proves the properties of `mount_attach` for any paths, mounts and trees.
Lemma `NoGap` is the reason the validator is right: in path order, what is beneath a
path follows it without a gap. So if an entry is beneath any visited one, the top
of the stack is that one, or beneath it (`TopDecides`), and the invariant says that
no visited entry is beneath a mount of the host. `PrefixFirst` is the reason no
mount hides another.

It also proves the four properties of `mount_resolution`, for the same trees and any
replacement of files. The loops run over one tree and meet in vectors, and
`ResolutionIInv` says what each vector has at each stage.

- A slot's index is the rank of its path. `BeforeTotal` makes path order a total
  order, from which `Rank` is monotone (`RankMonotone`), injective (`RankInjective`)
  and onto the indices (`RanksAreAll`). So `SlotsSound`, that the slots written are
  the ranks of the entries resolved, each with its own entry, makes `n_resolved` a count of
  distinct slots (`CountsAddUp`), and at the end all of them are written:
  `SlotsAreComplete`.
- The validator counts the mounts of the host in one walk, and the guest pushes layers in
  another. No sum over the tree is needed to compare them: `CountSound` says that there is
  a function `before` that gives each entry room for the entries walked before it
  (`Budget`). The validator's walk extends it by one entry per step; the guest's walk,
  in the same order, has never pushed more than `before` allows:
  `VectorsStayWithinCapacity`.
- Where the layers of an overlay begin is a function `from` in the same way (`Laid`), and
  `mount_i` is always one of its values: `OverlaysAreWhole`.
- `BoundFilesAreGenuine` holds because a slot is written from what was captured and compared,
  not from the name, which may change between the two.

`StoreProofs` proves the properties of `Store` for any set of writers, chunks and any
`MaxWrites`, and that it implements `ContentStore`. The invariant ties each
stage of `finish` to the offset, the digest and the attributes at that stage, and
each link to a writer that has passed it.

`WireProofs` proves `WireRoundTrip` for every error there is (any error number of
1 to 4095, any i32 that is none, any number of system calls that leaves room for the
subtags), and from it `HostLearnsOutcome`, for any `PipeBuf` that holds a message. The
invariant says that what the host has and what is in the pipe, one after the other, are
the bytes of the reports that were delivered whole, and the bytes still to be written
the rest of the last. It uses that a pipe takes six bytes at once, which is where
`PipeBufAssumption` comes in.

The second half of `WireProofs` proves `AcknowledgementsAreGenuine` for `Netlink`: for any
buffer that holds the larger request, any budget, any error numbers of the kernel's and
any number of datagrams that are noise, lost, repeated or joined. An answer is a record
somewhere in a queue, so `LoopbackIInv` says of every message in the queue and in the datagram
at hand that it is `Genuine`: if it acknowledges a number, that many requests and one
more are carried out, and if it refuses one, the request at hand was refused with this very
error and is not carried out. The guest's count of acknowledged requests and
the kernel's count of requests done differ by at most one (`Progress`). `LaidOut`
ties the offsets to the messages, so that the guest, which adds up lengths that it
was told, is always at the beginning of a message or past the last (`NextMessage`); this
is what makes the number and the error that it reads those of one message. A message
whose length is false is either the last or the guest stops there. That what is sent
is what was built, over the remains of the last request, is `SentIs`.

`GuestSetupProofs` proves the three properties of `GuestSetup` for any capability numbers
and any target sets. The invariant says for each variable at which steps it has
which value: `PolicyOK`, `CredOK`, `OwnerOK`, `MapsOK` and `EnvOK` are about sets of steps,
which are the code's order cut at the steps that change something.

`GuestLimitsProofs` proves the two properties of `GuestLimits` for any callers and any
list of limits without repetitions. The invariant: until its turn each limit is the
caller's, so the kernel has nothing but the caller's limits to answer by; and the scheduling
is what fork made of the caller's until `sched_setattr` replaces it (`ClonedFields`,
`ForkedFields`, `WithAttributesFields`).

`CgroupPolicyProofs` proves the two properties of `CgroupPolicy` for any values of the
attributes, any sets of controllers that hierarchies may have, and any number of builder calls.
`PolicyAssumption` says what the code's types say: an option that is not set is no
boolean, and `cpu.idle` and `memory.zswap.writeback` are booleans. The invariant follows
the application along `AttributeOrder`: every setting before the current one is in force
as it was asked, the weight excepted if the cgroup is idle, and none after it has been touched
(`SettledUpTo`). That `FirstAsked` passes over nothing that was asked is
`FirstAskedIs`. A write is refused only for what another attribute says, and
what the others say is known from their place in the order: the type is first, the
weight is before idle, the quota is before the burst. `Delegated` has the child's
controllers, and `Consistent` that a builder which sets an attribute enables its
controller.

Several of these arguments are about the least element of a set or a count of a walk. The
library's induction theorems take an operator as a parameter, which the provers cannot
instantiate; the two places that need induction use well-foundedness of proper
inclusion of finite sets instead, which is a statement about a set (`MinimalSet`, then
`LeastNumber` and `LeastPosition`).

Only model-checked: liveness, and what only holds by it (`CallsSettle`,
`LoopbackSettles`, and the fairness of `Sandbox`). Every safety property
that a run checks is a theorem.

## Not modelled, and the plan

External: the kernel's rules (`Allowed`, `Refuses`, capabilities across execveat, the
handling of a netlink request) and systemd's are modelled from how the code relies on
them. They are marked as external in `PROJECT.json`.

Abstracted inside what is modelled:

- the values of clock offsets, host names, weights and utilizations, and the ranges
  their constructors check before any of it runs;
- the options of a mount, the mount's flags, and the opening of an overlay's layers;
- the D-Bus conversation: each message is one step, and an error of any kind ends it;
- hierarchies of cgroups that others use meanwhile: a hierarchy is fresh and one
  spawn's;
- the reuse of a process identifier by the host before systemd is asked to move the
  guest, which depends on the whole host;
- the two transfer loops without a length: `read_to_end`, and `read_until_full`, with
  which a store reads its generation (one step of `Store`, which may fail);
- the digit bounds of formatted numbers, computed at compile time over 128 bits.

Not modelled: the system call wrappers (one system call each, no state), the command
line (builder calls, one per option, in order), the front end, and the empty crates. The
store's manifests, holds and collection are `todo!()` in the source.

What is left, in the order it would be worth doing:

1. `MountResolution` with mount options.
2. The D-Bus conversation of the systemd backend as messages with serial numbers and
   signals, refining the hook of `Spawn`.
3. `StatusChannel` as a refinement of the atomic messages of `Spawn`.

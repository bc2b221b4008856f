------------------------------ MODULE FdPolicy ------------------------------
(***************************************************************************)
(* The file descriptor policy of bubblebox: the builder and the validator  *)
(* in the host (policy/fd.rs), and its application to the guest's          *)
(* descriptor table right before execveat(2) (spawn/fd.rs).                *)
(*                                                                         *)
(* A file is named by the descriptor it is open at when the guest is       *)
(* cloned, so that the table starts as a partial identity.                 *)
(***************************************************************************)
EXTENDS Integers

CONSTANT MaxFd   \* the largest descriptor the guest may use

ASSUME FdPolicyAssumption == MaxFd \in Nat

Fd == 0 .. MaxFd

\* What a caller may give as a descriptor to act on: RawFd is signed.
Key == -1 .. MaxFd

\* A policy maps a descriptor to the source to duplicate into it, or to one of
\* these.  No entry in the map is the default: close on exec.
Default == -1
Ignore == -2
Action == Fd \cup {Default, Ignore}

Free == -1   \* what a descriptor that is not open refers to

VARIABLES
  policy,      \* policy[fd]: the action on fd
  stage,       \* where building, validating or applying the policy is
  given,       \* the table as cloned: what is open, close-on-exec, the pipe
  table,       \* table[fd]: the file fd refers to, or Free
  cloexec,     \* the open descriptors with the close-on-exec flag
  pipe,        \* guest_pipe: the descriptor of the status pipe
  rangeStart,  \* range_start: the descriptors below are done
  delayed,     \* source_for_guest_pipe, or Free for None
  target       \* raw_guest_pipe: where the pipe was before it moved

tableVars == <<table, cloexec, pipe>>
cursorVars == <<rangeStart, delayed, target>>
vars == <<policy, stage, given, tableVars, cursorVars>>

Applying == {"entry", "mark", "move", "remap"}
Stage == {"build", "rejected", "done", "failed", "program"} \cup Applying

NoTable == [open |-> {}, cloexec |-> {}, pipe |-> Free]

TypeOK ==
  /\ policy \in [Key -> Action]
  /\ stage \in Stage
  /\ given \in [open : SUBSET Fd, cloexec : SUBSET Fd, pipe : Fd \cup {Free}]
  /\ table \in [Fd -> Fd \cup {Free}]
  /\ cloexec \in SUBSET Fd
  /\ pipe \in Fd \cup {Free}
  /\ rangeStart \in 0 .. MaxFd + 1
  /\ delayed \in Fd \cup {Free}
  /\ target \in Fd \cup {Free}

Init ==
  /\ policy = [fd \in Key |-> Default]
  /\ stage = "build"
  /\ given = NoTable
  /\ table = [fd \in Fd |-> Free]
  /\ cloexec = {}
  /\ pipe = Free
  /\ rangeStart = 0
  /\ delayed = Free
  /\ target = Free

-----------------------------------------------------------------------------
\* The builder and the validator.

\* FdPolicy::ignore, map and close replace the action on one descriptor.
SetAction(fd, action) ==
  /\ stage = "build"
  /\ policy' = [policy EXCEPT ![fd] = action]
  /\ UNCHANGED <<stage, given, tableVars, cursorVars>>

Clear ==
  /\ stage = "build"
  /\ policy' = [fd \in Key |-> Default]
  /\ UNCHANGED <<stage, given, tableVars, cursorVars>>

Sources == {policy[fd] : fd \in Key} \cap Fd

\* Mutant: the validator lets a source be mapped itself.
IsValidChained == \A fd \in Key : policy[fd] # Default => fd >= 0

\* is_valid_fd_policy.
IsValid ==
  \A fd \in Key : policy[fd] # Default =>
    /\ fd >= 0
    /\ policy[fd] # Ignore => fd \notin Sources

\* Policy::fd_policy refuses an invalid policy.
Reject ==
  /\ stage = "build" /\ ~IsValid
  /\ stage' = "rejected"
  /\ UNCHANGED <<policy, given, tableVars, cursorVars>>

\* The guest is cloned with some table: the sources are borrowed, so they are
\* open and none of them is the pipe, which clone_into has opened O_CLOEXEC.
Clone(open, closing, p) ==
  /\ stage = "build" /\ IsValid
  /\ p \in closing /\ closing \subseteq open
  /\ Sources \subseteq open \ {p}
  /\ given' = [open |-> open, cloexec |-> closing, pipe |-> p]
  /\ table' = [fd \in Fd |-> IF fd \in open THEN fd ELSE Free]
  /\ cloexec' = closing
  /\ pipe' = p
  /\ stage' = "entry"
  /\ UNCHANGED <<policy, cursorVars>>

-----------------------------------------------------------------------------
\* apply_file_descriptor_policy.

\* The entry the loop is at: the BTreeMap is walked in ascending order.
IsEntry(fd) ==
  /\ policy[fd] # Default /\ fd >= rangeStart
  /\ \A lower \in rangeStart .. fd - 1 : policy[lower] = Default

Step(from, to) == stage = from /\ stage' = to /\ UNCHANGED <<policy, given>>

\* close_range(first, last, CLOSE_RANGE_CLOEXEC).
Marked(first, last) == cloexec \cup {fd \in first .. last : table[fd] # Free}

\* Mutant: the pipe's descriptor is mapped over like any other.
MapAtOnce(fd) ==
  /\ IsEntry(fd) /\ policy[fd] >= 0
  /\ Step("entry", "mark")
  /\ table' = [table EXCEPT ![fd] = table[policy[fd]]]
  /\ cloexec' = cloexec \ {fd}
  /\ UNCHANGED <<pipe, cursorVars>>

\* dup3(source, fd, 0).
Map(fd) ==
  /\ IsEntry(fd) /\ policy[fd] >= 0 /\ fd # pipe
  /\ Step("entry", "mark")
  /\ table' = [table EXCEPT ![fd] = table[policy[fd]]]
  /\ cloexec' = cloexec \ {fd}
  /\ UNCHANGED <<pipe, cursorVars>>

\* The pipe is in the way of the mapping, which has to wait.
Delay(fd) ==
  /\ IsEntry(fd) /\ policy[fd] >= 0 /\ fd = pipe
  /\ Step("entry", "mark")
  /\ delayed' = policy[fd]
  /\ UNCHANGED <<tableVars, rangeStart, target>>

Leave(fd) ==
  /\ IsEntry(fd) /\ policy[fd] = Ignore
  /\ Step("entry", "mark")
  /\ UNCHANGED <<tableVars, cursorVars>>

\* Mutant: the descriptor itself is marked too.
MarkThrough(fd) ==
  /\ IsEntry(fd)
  /\ Step("mark", "entry")
  /\ cloexec' = Marked(rangeStart, fd)
  /\ rangeStart' = fd + 1
  /\ UNCHANGED <<table, pipe, delayed, target>>

\* Mutant: the descriptor after the entry is skipped.
MarkSkipping(fd) ==
  /\ IsEntry(fd)
  /\ Step("mark", "entry")
  /\ cloexec' = Marked(rangeStart, fd - 1)
  /\ rangeStart' = fd + 2
  /\ UNCHANGED <<table, pipe, delayed, target>>

\* What lies between the last entry and this one is marked close-on-exec.
MarkBefore(fd) ==
  /\ IsEntry(fd)
  /\ Step("mark", "entry")
  /\ cloexec' = Marked(rangeStart, fd - 1)
  /\ rangeStart' = fd + 1
  /\ UNCHANGED <<table, pipe, delayed, target>>

\* And what lies after the last.
MarkRest ==
  /\ \A fd \in rangeStart .. MaxFd : policy[fd] = Default
  /\ Step("entry", IF delayed = Free THEN "done" ELSE "move")
  /\ cloexec' = Marked(rangeStart, MaxFd)
  /\ rangeStart' = MaxFd + 1
  /\ UNCHANGED <<table, pipe, delayed, target>>

\* fcntl(F_DUPFD_CLOEXEC) takes the lowest free descriptor; assigning the new
\* guest_pipe closes the old one.
MovePipe ==
  \E fd \in Fd :
    /\ table[fd] = Free /\ \A lower \in 0 .. fd - 1 : table[lower] # Free
    /\ Step("move", "remap")
    /\ table' = [table EXCEPT ![fd] = table[pipe], ![pipe] = Free]
    /\ cloexec' = (cloexec \cup {fd}) \ {pipe}
    /\ pipe' = fd
    /\ target' = pipe
    /\ UNCHANGED <<rangeStart, delayed>>

\* Now the delayed mapping.
Remap ==
  /\ Step("remap", "done")
  /\ table' = [table EXCEPT ![target] = table[delayed]]
  /\ cloexec' = cloexec \ {target}
  /\ UNCHANGED <<pipe, cursorVars>>

\* The system calls that may fail: dup3(2) of an entry, close_range(2) of a
\* range that is not empty, fcntl(2), the last dup3(2), and what the exec
\* action does after the policy is applied, execveat(2) included.
Fail ==
  /\ \/ stage \in {"move", "remap", "done"}
     \/ stage = "entry" /\ \A fd \in rangeStart .. MaxFd : policy[fd] = Default
     \/ \E fd \in Fd : IsEntry(fd) /\ \/ stage = "entry" /\ policy[fd] >= 0 /\ fd # pipe
                                      \/ stage = "mark" /\ rangeStart < fd
  /\ stage' = "failed"
  /\ UNCHANGED <<policy, given, tableVars, cursorVars>>

\* execveat(2).
Exec ==
  /\ Step("done", "program")
  /\ table' = [fd \in Fd |-> IF fd \in cloexec THEN Free ELSE table[fd]]
  /\ cloexec' = {}
  /\ pipe' = Free
  /\ UNCHANGED cursorVars

-----------------------------------------------------------------------------
Build ==
  \/ \E fd \in Key, action \in Action : SetAction(fd, action)
  \/ Clear
  \/ Reject
  \/ \E open, closing \in SUBSET Fd : \E p \in Fd : Clone(open, closing, p)

Apply ==
  \/ \E fd \in Fd : Map(fd) \/ Delay(fd) \/ Leave(fd) \/ MarkBefore(fd)
  \/ MarkRest \/ MovePipe \/ Remap \/ Fail \/ Exec

Next == Build \/ Apply

Spec == Init /\ [][Next]_vars

-----------------------------------------------------------------------------
\* What the policy means, without an order of application: the documentation
\* of Action and of FdPolicy.

\* The file at fd in the program.
Meaning(fd) ==
  CASE policy[fd] >= 0 -> policy[fd]
    [] policy[fd] = Ignore /\ fd \in given.open \ given.cloexec -> fd
    [] OTHER -> Free

\* The program finds at every descriptor what the policy says: each mapping as
\* if all were made at once, ignored descriptors as they were, and everything
\* else closed, the status pipe and wherever it was moved included.
ProgramSeesPolicy ==
  stage = "program" => \A fd \in Fd : table[fd] = Meaning(fd)

\* From the first system call on, and after an error of any of them, guest_pipe
\* is the status pipe and is close-on-exec: the error can be reported, and a
\* success is an end of file.
PipeUsable ==
  stage \in Applying \cup {"done", "failed"} =>
    pipe \in cloexec /\ table[pipe] = given.pipe

\* No mapping duplicates a descriptor that an earlier one has replaced.
SourcesIntact ==
  stage \in Applying \cup {"done", "failed"} => \A fd \in Sources : table[fd] = fd
=============================================================================

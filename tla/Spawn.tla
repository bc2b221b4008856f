------------------------------- MODULE Spawn -------------------------------
(***************************************************************************)
(* The spawn protocol of bubblebox on Linux: `clone_into` with its host    *)
(* half (`host_post_clone`) and its guest half (`guest_post_clone` and the *)
(* spawn action), the cgroups backend hooks, the status pipe, the          *)
(* autokill pidfd, and the `Guest` handle (`GuestInner`).                  *)
(*                                                                         *)
(* One element of Guests is one call of `Policy::spawn_with`, made by some *)
(* thread of the single host process, together with the guest process it   *)
(* clones.  Calls by one thread in sequence are the interleavings in which *)
(* one finishes before the next begins.  A clone copies the whole          *)
(* descriptor table of the host, so a guest also holds, until its          *)
(* execveat(2) closes the O_CLOEXEC ones, the pipe ends and pidfds that    *)
(* the other calls have open at that moment.                               *)
(***************************************************************************)
EXTENDS Naturals, Sequences

CONSTANTS
  Guests,        \* the calls of spawn_with and the guests they clone
  Host,          \* the host process, as a holder of descriptors
  Backend,       \* the cgroups backend: "Null", "OwnedFd" or "Systemd"
  SpawnActions,  \* what the guest callback may ask for
  MayFail        \* the calls that may fail where the code cannot recover

ASSUME SpawnAssumption ==
  /\ Host \notin Guests
  /\ Backend \in {"Null", "OwnedFd", "Systemd"}
  /\ SpawnActions \subseteq {"Exec", "Exit", "Supervisor"}
  /\ MayFail \subseteq {"io", "handle", "stop", "setup", "exec"}

VARIABLES
  hostAlive,   \* the host process is alive
  hpc,         \* hpc[g]: where the host thread is in the call or the handle
  gpc,         \* gpc[g]: where the guest process is
  fate,        \* fate[g]: where the guest failed, or that it "ran" its program
  pipe,        \* pipe[g]: the wire messages written and not yet read
  lost,        \* lost[g]: the reports, of "setup" or "exec", that were not written
  writers,     \* writers[g]: the processes with the pipe's write end open
  pidfds,      \* pidfds[g]: the processes with the guest's pidfd open
  signalled,   \* signalled[g]: the guest was sent SIGKILL by its handle
  released,    \* released[g]: the eventfd is written
  limited,     \* limited[g]: the guest is in its cgroup, limits applied
  unit,        \* unit[g]: the transient systemd scope of the guest
  state,       \* state[g]: the backend's state, PreClone or PostClone
  destructor,  \* destructor[g]: the handle's cgroups_destructor is Some
  faults       \* faults[g]: the calls of the host that failed with no recovery

hostVars == <<hpc, destructor, faults>>
guestVars == <<gpc, fate, lost>>
fdVars == <<writers, pidfds>>
cgroupVars == <<released, limited, unit, state>>
vars == <<hostAlive, hostVars, guestVars, pipe, fdVars, signalled, cgroupVars>>

-----------------------------------------------------------------------------
\* The stages of clone_into, in the order of the code.
Spawning ==
  {"piped", "cloned", "hook", "job", "started", "limited", "read1", "read2"}

\* The stages of a failing clone_into: the hook's unit guard runs, the pidfd
\* is dropped, the state's guard runs.
Failing == {"hookfail", "failing", "teardown"}

\* The stages of the handle: held; then in terminate_internal, waiting for
\* the guest or about to run the destructor.  The stages with a 2 are those
\* of `terminate`, whose drop of the handle runs terminate_internal again.
Handle == {"ok", "wait2", "destroy2", "wait", "destroy", "closed"}

\* "gone": the host died during the call, or holding the handle.
HostState == {"idle", "err", "gone"} \cup Spawning \cup Failing \cup Handle

\* The stages of the guest: guest_post_clone up to the end of the backend's
\* hook, and after it, the spawn action, and the program itself.
PreExec == {"hook", "mounts", "apply"}
Alive == PreExec \cup {"running", "exiting"}
GuestState == {"none", "dead"} \cup Alive

TypeOK ==
  /\ hostAlive \in BOOLEAN
  /\ hpc \in [Guests -> HostState]
  /\ gpc \in [Guests -> GuestState]
  /\ fate \in [Guests -> {"none", "setup_failed", "exec_failed", "ran"}]
  /\ pipe \in [Guests -> Seq({"ok", "err"})]
  /\ lost \in [Guests -> SUBSET {"setup", "exec"}]
  /\ writers \in [Guests -> SUBSET (Guests \cup {Host})]
  /\ pidfds \in [Guests -> SUBSET (Guests \cup {Host})]
  /\ signalled \in [Guests -> BOOLEAN]
  /\ released \in [Guests -> BOOLEAN]
  /\ limited \in [Guests -> BOOLEAN]
  /\ unit \in [Guests -> {"absent", "queued", "active"}]
  /\ state \in [Guests -> {"PreClone", "PostClone"}]
  /\ destructor \in [Guests -> BOOLEAN]
  /\ faults \in [Guests -> SUBSET {"io", "handle", "stop"}]

Init ==
  /\ hostAlive = TRUE
  /\ hpc = [g \in Guests |-> "idle"]
  /\ gpc = [g \in Guests |-> "none"]
  /\ fate = [g \in Guests |-> "none"]
  /\ pipe = [g \in Guests |-> <<>>]
  /\ lost = [g \in Guests |-> {}]
  /\ writers = [g \in Guests |-> {}]
  /\ pidfds = [g \in Guests |-> {}]
  /\ signalled = [g \in Guests |-> FALSE]
  /\ released = [g \in Guests |-> FALSE]
  /\ limited = [g \in Guests |-> FALSE]
  /\ unit = [g \in Guests |-> "absent"]
  /\ state = [g \in Guests |-> "PreClone"]
  /\ destructor = [g \in Guests |-> FALSE]
  /\ faults = [g \in Guests |-> {}]

-----------------------------------------------------------------------------
\* Descriptor tables.

\* A new process p gets a copy of every descriptor of the host.
Inherit(holders, p) ==
  [h \in Guests |-> IF Host \in holders[h] THEN holders[h] \cup {p} ELSE holders[h]]

\* Process p is gone, or has executed a program: its copies are closed.
CloseAll(holders, p) == [h \in Guests |-> holders[h] \ {p}]

\* The last pidfd of the guest is closed (CLONE_PIDFD_AUTOKILL), or its
\* handle has sent SIGKILL.  The kill is asynchronous: see GuestKilled.
Killed(g) == pidfds[g] = {} \/ signalled[g]

-----------------------------------------------------------------------------
\* The host thread: clone_into up to the clone.

\* A call of the host fails, and the code goes on as it can: "io" is the pipe
\* or the eventfd in clone_into, "handle" the signal or the wait of the handle,
\* "stop" a StopUnit.  The guest's are its reports of "setup" and "exec".
Fault(g, call) == call \in MayFail /\ faults' = [faults EXCEPT ![g] = @ \cup {call}]

\* One step of the host thread of g, from stage `from` to stage `to`.
Goto(g, from, to) ==
  /\ hostAlive
  /\ hpc[g] = from
  /\ hpc' = [hpc EXCEPT ![g] = to]

\* geteuid(2) to pipe2(2).  The descriptors are O_CLOEXEC.
OpenPipe(g) ==
  /\ Goto(g, "idle", "piped")
  /\ writers' = [writers EXCEPT ![g] = {Host}]
  /\ UNCHANGED <<hostAlive, guestVars, pipe, pidfds, signalled, cgroupVars, destructor,
                 faults>>

\* An error up to and including clone3(2): the pipe, if any, is dropped, and
\* the scope guard tears the backend's state down.
PreSpawnFails(g) ==
  /\ \/ Goto(g, "idle", "teardown")
     \/ Goto(g, "piped", "teardown")
  /\ writers' = [writers EXCEPT ![g] = {}]
  /\ UNCHANGED <<hostAlive, guestVars, pipe, pidfds, signalled, cgroupVars, destructor,
                 faults>>

\* Mutant: the child gets the pidfd too, as if it were made before the copy.
CloneShared(g) ==
  /\ Goto(g, "piped", "cloned")
  /\ gpc' = [gpc EXCEPT ![g] = "hook"]
  /\ writers' = Inherit(writers, g)
  /\ pidfds' = [Inherit(pidfds, g) EXCEPT ![g] = {Host, g}]
  /\ UNCHANGED <<hostAlive, fate, lost, pipe, signalled, cgroupVars, destructor, faults>>

\* The pidfd is installed in the host's table alone, after the copy.
Clone(g) ==
  /\ Goto(g, "piped", "cloned")
  /\ gpc' = [gpc EXCEPT ![g] = "hook"]
  /\ writers' = Inherit(writers, g)
  /\ pidfds' = [Inherit(pidfds, g) EXCEPT ![g] = {Host}]
  /\ UNCHANGED <<hostAlive, fate, lost, pipe, signalled, cgroupVars, destructor, faults>>

ClosePipe(g) ==
  /\ Goto(g, "cloned", "hook")
  /\ writers' = [writers EXCEPT ![g] = @ \ {Host}]
  /\ UNCHANGED <<hostAlive, guestVars, pipe, pidfds, signalled, cgroupVars, destructor,
                 faults>>

-----------------------------------------------------------------------------
\* The host thread: host_post_clone_hook of the backend.

\* The null and owned-descriptor backends have no host hook.
NoHook(g) ==
  /\ Backend # "Systemd"
  /\ Goto(g, "hook", "read1")
  /\ UNCHANGED <<hostAlive, guestVars, pipe, fdVars, signalled, cgroupVars, destructor,
                 faults>>

\* The bus cannot be reached, or the match rule cannot be added: no guard on
\* the unit yet.
ConnectFails(g) ==
  /\ Backend = "Systemd"
  /\ Goto(g, "hook", "failing")
  /\ UNCHANGED <<hostAlive, guestVars, pipe, fdVars, signalled, cgroupVars, destructor,
                 faults>>

\* StartTransientUnit, under the guard on the unit: an error may be a reply
\* that came too late, and the start job queued all the same.
StartUnit(g) ==
  /\ Backend = "Systemd"
  /\ \/ Goto(g, "hook", "job") /\ unit' = [unit EXCEPT ![g] = "queued"]
     \/ /\ Goto(g, "hook", "hookfail")
        /\ \E u \in {"absent", "queued"} : unit' = [unit EXCEPT ![g] = u]
  /\ UNCHANGED <<hostAlive, guestVars, pipe, fdVars, signalled, released, limited, state,
                 destructor, faults>>

\* The wait for JobRemoved: done; or failed, or done for a unit that is gone
\* when GetUnit asks for it, or the deadline, which may pass with the job still
\* queued.
AwaitJob(g) ==
  /\ \/ unit[g] = "active" /\ Goto(g, "job", "started")
     \/ Goto(g, "job", "hookfail")
  /\ UNCHANGED <<hostAlive, guestVars, pipe, fdVars, signalled, cgroupVars, destructor,
                 faults>>

\* The cgroup tree, the move of the guest into it (ESRCH once the
\* guest is dead), the controllers and the policy's limits.
PopulateCgroup(g) ==
  /\ \/ /\ gpc[g] # "dead"
        /\ Goto(g, "started", "limited")
        /\ limited' = [limited EXCEPT ![g] = TRUE]
     \/ Goto(g, "started", "hookfail") /\ UNCHANGED limited
  /\ UNCHANGED <<hostAlive, guestVars, pipe, fdVars, signalled, released, unit, state,
                 destructor, faults>>

\* Mutant: the eventfd is written before the limits are.
ReleaseEarly(g) ==
  /\ Goto(g, "started", "read1")
  /\ released' = [released EXCEPT ![g] = TRUE]
  /\ state' = [state EXCEPT ![g] = "PostClone"]
  /\ UNCHANGED <<hostAlive, guestVars, pipe, fdVars, signalled, limited, unit,
                 destructor, faults>>

\* The eventfd is written, which lets the guest go, and the state becomes
\* PostClone, with which the guard on the unit is disarmed.  An error of the
\* write comes before both; a count that check_if_incomplete refuses comes
\* between them.
Release(g) ==
  /\ \/ /\ Goto(g, "limited", "read1")
        /\ released' = [released EXCEPT ![g] = TRUE]
        /\ state' = [state EXCEPT ![g] = "PostClone"]
        /\ UNCHANGED faults
     \/ /\ Goto(g, "limited", "hookfail")
        /\ UNCHANGED <<released, state, faults>>
     \/ /\ Goto(g, "limited", "hookfail")
        /\ released' = [released EXCEPT ![g] = TRUE]
        /\ Fault(g, "io")
        /\ UNCHANGED state
  /\ UNCHANGED <<hostAlive, guestVars, pipe, fdVars, signalled, limited, unit,
                 destructor>>

\* StopUnit with mode "fail": a unit that does not exist is no error, a start
\* job that is queued is not replaced, and any other error leaves the unit too.
StopUnit(g) ==
  \/ /\ unit[g] # "queued"
     /\ unit' = [unit EXCEPT ![g] = "absent"]
     /\ UNCHANGED faults
  \/ /\ unit[g] = "queued" \/ "stop" \in MayFail
     /\ faults' = [faults EXCEPT ![g] = @ \cup {"stop"}]
     /\ UNCHANGED unit

\* Mutant: the guard is disarmed as soon as the unit is started.
GuardDisarmed(g) ==
  /\ Goto(g, "hookfail", "failing")
  /\ UNCHANGED <<hostAlive, guestVars, pipe, fdVars, signalled, cgroupVars, destructor,
                 faults>>

\* The guard on the unit: its own errors are dropped.
GuardStopsUnit(g) ==
  /\ Goto(g, "hookfail", "failing")
  /\ StopUnit(g)
  /\ UNCHANGED <<hostAlive, guestVars, pipe, fdVars, signalled, released, limited,
                 state, destructor>>

-----------------------------------------------------------------------------
\* The host thread: the rest of host_post_clone.

\* The setup message.  End of file, once no process has the write end open,
\* is a PartialTransfer error, and so is an error on the wire.
ReadSetup(g) ==
  /\ \/ /\ pipe[g] # <<>> /\ Head(pipe[g]) = "ok"
        /\ Goto(g, "read1", "read2")
        /\ pipe' = [pipe EXCEPT ![g] = Tail(@)]
     \/ /\ pipe[g] # <<>> /\ Head(pipe[g]) = "err"
        /\ Goto(g, "read1", "failing")
        /\ pipe' = [pipe EXCEPT ![g] = Tail(@)]
     \/ /\ pipe[g] = <<>> /\ writers[g] = {}
        /\ Goto(g, "read1", "failing")
        /\ UNCHANGED pipe
  /\ UNCHANGED <<hostAlive, guestVars, fdVars, signalled, cgroupVars, destructor, faults>>

\* Mutant: the pipe is read without waiting for its end of file.
ReadExecEarly(g) ==
  /\ \/ pipe[g] # <<>> /\ Head(pipe[g]) = "err" /\ Goto(g, "read2", "failing")
        /\ UNCHANGED destructor
     \/ pipe[g] = <<>> /\ Goto(g, "read2", "ok")
        /\ destructor' = [destructor EXCEPT ![g] = TRUE]
  /\ pipe' = [pipe EXCEPT ![g] = IF @ = <<>> THEN @ ELSE Tail(@)]
  /\ UNCHANGED <<hostAlive, guestVars, fdVars, signalled, cgroupVars, faults>>

\* The exec message.  End of file is success here: no message can announce
\* that execveat(2) or exit(2) happened.
ReadExec(g) ==
  /\ \/ /\ pipe[g] # <<>> /\ Head(pipe[g]) = "err"
        /\ Goto(g, "read2", "failing")
        /\ UNCHANGED destructor
     \/ /\ \/ pipe[g] # <<>> /\ Head(pipe[g]) = "ok"
           \/ pipe[g] = <<>> /\ writers[g] = {}
        /\ Goto(g, "read2", "ok")
        /\ destructor' = [destructor EXCEPT ![g] = TRUE]
  /\ pipe' = [pipe EXCEPT ![g] = IF @ = <<>> THEN @ ELSE Tail(@)]
  /\ UNCHANGED <<hostAlive, guestVars, fdVars, signalled, cgroupVars, faults>>

\* close(2) of the guest's pipe end, or a read(2) of the pipe, fails.
HostIoFails(g) ==
  /\ \E stage \in {"cloned", "read1", "read2"} : Goto(g, stage, "failing")
  /\ Fault(g, "io")
  /\ writers' = [writers EXCEPT ![g] = @ \ {Host}]
  /\ UNCHANGED <<hostAlive, guestVars, pipe, pidfds, signalled, cgroupVars, destructor>>

\* Mutant: the pidfd is leaked on the way out.
DropPidfdForgotten(g) ==
  /\ Goto(g, "failing", "teardown")
  /\ UNCHANGED <<hostAlive, guestVars, pipe, fdVars, signalled, cgroupVars, destructor,
                 faults>>

\* The error leaves the block that owns the pidfd ...
DropPidfd(g) ==
  /\ Goto(g, "failing", "teardown")
  /\ pidfds' = [pidfds EXCEPT ![g] = @ \ {Host}]
  /\ UNCHANGED <<hostAlive, guestVars, pipe, writers, signalled, cgroupVars, destructor,
                 faults>>

\* Backend::teardown, which stops the unit only in the PostClone state.
Teardown(g) ==
  IF state[g] = "PostClone" THEN StopUnit(g) ELSE UNCHANGED <<unit, faults>>

\* ... and then clone_into, whose scope guard tears the state down.
GuardTearsDown(g) ==
  /\ Goto(g, "teardown", "err")
  /\ Teardown(g)
  /\ UNCHANGED <<hostAlive, guestVars, pipe, fdVars, signalled, released, limited,
                 state, destructor>>

-----------------------------------------------------------------------------
\* The Guest handle.

\* `terminate` and the drop of the handle both begin terminate_internal:
\* SIGKILL through the pidfd, where ESRCH (the guest is reaped) is no error.
\* Any other error skips the wait.
Signal(g, from, wait, destroy) ==
  /\ \/ /\ Goto(g, from, wait)
        /\ signalled' = [signalled EXCEPT ![g] = TRUE]
        /\ UNCHANGED faults
     \/ /\ Goto(g, from, destroy)
        /\ Fault(g, "handle")
        /\ UNCHANGED signalled
  /\ UNCHANGED <<hostAlive, guestVars, pipe, fdVars, cgroupVars, destructor>>

Terminate(g) == Signal(g, "ok", "wait2", "destroy2")

DropHandle(g) == Signal(g, "ok", "wait", "destroy")

\* Mutant: the guest is signalled but not waited for.
WaitSkipped(g) ==
  /\ \/ Goto(g, "wait2", "destroy2")
     \/ Goto(g, "wait", "destroy")
  /\ UNCHANGED <<hostAlive, guestVars, pipe, fdVars, signalled, cgroupVars, destructor,
                 faults>>

\* wait_internal: until the guest is reaped, or an error, which does not keep
\* the destructor from running.
Wait(g) ==
  /\ \/ Goto(g, "wait2", "destroy2")
     \/ Goto(g, "wait", "destroy")
  /\ \/ gpc[g] = "dead" /\ UNCHANGED faults
     \/ Fault(g, "handle")
  /\ UNCHANGED <<hostAlive, guestVars, pipe, fdVars, signalled, cgroupVars, destructor>>

\* The destructor is taken, so that only the first run calls it.
RunDestructor(g) ==
  /\ destructor' = [destructor EXCEPT ![g] = FALSE]
  /\ IF destructor[g] THEN Teardown(g) ELSE UNCHANGED <<unit, faults>>

\* `terminate` returns, and its handle is dropped: the second run signals.
EndTerminate(g) ==
  /\ Goto(g, "destroy2", "wait")
  /\ RunDestructor(g)
  /\ signalled' = [signalled EXCEPT ![g] = TRUE]
  /\ UNCHANGED <<hostAlive, guestVars, pipe, fdVars, released, limited, state>>

\* The fields of the handle are dropped, the pidfd among them.
EndDrop(g) ==
  /\ Goto(g, "destroy", "closed")
  /\ RunDestructor(g)
  /\ pidfds' = [pidfds EXCEPT ![g] = @ \ {Host}]
  /\ UNCHANGED <<hostAlive, guestVars, pipe, writers, signalled, released, limited, state>>

\* The host process dies, at any moment, with its threads and handles: its
\* descriptors are closed.
HostDies ==
  /\ hostAlive
  /\ hostAlive' = FALSE
  /\ hpc' = [g \in Guests |->
               IF hpc[g] \in {"idle", "err", "closed"} THEN hpc[g] ELSE "gone"]
  /\ destructor' = [g \in Guests |-> FALSE]
  /\ writers' = CloseAll(writers, Host)
  /\ pidfds' = CloseAll(pidfds, Host)
  /\ UNCHANGED <<guestVars, pipe, signalled, cgroupVars, faults>>

-----------------------------------------------------------------------------
\* The guest.

GuestGoto(g, from, to) ==
  /\ gpc[g] = from
  /\ gpc' = [gpc EXCEPT ![g] = to]

\* write_all of the guest's report of a step.  The guest goes on without it
\* when the write fails ("if this errors we can't really do anything").
Report(g, step, message) ==
  \/ pipe' = [pipe EXCEPT ![g] = Append(@, message)] /\ UNCHANGED lost
  \/ /\ step \in MayFail
     /\ lost' = [lost EXCEPT ![g] = @ \cup {step}]
     /\ UNCHANGED pipe

\* Mutant: the guest does not wait for the eventfd.
LeaveHookEarly(g) ==
  /\ GuestGoto(g, "hook", "mounts")
  /\ UNCHANGED <<hostAlive, hostVars, fate, lost, pipe, fdVars, signalled, cgroupVars>>

\* guest_post_clone_hook: the systemd backend reads the eventfd.
LeaveHook(g) ==
  /\ Backend = "Systemd" => released[g]
  /\ GuestGoto(g, "hook", "mounts")
  /\ UNCHANGED <<hostAlive, hostVars, fate, lost, pipe, fdVars, signalled, cgroupVars>>

\* The rest of guest_post_clone: namespaces, id maps, mounts, capabilities,
\* the callback; and then the success message.
SetupDone(g) ==
  /\ GuestGoto(g, "mounts", "apply")
  /\ Report(g, "setup", "ok")
  /\ UNCHANGED <<hostAlive, hostVars, fate, fdVars, signalled, cgroupVars>>

\* Where the guest may fail: anywhere in guest_post_clone, and in the exec
\* action.
FailingStep(g) ==
  CASE gpc[g] \in {"hook", "mounts"} -> "setup"
    [] gpc[g] = "apply" /\ "Exec" \in SpawnActions -> "exec"
    [] OTHER -> "none"

FailsWith(g, step) ==
  /\ FailingStep(g) = step
  /\ gpc' = [gpc EXCEPT ![g] = "exiting"]
  /\ fate' = [fate EXCEPT ![g] = IF step = "setup" THEN "setup_failed" ELSE "exec_failed"]
  /\ UNCHANGED <<hostAlive, hostVars, fdVars, signalled, cgroupVars>>

\* Mutant: an error of the exec action is not written.
FailsSilently(g) ==
  \/ FailsWith(g, "setup") /\ Report(g, "setup", "err")
  \/ FailsWith(g, "exec") /\ UNCHANGED <<pipe, lost>>

\* Mutant: the error is written in a form the host has no case for.
FailsUnknown(g) ==
  \E step \in {"setup", "exec"} : FailsWith(g, step) /\ Report(g, step, "unknown")

\* An error of guest_post_clone, or of the exec action, is written to the
\* pipe, if it can be, before exit(2).
Fails(g) ==
  \E step \in {"setup", "exec"} : FailsWith(g, step) /\ Report(g, step, "err")

\* Mutant: the descriptors are opened without O_CLOEXEC.
ExecKeeping(g) ==
  /\ "Exec" \in SpawnActions
  /\ GuestGoto(g, "apply", "running")
  /\ fate' = [fate EXCEPT ![g] = "ran"]
  /\ UNCHANGED <<hostAlive, hostVars, pipe, lost, fdVars, signalled, cgroupVars>>

\* The exec action ends in execveat(2), which closes what is O_CLOEXEC.
Exec(g) ==
  /\ "Exec" \in SpawnActions
  /\ GuestGoto(g, "apply", "running")
  /\ fate' = [fate EXCEPT ![g] = "ran"]
  /\ writers' = CloseAll(writers, g)
  /\ pidfds' = CloseAll(pidfds, g)
  /\ UNCHANGED <<hostAlive, hostVars, pipe, lost, signalled, cgroupVars>>

\* The exit and supervisor actions end the guest at once.
ExitAction(g) ==
  /\ SpawnActions \cap {"Exit", "Supervisor"} # {}
  /\ GuestGoto(g, "apply", "exiting")
  /\ UNCHANGED <<hostAlive, hostVars, fate, lost, pipe, fdVars, signalled, cgroupVars>>

Dies(g) ==
  /\ gpc' = [gpc EXCEPT ![g] = "dead"]
  /\ writers' = CloseAll(writers, g)
  /\ pidfds' = CloseAll(pidfds, g)
  /\ UNCHANGED <<hostAlive, hostVars, fate, lost, pipe, signalled, cgroupVars>>

Exits(g) == gpc[g] = "exiting" /\ Dies(g)

\* The kill of Killed arrives.
GuestKilled(g) == gpc[g] \in Alive /\ Killed(g) /\ Dies(g)

\* The program ends, or something outside bubblebox kills the guest.
Crashes(g) == gpc[g] \in Alive /\ Dies(g)

\* The service manager runs the start job, however late, or fails it.
JobRuns(g) ==
  /\ unit[g] = "queued"
  /\ \E u \in {"active", "absent"} : unit' = [unit EXCEPT ![g] = u]
  /\ UNCHANGED <<hostAlive, hostVars, guestVars, pipe, fdVars, signalled, released,
                 limited, state>>

\* The service manager collects a scope without a process (CollectMode).
UnitCollected(g) ==
  /\ unit[g] = "active" /\ gpc[g] = "dead"
  /\ unit' = [unit EXCEPT ![g] = "absent"]
  /\ UNCHANGED <<hostAlive, hostVars, guestVars, pipe, fdVars, signalled, released,
                 limited, state>>

-----------------------------------------------------------------------------
HostStep(g) ==
  \/ Clone(g) \/ ClosePipe(g)
  \/ NoHook(g) \/ ConnectFails(g) \/ StartUnit(g) \/ AwaitJob(g)
  \/ PopulateCgroup(g) \/ Release(g) \/ GuardStopsUnit(g)
  \/ ReadSetup(g) \/ ReadExec(g) \/ HostIoFails(g)
  \/ DropPidfd(g) \/ GuardTearsDown(g)
  \/ Wait(g) \/ EndTerminate(g) \/ EndDrop(g)

GuestStep(g) ==
  \/ LeaveHook(g) \/ SetupDone(g) \/ Fails(g)
  \/ Exec(g) \/ ExitAction(g) \/ Exits(g) \/ GuestKilled(g)

SystemdStep(g) == JobRuns(g) \/ UnitCollected(g)

Next ==
  \/ HostDies
  \/ \E g \in Guests :
       \/ OpenPipe(g) \/ PreSpawnFails(g) \/ Terminate(g) \/ DropHandle(g)
       \/ HostStep(g) \/ GuestStep(g) \/ SystemdStep(g) \/ Crashes(g)

\* A host thread that is in a system call which waits: for a message or the
\* end of the pipe, or for the death of the guest.
HostBlocked(g) ==
  \/ hpc[g] \in {"read1", "read2"} /\ pipe[g] = <<>> /\ writers[g] # {}
  \/ hpc[g] \in {"wait", "wait2"} /\ gpc[g] # "dead"

\* A guest that waits, or soon will, for its eventfd, and has not been sent SIGKILL.
GuestBlocked(g) ==
  gpc[g] = "hook" /\ Backend = "Systemd" /\ ~released[g] /\ ~Killed(g)

\* The scheduler runs every thread and process that can run; systemd runs its
\* jobs and collects what is empty.  A system call that waits does not owe an
\* error, and nobody owes a call of spawn_with, a drop of a handle, the end of
\* a program or a death of the host.
Fairness ==
  \A g \in Guests :
    /\ WF_vars(~HostBlocked(g) /\ HostStep(g))
    /\ WF_vars(~GuestBlocked(g) /\ GuestStep(g))
    /\ WF_vars(SystemdStep(g))

Safety == Init /\ [][Next]_vars

Spec == Safety /\ Fairness

-----------------------------------------------------------------------------
\* Properties.

\* When clone_into returns a handle, the guest has executed its program or is
\* dead: the end of file that stands for success cannot come while the guest
\* is still setting up, whatever copies of the pipe other guests hold.
OkMeansSettled ==
  \A g \in Guests : hpc[g] \in Handle => gpc[g] \in {"running", "dead"}

\* A handle is given out only for a guest whose report of a finished setup
\* arrived.  A guest that failed is handed out as a success in one case: its
\* exec action failed and the report of that could not be written, which to
\* the host is what an execveat(2) looks like.
FailureReported ==
  \A g \in Guests : hpc[g] \in Handle =>
    /\ fate[g] # "setup_failed" /\ "setup" \notin lost[g]
    /\ fate[g] = "exec_failed" => "exec" \in lost[g]

\* When clone_into returns an error that is not its own I/O failing, the
\* program ran only if the guest's report of a finished setup was lost, and if
\* it has not run then the guest can no longer reach it.
ErrorMeansNeverRan ==
  \A g \in Guests :
    hpc[g] \in Failing \cup {"err"} /\ "io" \notin faults[g] =>
      /\ fate[g] = "ran" => "setup" \in lost[g]
      /\ gpc[g] \in PreExec =>
           gpc[g] = "hook" /\ Backend = "Systemd" /\ ~released[g]

\* The guest goes past the backend's hook only inside its cgroup and under the
\* policy's limits: neither mounts nor program run unlimited.
LimitsBeforeProgram ==
  \A g \in Guests :
    Backend = "Systemd" /\ gpc[g] \in {"mounts", "apply", "running"} => limited[g]

\* A running program holds no descriptor of the spawn machinery, its own or
\* another call's: none would delay an end of file or an autokill for as long
\* as the program runs.
ProgramHoldsNothing ==
  \A g \in Guests : gpc[g] = "running" =>
    \A h \in Guests : g \notin writers[h] \cup pidfds[h]

\* Guests may keep each other's pidfds open, and so put an autokill off, but
\* never in a circle: of any guests, one is held by none of the others.
NoAutokillCycle ==
  \A S \in (SUBSET Guests) \ {{}} : \E g \in S : pidfds[g] \cap S = {}

\* A handle runs the cgroups destructor only after the guest is dead (the
\* note in terminate_internal), unless the signal or the wait failed.
DestructorAfterDeath ==
  [][\A g \in Guests :
       destructor[g] /\ ~destructor'[g] /\ hostAlive' /\ "handle" \notin faults[g]
         => gpc[g] = "dead"]_vars

\* No unit is left behind an error or a closed handle, active or about to be,
\* unless stopping it was refused, as it is while the start job is queued.
NoUnitLeft ==
  \A g \in Guests :
    hpc[g] \in {"err", "closed"} /\ "stop" \notin faults[g] => unit[g] = "absent"

\* Every call comes to an end that leaves nothing behind, or to a handle that
\* the caller holds.  clone_into returns, though its reads of the pipe wait for
\* every guest that inherited a copy; so do terminate and the drop of a handle,
\* though they wait for the guest's death; and after an error, a closed handle
\* or the death of the host the guest dies, although the autokill waits for the
\* copies of its pidfd, and its unit goes, although a StopUnit may have been
\* refused, or the unit may come up after the host has given up on its job.
CallsSettle ==
  \A g \in Guests :
    hpc[g] \notin {"idle", "ok"}
      ~> \/ hpc[g] = "ok"
         \/ hpc[g] \in {"err", "closed", "gone"} /\ gpc[g] \in {"none", "dead"}
               /\ unit[g] = "absent"

-----------------------------------------------------------------------------
\* Implementation of the abstract specification.

\* An error after which the program may have run, or run yet, is "lost" to the
\* caller, and so is a handle that was closed without a kill or a wait.
Misled(g) ==
  \/ hpc[g] = "err" /\ ("io" \in faults[g] \/ fate[g] = "ran")
  \/ hpc[g] = "closed" /\ "handle" \in faults[g]

callOf ==
  [g \in Guests |->
     CASE hpc[g] \in {"idle", "ok", "gone"} -> hpc[g]
       [] hpc[g] \in Spawning \cup Failing -> "starting"
       [] hpc[g] \in Handle \ {"ok", "closed"} -> "ok"
       [] hpc[g] \in {"err", "closed"} /\ ~Misled(g) -> hpc[g]
       [] OTHER -> "lost"]

progOf ==
  [g \in Guests |->
     CASE fate[g] = "none" -> IF gpc[g] = "dead" THEN "gone" ELSE "none"
       [] fate[g] = "ran" -> IF gpc[g] = "dead" THEN "ended" ELSE "running"
       [] OTHER -> "failed"]

troubleOf ==
  [g \in Guests |-> faults[g] \cap {"io", "handle"} # {} \/ lost[g] # {}]

Box == INSTANCE Sandbox
  WITH host <- hostAlive, call <- callOf, prog <- progOf, trouble <- troubleOf

\* Every behaviour of the protocol is one the caller was promised.
ImplementsSandbox == Box!Spec
=============================================================================

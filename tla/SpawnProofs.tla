---------------------------- MODULE SpawnProofs ----------------------------
(***************************************************************************)
(* Proofs about Spawn, for every set of guests, every backend and whatever *)
(* calls may fail: its invariants, and that it implements Sandbox.         *)
(***************************************************************************)
EXTENDS Spawn, SequenceTheorems, TLAPS

\* The stages in which the host has read nothing from the pipe.
Unread == {"idle", "piped", "cloned", "hook", "job", "started", "limited", "read1"}

\* A guest that is not cloned yet has left no trace.
Fresh(g) ==
  /\ hpc[g] \in {"idle", "piped"} => gpc[g] = "none"
  /\ hpc[g] \in (Unread \ {"idle", "piped"}) \cup {"read2", "hookfail", "failing"} \cup Handle
       => gpc[g] # "none"
  /\ gpc[g] = "none" =>
       fate[g] = "none" /\ pipe[g] = <<>> /\ ~released[g] /\ unit[g] = "absent"
  /\ gpc[g] \in {"none", "running", "dead"} =>
       \A h \in Guests : g \notin writers[h] /\ g \notin pidfds[h]

\* The host opens the pipe before the clone, and a guest keeps its own end of
\* it until it executes or dies.
KeepsPipe(g) ==
  /\ hpc[g] = "piped" => Host \in writers[g]
  /\ gpc[g] \in PreExec \cup {"exiting"} => g \in writers[g]

\* What the guest's history says of its stage, and of the reports it lost.
History(g) ==
  /\ gpc[g] \in PreExec => fate[g] = "none" /\ "exec" \notin lost[g]
  /\ gpc[g] \in {"none", "hook", "mounts"} => lost[g] = {}
  /\ gpc[g] = "running" => fate[g] = "ran"
  /\ fate[g] \in {"setup_failed", "exec_failed"} => gpc[g] \in {"exiting", "dead"}
  /\ fate[g] = "ran" => gpc[g] \in {"running", "dead"}

\* What is in the pipe is what the guest has reported, less what was lost and
\* what the host has read.
InPipe(g) ==
  /\ hpc[g] \in Unread =>
       /\ gpc[g] \in {"hook", "mounts"} => pipe[g] = <<>>
       /\ (gpc[g] \in {"apply", "running"} \/ fate[g] = "ran") /\ "setup" \notin lost[g]
            => pipe[g] = <<"ok">>
       /\ fate[g] = "setup_failed" => pipe[g] \in {<<>>, <<"err">>}
       /\ fate[g] = "exec_failed" =>
            pipe[g] \in IF "exec" \in lost[g]
                          THEN {<<>>, <<"ok">>} ELSE {<<"err">>, <<"ok", "err">>}
       /\ fate[g] \in {"none", "ran"} => pipe[g] \in {<<>>, <<"ok">>}
       /\ "setup" \in lost[g] => pipe[g] \in {<<>>, <<"err">>}
  /\ hpc[g] = "read2" =>
       /\ gpc[g] \notin {"hook", "mounts"}
       /\ fate[g] # "setup_failed" /\ "setup" \notin lost[g]
       /\ pipe[g] = IF fate[g] = "exec_failed" /\ "exec" \notin lost[g]
                      THEN <<"err">> ELSE <<>>
  /\ hpc[g] \in Handle =>
       /\ gpc[g] \in {"running", "dead"}
       /\ fate[g] # "setup_failed" /\ "setup" \notin lost[g]
       /\ fate[g] = "exec_failed" => "exec" \in lost[g]

\* The eventfd orders the guest after the host's hook.
Ordered(g) ==
  /\ released[g] => limited[g] /\ Backend = "Systemd"
  /\ hpc[g] = "limited" => limited[g]
  /\ hpc[g] \in Unread \ {"read1"} => ~released[g]
  /\ hpc[g] = "hookfail" /\ "io" \notin faults[g] => ~released[g]
  /\ hpc[g] \in {"job", "started", "limited", "hookfail"} => Backend = "Systemd"
  /\ Backend = "Systemd" /\ (gpc[g] \in {"mounts", "apply", "running"} \/ fate[g] = "ran")
       => released[g]

\* An error of clone_into leaves the guest stuck before its release, failed or
\* dead, or a guest whose report of its setup was lost.
Refused(g) ==
  hpc[g] \in Failing \cup {"err"} /\ "io" \notin faults[g] =>
    /\ fate[g] = "ran" => "setup" \in lost[g]
    /\ gpc[g] \in PreExec =>
         gpc[g] = "hook" /\ Backend = "Systemd" /\ ~released[g]

\* Whoever has still to stop a unit is armed to.
UnitOwned(g) ==
  unit[g] # "absent" /\ "stop" \notin faults[g] =>
    \/ hpc[g] \in {"job", "started", "limited", "hookfail", "gone"}
    \/ state[g] = "PostClone" /\ hpc[g] \in {"read1", "read2", "failing", "teardown"}
    \/ state[g] = "PostClone" /\ hpc[g] \in Handle /\ destructor[g]

\* The destructor is there to take only while the handle is.
Destructible(g) ==
  /\ destructor[g] => hpc[g] \in Handle \ {"closed"}
  /\ hpc[g] \in {"destroy2", "destroy"} /\ "handle" \notin faults[g] => gpc[g] = "dead"

Sound(g) ==
  /\ Fresh(g)
  /\ KeepsPipe(g)
  /\ History(g)
  /\ InPipe(g)
  /\ Ordered(g)
  /\ Refused(g)
  /\ UnitOwned(g)
  /\ Destructible(g)

IInv == TypeOK /\ \A g \in Guests : Sound(g)

-----------------------------------------------------------------------------
\* The sequences a pipe holds, written out for the provers.

LEMMA PairsEqual ==
  \A s, t \in Seq({"ok", "err"}) :
    Len(s) = 2 /\ Len(t) = 2 /\ s[1] = t[1] /\ s[2] = t[2] => s = t
<1> SUFFICES ASSUME NEW s \in Seq({"ok", "err"}), NEW t \in Seq({"ok", "err"}),
                    Len(s) = 2, Len(t) = 2, s[1] = t[1], s[2] = t[2]
             PROVE  s = t
  OBVIOUS
<1>1. \A i \in 1 .. Len(s) : s[i] = t[i]
  OBVIOUS
<1>2. Len(s) = Len(t)
  OBVIOUS
<1> QED
  BY <1>1, <1>2, SeqEqual

LEMMA OkThenErr == Append(<<"ok">>, "err") = <<"ok", "err">>
<1> DEFINE s == Append(<<"ok">>, "err")
           t == <<"ok", "err">>
<1>1. s \in Seq({"ok", "err"}) /\ t \in Seq({"ok", "err"})
  OBVIOUS
<1>2. Len(s) = 2 /\ Len(t) = 2
  OBVIOUS
<1>3. s[1] = "ok" /\ s[2] = "err" /\ t[1] = "ok" /\ t[2] = "err"
  OBVIOUS
<1> HIDE DEF s, t
<1>4. s = t
  BY <1>1, <1>2, <1>3, PairsEqual
<1> QED
  BY <1>4 DEF s, t

LEMMA PipeFacts ==
  /\ Head(<<"ok">>) = "ok" /\ Tail(<<"ok">>) = <<>>
  /\ Head(<<"err">>) = "err" /\ Tail(<<"err">>) = <<>>
  /\ Head(<<"ok", "err">>) = "ok" /\ Tail(<<"ok", "err">>) = <<"err">>
  /\ Append(<<>>, "ok") = <<"ok">>
  /\ Append(<<>>, "err") = <<"err">>
  /\ Append(<<"ok">>, "err") = <<"ok", "err">>
  /\ <<"ok">> # <<"err">>
  /\ <<"ok", "err">> # <<"ok">>
  /\ <<"ok", "err">> # <<"err">>
  /\ <<"ok">> # <<>>
  /\ <<"err">> # <<>>
  /\ <<"ok", "err">> # <<>>
<1>1. Head(<<"ok", "err">>) = "ok" /\ Tail(<<"ok", "err">>) = <<"err">>
  OBVIOUS
<1>2. Head(<<"ok">>) = "ok" /\ Tail(<<"ok">>) = <<>>
  OBVIOUS
<1>3. Head(<<"err">>) = "err" /\ Tail(<<"err">>) = <<>>
  OBVIOUS
<1>4. Append(<<>>, "ok") = <<"ok">> /\ Append(<<>>, "err") = <<"err">>
  OBVIOUS
<1>5. <<"ok">> # <<"err">> /\ <<"ok", "err">> # <<"ok">> /\ <<"ok", "err">> # <<"err">>
  OBVIOUS
<1>6. <<"ok">> # <<>> /\ <<"err">> # <<>> /\ <<"ok", "err">> # <<>>
  OBVIOUS
<1> QED
  BY <1>1, <1>2, <1>3, <1>4, <1>5, <1>6, OkThenErr

LEMMA TailType ==
  \A s \in Seq({"ok", "err"}) : s # <<>> => Tail(s) \in Seq({"ok", "err"})
  OBVIOUS

-----------------------------------------------------------------------------
\* The type invariant.

LEMMA TypeInit == Init => TypeOK
  BY DEF Init, TypeOK, HostState, GuestState

\* What a failing guest does, by the step that fails.
LEMMA FailingGuest ==
  ASSUME NEW a \in Guests, Fails(a)
  PROVE  /\ gpc' = [gpc EXCEPT ![a] = "exiting"]
         /\ \/ /\ gpc[a] \in {"hook", "mounts"} /\ Report(a, "setup", "err")
               /\ fate' = [fate EXCEPT ![a] = "setup_failed"]
            \/ /\ gpc[a] = "apply" /\ Report(a, "exec", "err")
               /\ fate' = [fate EXCEPT ![a] = "exec_failed"]
         /\ \E f \in {"setup_failed", "exec_failed"} : fate' = [fate EXCEPT ![a] = f]
         /\ \E step \in {"setup", "exec"} : Report(a, step, "err")
         /\ UNCHANGED <<hostAlive, hostVars, fdVars, signalled, cgroupVars>>
<1>1. PICK step \in {"setup", "exec"} : FailsWith(a, step) /\ Report(a, step, "err")
  BY DEF Fails
<1>2. CASE step = "setup"
  <2>1. gpc[a] \in {"hook", "mounts"}
    BY <1>1, <1>2 DEF FailsWith, FailingStep
  <2> QED
    BY <1>1, <1>2, <2>1 DEF FailsWith
<1>3. CASE step = "exec"
  <2>1. gpc[a] = "apply"
    BY <1>1, <1>3 DEF FailsWith, FailingStep
  <2> QED
    BY <1>1, <1>3, <2>1 DEF FailsWith
<1> QED
  BY <1>2, <1>3

\* A function of sets stays one when an element is added to one of the sets.
LEMMA SetsGrow ==
  ASSUME NEW S, NEW f \in [Guests -> SUBSET S], NEW a \in Guests, NEW c \in S
  PROVE  [f EXCEPT ![a] = @ \cup {c}] \in [Guests -> SUBSET S]
  OBVIOUS

LEMMA FaultTyped ==
  ASSUME TypeOK, NEW a \in Guests, NEW c \in {"io", "handle", "stop"},
         faults' = [faults EXCEPT ![a] = @ \cup {c}]
  PROVE  faults' \in [Guests -> SUBSET {"io", "handle", "stop"}]
  BY SetsGrow DEF TypeOK

LEMMA UnitStoppedTyped ==
  ASSUME TypeOK, NEW a \in Guests, StopUnit(a)
  PROVE  /\ unit' \in [Guests -> {"absent", "queued", "active"}]
         /\ faults' \in [Guests -> SUBSET {"io", "handle", "stop"}]
  BY FaultTyped DEF StopUnit, TypeOK

LEMMA ReportTyped ==
  ASSUME TypeOK, NEW a \in Guests, NEW step \in {"setup", "exec"},
         NEW message \in {"ok", "err"}, Report(a, step, message)
  PROVE  /\ pipe' \in [Guests -> Seq({"ok", "err"})]
         /\ lost' \in [Guests -> SUBSET {"setup", "exec"}]
<1>1. CASE pipe' = [pipe EXCEPT ![a] = Append(@, message)] /\ UNCHANGED lost
  BY <1>1 DEF TypeOK
<1>2. CASE lost' = [lost EXCEPT ![a] = @ \cup {step}] /\ UNCHANGED pipe
  BY <1>2, SetsGrow DEF TypeOK
<1> QED
  BY <1>1, <1>2 DEF Report

LEMMA TypeStep == TypeOK /\ [Next]_vars => TypeOK'
<1> SUFFICES ASSUME TypeOK, [Next]_vars PROVE TypeOK'
  OBVIOUS
<1> USE DEF TypeOK, HostState, Handle, Failing, Spawning, GuestState, PreExec, Alive,
            hostVars, guestVars, fdVars, cgroupVars, Goto, Fault
<1>h. CASE HostDies
  BY <1>h DEF HostDies, CloseAll
<1>s. CASE UNCHANGED vars
  BY <1>s DEF vars
<1>1. ASSUME NEW a \in Guests, OpenPipe(a) PROVE TypeOK'
  BY <1>1 DEF OpenPipe
<1>2. ASSUME NEW a \in Guests, PreSpawnFails(a) PROVE TypeOK'
  BY <1>2 DEF PreSpawnFails
<1>3. ASSUME NEW a \in Guests, Clone(a) PROVE TypeOK'
  <2>1. Inherit(writers, a) \in [Guests -> SUBSET (Guests \cup {Host})]
    BY DEF Inherit
  <2>2. Inherit(pidfds, a) \in [Guests -> SUBSET (Guests \cup {Host})]
    BY DEF Inherit
  <2>3. [Inherit(pidfds, a) EXCEPT ![a] = {Host}]
          \in [Guests -> SUBSET (Guests \cup {Host})]
    BY <2>2
  <2> QED
    BY <1>3, <2>1, <2>3 DEF Clone
<1>4. ASSUME NEW a \in Guests, ClosePipe(a) PROVE TypeOK'
  BY <1>4 DEF ClosePipe
<1>5. ASSUME NEW a \in Guests, NoHook(a) PROVE TypeOK'
  BY <1>5 DEF NoHook
<1>6. ASSUME NEW a \in Guests, ConnectFails(a) PROVE TypeOK'
  BY <1>6 DEF ConnectFails
<1>7. ASSUME NEW a \in Guests, StartUnit(a) PROVE TypeOK'
  <2>1. PICK u \in {"absent", "queued"} : unit' = [unit EXCEPT ![a] = u]
    BY <1>7 DEF StartUnit
  <2> QED
    BY <1>7, <2>1, ZenonT(60) DEF StartUnit
<1>8. ASSUME NEW a \in Guests, PopulateCgroup(a) PROVE TypeOK'
  BY <1>8 DEF PopulateCgroup
<1>9. ASSUME NEW a \in Guests, Release(a) PROVE TypeOK'
  <2>1. faults' \in [Guests -> SUBSET {"io", "handle", "stop"}]
    BY <1>9, FaultTyped DEF Release
  <2> QED
    BY <1>9, <2>1, ZenonT(60) DEF Release
<1>10. ASSUME NEW a \in Guests, GuardStopsUnit(a) PROVE TypeOK'
  <2>1. /\ unit' \in [Guests -> {"absent", "queued", "active"}]
        /\ faults' \in [Guests -> SUBSET {"io", "handle", "stop"}]
    BY <1>10, UnitStoppedTyped DEF GuardStopsUnit
  <2> QED
    BY <1>10, <2>1 DEF GuardStopsUnit
<1>11. ASSUME NEW a \in Guests, ReadSetup(a) PROVE TypeOK'
  <2>1. pipe' = pipe \/ (pipe[a] # <<>> /\ pipe' = [pipe EXCEPT ![a] = Tail(@)])
    BY <1>11 DEF ReadSetup
  <2>2. pipe' \in [Guests -> Seq({"ok", "err"})]
    <3>1. pipe[a] # <<>> => Tail(pipe[a]) \in Seq({"ok", "err"})
      BY TailType
    <3> QED
      BY <2>1, <3>1, ZenonT(60)
  <2>3. hpc' = [hpc EXCEPT ![a] = "read2"] \/ hpc' = [hpc EXCEPT ![a] = "failing"]
    BY <1>11 DEF ReadSetup
  <2>4. hpc' \in [Guests -> HostState]
    BY <2>3
  <2> QED
    BY <1>11, <2>2, <2>4 DEF ReadSetup
<1>12. ASSUME NEW a \in Guests, ReadExec(a) PROVE TypeOK'
  <2>1. pipe' \in [Guests -> Seq({"ok", "err"})]
    BY <1>12, TailType DEF ReadExec
  <2>2. hpc' \in [Guests -> HostState] /\ destructor' \in [Guests -> BOOLEAN]
    BY <1>12, ZenonT(60) DEF ReadExec
  <2> QED
    BY <1>12, <2>1, <2>2 DEF ReadExec
<1>13. ASSUME NEW a \in Guests, HostIoFails(a) PROVE TypeOK'
  <2>1. faults' \in [Guests -> SUBSET {"io", "handle", "stop"}]
    BY <1>13, FaultTyped DEF HostIoFails
  <2> QED
    BY <1>13, <2>1 DEF HostIoFails
<1>14. ASSUME NEW a \in Guests, DropPidfd(a) PROVE TypeOK'
  BY <1>14 DEF DropPidfd
<1>15. ASSUME NEW a \in Guests, GuardTearsDown(a) PROVE TypeOK'
  <2>1. /\ unit' \in [Guests -> {"absent", "queued", "active"}]
        /\ faults' \in [Guests -> SUBSET {"io", "handle", "stop"}]
    BY <1>15, UnitStoppedTyped DEF GuardTearsDown, Teardown
  <2> QED
    BY <1>15, <2>1 DEF GuardTearsDown, Teardown
<1>16. ASSUME NEW a \in Guests, Terminate(a) PROVE TypeOK'
  <2>1. faults' \in [Guests -> SUBSET {"io", "handle", "stop"}]
    BY <1>16, FaultTyped DEF Terminate, Signal
  <2> QED
    BY <1>16, <2>1, ZenonT(60) DEF Terminate, Signal
<1>17. ASSUME NEW a \in Guests, DropHandle(a) PROVE TypeOK'
  <2>1. faults' \in [Guests -> SUBSET {"io", "handle", "stop"}]
    BY <1>17, FaultTyped DEF DropHandle, Signal
  <2> QED
    BY <1>17, <2>1, ZenonT(60) DEF DropHandle, Signal
<1>18. ASSUME NEW a \in Guests, Wait(a) PROVE TypeOK'
  <2>1. faults' \in [Guests -> SUBSET {"io", "handle", "stop"}]
    BY <1>18, FaultTyped DEF Wait
  <2> QED
    BY <1>18, <2>1, ZenonT(60) DEF Wait
<1>19. ASSUME NEW a \in Guests, EndTerminate(a) PROVE TypeOK'
  <2>1. /\ unit' \in [Guests -> {"absent", "queued", "active"}]
        /\ faults' \in [Guests -> SUBSET {"io", "handle", "stop"}]
    BY <1>19, UnitStoppedTyped DEF EndTerminate, RunDestructor, Teardown
  <2> QED
    BY <1>19, <2>1 DEF EndTerminate, RunDestructor, Teardown
<1>20. ASSUME NEW a \in Guests, EndDrop(a) PROVE TypeOK'
  <2>1. /\ unit' \in [Guests -> {"absent", "queued", "active"}]
        /\ faults' \in [Guests -> SUBSET {"io", "handle", "stop"}]
    BY <1>20, UnitStoppedTyped DEF EndDrop, RunDestructor, Teardown
  <2> QED
    BY <1>20, <2>1 DEF EndDrop, RunDestructor, Teardown
<1>21. ASSUME NEW a \in Guests, AwaitJob(a) PROVE TypeOK'
  BY <1>21 DEF AwaitJob
<1>22. ASSUME NEW a \in Guests, LeaveHook(a) PROVE TypeOK'
  BY <1>22 DEF LeaveHook, GuestGoto
<1>23. ASSUME NEW a \in Guests, SetupDone(a) PROVE TypeOK'
  BY <1>23, ReportTyped DEF SetupDone, GuestGoto
<1>24. ASSUME NEW a \in Guests, Fails(a) PROVE TypeOK'
  <2>1. PICK step \in {"setup", "exec"} : Report(a, step, "err")
    BY <1>24, FailingGuest
  <2>2. /\ pipe' \in [Guests -> Seq({"ok", "err"})]
        /\ lost' \in [Guests -> SUBSET {"setup", "exec"}]
    BY <2>1, ReportTyped
  <2>3. PICK f \in {"setup_failed", "exec_failed"} : fate' = [fate EXCEPT ![a] = f]
    BY <1>24, FailingGuest
  <2>4. /\ gpc' = [gpc EXCEPT ![a] = "exiting"]
        /\ UNCHANGED <<hostAlive, hostVars, fdVars, signalled, cgroupVars>>
    BY <1>24, FailingGuest
  <2> QED
    BY <2>2, <2>3, <2>4
<1>25. ASSUME NEW a \in Guests, Exec(a) PROVE TypeOK'
  BY <1>25 DEF Exec, GuestGoto, CloseAll
<1>26. ASSUME NEW a \in Guests, ExitAction(a) PROVE TypeOK'
  BY <1>26 DEF ExitAction, GuestGoto
<1>27. ASSUME NEW a \in Guests, Exits(a) PROVE TypeOK'
  BY <1>27 DEF Exits, Dies, CloseAll
<1>28. ASSUME NEW a \in Guests, GuestKilled(a) PROVE TypeOK'
  BY <1>28 DEF GuestKilled, Dies, CloseAll
<1>29. ASSUME NEW a \in Guests, Crashes(a) PROVE TypeOK'
  BY <1>29 DEF Crashes, Dies, CloseAll
<1>30. ASSUME NEW a \in Guests, UnitCollected(a) PROVE TypeOK'
  BY <1>30 DEF UnitCollected
<1>31. ASSUME NEW a \in Guests, JobRuns(a) PROVE TypeOK'
  <2>1. PICK u \in {"active", "absent"} : unit' = [unit EXCEPT ![a] = u]
    BY <1>31 DEF JobRuns
  <2> QED
    BY <1>31, <2>1 DEF JobRuns
<1> QED
  BY <1>h, <1>s, <1>1, <1>2, <1>3, <1>4, <1>5, <1>6, <1>7, <1>8, <1>9, <1>10, <1>11,
     <1>12, <1>13, <1>14, <1>15, <1>16, <1>17, <1>18, <1>19, <1>20, <1>21, <1>22, <1>23,
     <1>24, <1>25, <1>26, <1>27, <1>28, <1>29, <1>30, <1>31
     DEF Next, HostStep, GuestStep, SystemdStep

\* The state stays within its types: every stage the host threads and the
\* guests reach is one the protocol has a rule for, whatever the number of
\* overlapping calls.
THEOREM TypeCorrect == Safety => []TypeOK
  BY TypeInit, TypeStep, PTL DEF Safety

-----------------------------------------------------------------------------
\* The inductive invariant.

LEMMA SoundInit == Init => \A g \in Guests : Sound(g)
<1> SUFFICES ASSUME Init, NEW g \in Guests PROVE Sound(g)
  OBVIOUS
<1>1. /\ hpc[g] = "idle" /\ gpc[g] = "none" /\ fate[g] = "none" /\ pipe[g] = <<>>
      /\ ~released[g] /\ unit[g] = "absent" /\ ~destructor[g]
      /\ \A h \in Guests : writers[h] = {} /\ pidfds[h] = {}
  BY DEF Init
<1>2. lost[g] = {}
  BY DEF Init
<1> QED
  BY <1>1, <1>2 DEF Sound, Fresh, KeepsPipe, History, InPipe, Ordered, Refused, UnitOwned,
              Destructible, Unread, Handle, Failing, Spawning, PreExec

LEMMA SoundStep == IInv /\ [Next]_vars => (\A g \in Guests : Sound(g))'
<1> SUFFICES ASSUME IInv, [Next]_vars PROVE (\A g \in Guests : Sound(g))'
  OBVIOUS
<1> USE SpawnAssumption
    DEF IInv, TypeOK, Sound, Fresh, KeepsPipe, History, InPipe, Ordered, Refused,
        UnitOwned, Destructible, Unread, Handle, Failing, Spawning, PreExec, Alive,
        HostState, GuestState, hostVars, guestVars, fdVars, cgroupVars, Goto, Fault
<1>h. CASE HostDies
  <2> SUFFICES ASSUME NEW g \in Guests PROVE Sound(g)'
    OBVIOUS
  <2>1. \/ hpc[g] \in {"idle", "err", "closed"} /\ hpc'[g] = hpc[g]
        \/ hpc'[g] = "gone"
    BY <1>h DEF HostDies
  <2>2. ~destructor'[g]
    BY <1>h DEF HostDies
  <2>3. \A h \in Guests :
          /\ g \in writers'[h] <=> g \in writers[h]
          /\ g \in pidfds'[h] <=> g \in pidfds[h]
    BY <1>h DEF HostDies, CloseAll
  <2>4. UNCHANGED <<gpc, fate, pipe, lost, faults, released, limited, unit, state>>
    BY <1>h DEF HostDies
  <2>5. Fresh(g)'
    BY <2>1, <2>3, <2>4
  <2>6. KeepsPipe(g)'
    <3>1. g \in writers'[g] <=> g \in writers[g]
      BY <2>3
    <3>2. hpc'[g] # "piped"
      BY <2>1
    <3> QED
      BY <2>4, <3>1, <3>2
  <2>7. History(g)'
    BY <2>4
  <2>8. InPipe(g)'
    BY <2>1, <2>4
  <2>9. Ordered(g)' /\ Refused(g)'
    BY <2>1, <2>4
  <2>10. UnitOwned(g)'
    BY <2>1, <2>2, <2>4
  <2>11. Destructible(g)'
    BY <2>1, <2>2, <2>4
  <2> QED
    BY <2>5, <2>6, <2>7, <2>8, <2>9, <2>10, <2>11
<1>s. CASE UNCHANGED vars
  BY <1>s DEF vars
<1>1. ASSUME NEW a \in Guests, OpenPipe(a) PROVE (\A g \in Guests : Sound(g))'
  BY <1>1 DEF OpenPipe
<1>2. ASSUME NEW a \in Guests, PreSpawnFails(a) PROVE (\A g \in Guests : Sound(g))'
  <2>1. /\ hpc[a] \in {"idle", "piped"} /\ gpc[a] = "none"
        /\ hpc' = [hpc EXCEPT ![a] = "teardown"]
        /\ writers' = [writers EXCEPT ![a] = {}]
    BY <1>2 DEF PreSpawnFails
  <2>2. \A g \in Guests : KeepsPipe(g)'
    BY <1>2, <2>1 DEF PreSpawnFails
  <2>3. \A g \in Guests : Fresh(g)'
    BY <1>2, <2>1 DEF PreSpawnFails
  <2> QED
    BY <1>2, <2>1, <2>2, <2>3 DEF PreSpawnFails
<1>3. ASSUME NEW a \in Guests, Clone(a) PROVE (\A g \in Guests : Sound(g))'
  <2>1. \A g, h \in Guests : g # a => (g \in writers'[h] <=> g \in writers[h])
    BY <1>3 DEF Clone, Inherit
  <2>2. \A g, h \in Guests : g # a /\ g \in pidfds'[h] => g \in pidfds[h]
    <3> SUFFICES ASSUME NEW g \in Guests, NEW h \in Guests, g # a, g \in pidfds'[h]
                 PROVE  g \in pidfds[h]
      OBVIOUS
    <3>1. CASE h = a
      BY <1>3, <3>1 DEF Clone, Inherit
    <3>2. CASE h # a
      BY <1>3, <3>2 DEF Clone, Inherit
    <3> QED
      BY <3>1, <3>2
  <2>3. hpc[a] = "piped" /\ gpc[a] = "none"
    BY <1>3 DEF Clone
  <2>4. \A g \in Guests : Fresh(g)'
    BY <1>3, <2>1, <2>2 DEF Clone
  <2>5. a \in writers'[a]
    <3>1. Host \in writers[a]
      BY <2>3
    <3> QED
      BY <1>3, <3>1 DEF Clone, Inherit
  <2>6. \A g \in Guests : KeepsPipe(g)'
    <3>1. \A g \in Guests : Host \in writers[g] => Host \in writers'[g]
      BY <1>3 DEF Clone, Inherit
    <3> QED
      BY <1>3, <2>1, <2>5, <3>1 DEF Clone
  <2> QED
    BY <1>3, <2>4, <2>6 DEF Clone
<1>4. ASSUME NEW a \in Guests, ClosePipe(a) PROVE (\A g \in Guests : Sound(g))'
  BY <1>4 DEF ClosePipe
<1>5. ASSUME NEW a \in Guests, NoHook(a) PROVE (\A g \in Guests : Sound(g))'
  BY <1>5 DEF NoHook
<1>6. ASSUME NEW a \in Guests, ConnectFails(a) PROVE (\A g \in Guests : Sound(g))'
  BY <1>6 DEF ConnectFails
<1>7. ASSUME NEW a \in Guests, StartUnit(a) PROVE (\A g \in Guests : Sound(g))'
  BY <1>7 DEF StartUnit
<1>8. ASSUME NEW a \in Guests, PopulateCgroup(a) PROVE (\A g \in Guests : Sound(g))'
  BY <1>8 DEF PopulateCgroup
<1>9. ASSUME NEW a \in Guests, Release(a) PROVE (\A g \in Guests : Sound(g))'
  BY <1>9 DEF Release
<1>10. ASSUME NEW a \in Guests, GuardStopsUnit(a) PROVE (\A g \in Guests : Sound(g))'
  <2>1. CASE unit' = unit /\ faults' = [faults EXCEPT ![a] = @ \cup {"stop"}]
    BY <1>10, <2>1 DEF GuardStopsUnit
  <2>2. CASE unit' = [unit EXCEPT ![a] = "absent"] /\ faults' = faults
    BY <1>10, <2>2 DEF GuardStopsUnit
  <2> QED
    BY <1>10, <2>1, <2>2 DEF GuardStopsUnit, StopUnit
<1>11. ASSUME NEW a \in Guests, ReadSetup(a) PROVE (\A g \in Guests : Sound(g))'
  <2>0. hpc[a] = "read1" /\ UNCHANGED <<gpc, fate, lost, writers, pidfds, released,
                                        limited, unit, state, destructor, faults>>
    BY <1>11 DEF ReadSetup
  <2>1. \/ /\ pipe[a] = <<"ok">> /\ pipe'[a] = <<>> /\ hpc'[a] = "read2"
           /\ gpc[a] \notin {"hook", "mounts"} /\ "setup" \notin lost[a]
           /\ fate[a] # "setup_failed" /\ (fate[a] = "exec_failed" => "exec" \in lost[a])
        \/ /\ pipe[a] = <<"ok", "err">> /\ pipe'[a] = <<"err">> /\ hpc'[a] = "read2"
           /\ gpc[a] \notin {"hook", "mounts"} /\ "setup" \notin lost[a]
           /\ fate[a] = "exec_failed" /\ "exec" \notin lost[a]
        \/ fate[a] \in {"setup_failed", "exec_failed"} /\ hpc'[a] = "failing"
        \/ /\ pipe[a] = <<>> /\ writers[a] = {} /\ hpc'[a] = "failing" /\ pipe' = pipe
    <3>0. fate[a] \in {"none", "setup_failed", "exec_failed", "ran"}
      OBVIOUS
    <3>1. pipe[a] \in {<<>>, <<"ok">>, <<"err">>, <<"ok", "err">>}
      BY <2>0, <3>0
    <3>2. CASE pipe[a] = <<>>
      BY <1>11, <3>2 DEF ReadSetup
    <3>3. CASE pipe[a] = <<"ok">>
      <4>1. Head(pipe[a]) = "ok" /\ Tail(pipe[a]) = <<>> /\ pipe[a] # <<>>
        BY <3>3, PipeFacts
      <4>2. /\ gpc[a] \notin {"hook", "mounts"} /\ "setup" \notin lost[a]
            /\ fate[a] # "setup_failed" /\ (fate[a] = "exec_failed" => "exec" \in lost[a])
        BY <2>0, <3>3, PipeFacts
      <4>3. hpc'[a] = "read2" /\ pipe'[a] = Tail(pipe[a])
        BY <1>11, <4>1 DEF ReadSetup
      <4> QED
        BY <3>3, <4>1, <4>2, <4>3
    <3>4. CASE pipe[a] = <<"err">>
      <4>1. Head(pipe[a]) = "err" /\ pipe[a] # <<>>
        BY <3>4, PipeFacts
      <4>2. fate[a] \in {"setup_failed", "exec_failed"}
        BY <2>0, <3>0, <3>4, PipeFacts
      <4>3. hpc'[a] = "failing"
        BY <1>11, <4>1 DEF ReadSetup
      <4> QED
        BY <4>2, <4>3
    <3>5. CASE pipe[a] = <<"ok", "err">>
      <4>1. Head(pipe[a]) = "ok" /\ Tail(pipe[a]) = <<"err">> /\ pipe[a] # <<>>
        BY <3>5, PipeFacts
      <4>2. /\ gpc[a] \notin {"hook", "mounts"} /\ "setup" \notin lost[a]
            /\ fate[a] = "exec_failed" /\ "exec" \notin lost[a]
        BY <2>0, <3>0, <3>5, PipeFacts
      <4>3. hpc'[a] = "read2" /\ pipe'[a] = Tail(pipe[a])
        BY <1>11, <4>1 DEF ReadSetup
      <4> QED
        BY <3>5, <4>1, <4>2, <4>3
    <3> QED
      BY <3>1, <3>2, <3>3, <3>4, <3>5
  <2>2. \A g \in Guests \ {a} : hpc'[g] = hpc[g] /\ pipe'[g] = pipe[g]
    BY <1>11 DEF ReadSetup
  <2>4. \A g \in Guests \ {a} : Sound(g)'
    BY <2>0, <2>2
  <2>5. Sound(a)'
    BY <2>0, <2>1, PipeFacts
  <2> QED
    BY <2>4, <2>5
<1>12. ASSUME NEW a \in Guests, ReadExec(a) PROVE (\A g \in Guests : Sound(g))'
  <2>0. /\ hpc[a] = "read2" /\ hpc'[a] \in {"ok", "failing"}
        /\ UNCHANGED <<gpc, fate, lost, writers, pidfds, released, limited, unit, state,
                       faults>>
        /\ \A g \in Guests \ {a} :
             hpc'[g] = hpc[g] /\ pipe'[g] = pipe[g] /\ destructor'[g] = destructor[g]
    BY <1>12 DEF ReadExec
  <2>1. \/ hpc'[a] = "failing" /\ fate[a] = "exec_failed" /\ destructor'[a] = destructor[a]
        \/ /\ hpc'[a] = "ok" /\ destructor'[a] /\ writers[a] = {}
           /\ fate[a] = "exec_failed" => "exec" \in lost[a]
    <3>1. CASE pipe[a] = <<"err">>
      <4>1. Head(pipe[a]) = "err" /\ pipe[a] # <<>>
        BY <3>1, PipeFacts
      <4>2. hpc'[a] = "failing" /\ destructor'[a] = destructor[a]
        BY <1>12, <4>1 DEF ReadExec
      <4> QED
        BY <2>0, <3>1, <4>2, PipeFacts
    <3>2. CASE pipe[a] = <<>>
      <4>1. hpc'[a] = "ok" /\ destructor'[a] /\ writers[a] = {}
        BY <1>12, <3>2 DEF ReadExec
      <4> QED
        BY <2>0, <3>2, <4>1, PipeFacts
    <3> QED
      BY <2>0, <3>1, <3>2
  <2>2. \A g \in Guests \ {a} : Sound(g)'
    BY <2>0
  <2>3. hpc'[a] = "ok" => gpc[a] \in {"running", "dead"}
    BY <2>0, <2>1, ZenonT(60)
  <2>4. Sound(a)'
    BY <2>0, <2>1, <2>3
  <2> QED
    BY <2>2, <2>4
<1>13. ASSUME NEW a \in Guests, HostIoFails(a) PROVE (\A g \in Guests : Sound(g))'
  BY <1>13 DEF HostIoFails
<1>14. ASSUME NEW a \in Guests, DropPidfd(a) PROVE (\A g \in Guests : Sound(g))'
  BY <1>14 DEF DropPidfd
<1>15. ASSUME NEW a \in Guests, GuardTearsDown(a) PROVE (\A g \in Guests : Sound(g))'
  BY <1>15 DEF GuardTearsDown, Teardown, StopUnit
<1>16. ASSUME NEW a \in Guests, Terminate(a) PROVE (\A g \in Guests : Sound(g))'
  BY <1>16 DEF Terminate, Signal
<1>17. ASSUME NEW a \in Guests, DropHandle(a) PROVE (\A g \in Guests : Sound(g))'
  BY <1>17 DEF DropHandle, Signal
<1>18. ASSUME NEW a \in Guests, Wait(a) PROVE (\A g \in Guests : Sound(g))'
  BY <1>18 DEF Wait
<1>19. ASSUME NEW a \in Guests, EndTerminate(a) PROVE (\A g \in Guests : Sound(g))'
  BY <1>19 DEF EndTerminate, RunDestructor, Teardown, StopUnit
<1>20. ASSUME NEW a \in Guests, EndDrop(a) PROVE (\A g \in Guests : Sound(g))'
  BY <1>20 DEF EndDrop, RunDestructor, Teardown, StopUnit
<1>21. ASSUME NEW a \in Guests, AwaitJob(a) PROVE (\A g \in Guests : Sound(g))'
  BY <1>21 DEF AwaitJob
<1>22. ASSUME NEW a \in Guests, LeaveHook(a) PROVE (\A g \in Guests : Sound(g))'
  BY <1>22 DEF LeaveHook, GuestGoto
<1>23. ASSUME NEW a \in Guests, SetupDone(a) PROVE (\A g \in Guests : Sound(g))'
  <2>1. /\ hpc[a] # "read2" /\ gpc[a] = "mounts" /\ gpc'[a] = "apply"
        /\ UNCHANGED <<hpc, fate, writers, pidfds, released, limited, unit, state,
                       destructor, faults>>
    BY <1>23 DEF SetupDone, GuestGoto
  <2>2. \A g \in Guests \ {a} :
          gpc'[g] = gpc[g] /\ pipe'[g] = pipe[g] /\ lost'[g] = lost[g]
    BY <1>23 DEF SetupDone, GuestGoto, Report
  <2>3. fate[a] = "none" /\ lost[a] = {} /\ (hpc[a] \in Unread => pipe[a] = <<>>)
    BY <2>1
  <2>4. \/ lost'[a] = lost[a] /\ (hpc[a] \in Unread => pipe'[a] = <<"ok">>)
        \/ lost'[a] = {"setup"} /\ pipe'[a] = pipe[a]
    BY <1>23, <2>3, PipeFacts DEF SetupDone, Report
  <2>5. \A g \in Guests \ {a} : Sound(g)'
    BY <2>1, <2>2
  <2>6. Sound(a)'
    BY <2>1, <2>3, <2>4, PipeFacts
  <2> QED
    BY <2>5, <2>6
<1>24. ASSUME NEW a \in Guests, Fails(a) PROVE (\A g \in Guests : Sound(g))'
  <2>1. /\ gpc' = [gpc EXCEPT ![a] = "exiting"]
        /\ UNCHANGED <<hpc, writers, pidfds, released, limited, unit, state, destructor,
                       faults>>
    BY <1>24, FailingGuest
  <2>2. \A g \in Guests \ {a} :
          gpc'[g] = gpc[g] /\ pipe'[g] = pipe[g] /\ fate'[g] = fate[g] /\ lost'[g] = lost[g]
    <3>1. PICK step \in {"setup", "exec"} : Report(a, step, "err")
      BY <1>24, FailingGuest
    <3>2. \A g \in Guests \ {a} : pipe'[g] = pipe[g] /\ lost'[g] = lost[g]
      BY <3>1 DEF Report
    <3>3. PICK f \in {"setup_failed", "exec_failed"} : fate' = [fate EXCEPT ![a] = f]
      BY <1>24, FailingGuest
    <3> QED
      BY <2>1, <3>2, <3>3
  <2>3. \A g \in Guests \ {a} : Sound(g)'
    BY <2>1, <2>2
  <2>4. CASE /\ gpc[a] \in {"hook", "mounts"} /\ Report(a, "setup", "err")
             /\ fate' = [fate EXCEPT ![a] = "setup_failed"]
    <3>1. lost[a] = {} /\ (hpc[a] \in Unread => pipe[a] = <<>>)
      BY <2>4
    <3>2. \/ lost'[a] = {} /\ (hpc[a] \in Unread => pipe'[a] = <<"err">>)
          \/ lost'[a] = {"setup"} /\ pipe'[a] = pipe[a]
      BY <2>4, <3>1, PipeFacts DEF Report
    <3>3. /\ fate'[a] = "setup_failed" /\ gpc'[a] = "exiting"
          /\ hpc[a] \notin {"read2"} \cup Handle
          /\ hpc[a] \in Unread => pipe'[a] \in {<<>>, <<"err">>}
      <4>1. fate'[a] = "setup_failed" /\ gpc'[a] = "exiting"
        BY <2>1, <2>4
      <4>2. hpc[a] \notin {"read2"} \cup Handle
        BY <2>4
      <4>3. hpc[a] \in Unread => pipe'[a] \in {<<>>, <<"err">>}
        BY <3>1, <3>2
      <4> QED
        BY <4>1, <4>2, <4>3
    <3>4. InPipe(a)'
      BY <2>1, <3>2, <3>3
    <3>5. Fresh(a)' /\ KeepsPipe(a)' /\ History(a)'
      BY <2>1, <2>4, <3>2, <3>3
    <3>6. Ordered(a)' /\ Refused(a)' /\ UnitOwned(a)' /\ Destructible(a)'
      BY <2>1, <2>4, <3>3
    <3> QED
      BY <2>1, <2>3, <3>4, <3>5, <3>6
  <2>5. CASE /\ gpc[a] = "apply" /\ Report(a, "exec", "err")
             /\ fate' = [fate EXCEPT ![a] = "exec_failed"]
    <3>1. /\ fate[a] = "none" /\ "exec" \notin lost[a]
          /\ hpc[a] \in Unread =>
               /\ "setup" \in lost[a] => pipe[a] = <<>>
               /\ "setup" \notin lost[a] => pipe[a] = <<"ok">>
          /\ hpc[a] = "read2" => pipe[a] = <<>>
      BY <2>5, PipeFacts
    <3>0. fate'[a] = "exec_failed" /\ gpc'[a] = "exiting" /\ hpc[a] \notin Handle
      BY <2>1, <2>5, SMTT(30)
    <3>4. /\ Fresh(a)' /\ KeepsPipe(a)' /\ History(a)' /\ Ordered(a)'
          /\ Refused(a)' /\ UnitOwned(a)' /\ Destructible(a)'
      BY <2>1, <2>5, <3>0
    <3>2. CASE pipe'[a] = Append(pipe[a], "err") /\ lost'[a] = lost[a]
      <4>1. /\ pipe[a] = <<>> => pipe'[a] = <<"err">>
            /\ pipe[a] = <<"ok">> => pipe'[a] = <<"ok", "err">>
        <5>1. CASE pipe[a] = <<>>
          BY <3>2, <5>1, PipeFacts
        <5>2. CASE pipe[a] = <<"ok">>
          BY <3>2, <5>2, PipeFacts
        <5> QED
          BY <5>1, <5>2, PipeFacts
      <4>2. InPipe(a)'
        BY <2>1, <3>0, <3>1, <3>2, <4>1, PipeFacts
      <4>3. Sound(a)'
        BY <3>4, <4>2
      <4> QED
        BY <2>3, <4>3
    <3>3. CASE pipe'[a] = pipe[a] /\ lost'[a] = lost[a] \cup {"exec"}
      <4>1. InPipe(a)'
        BY <2>1, <3>0, <3>1, <3>3, PipeFacts
      <4>2. Sound(a)'
        BY <3>4, <4>1
      <4> QED
        BY <2>3, <4>2
    <3> QED
      BY <2>5, <3>2, <3>3 DEF Report
  <2> QED
    BY <1>24, <2>3, <2>4, <2>5, FailingGuest
<1>25. ASSUME NEW a \in Guests, Exec(a) PROVE (\A g \in Guests : Sound(g))'
  BY <1>25 DEF Exec, GuestGoto, CloseAll
<1>26. ASSUME NEW a \in Guests, ExitAction(a) PROVE (\A g \in Guests : Sound(g))'
  BY <1>26 DEF ExitAction, GuestGoto
<1>27. ASSUME NEW a \in Guests, Exits(a) PROVE (\A g \in Guests : Sound(g))'
  BY <1>27 DEF Exits, Dies, CloseAll
<1>28. ASSUME NEW a \in Guests, GuestKilled(a) PROVE (\A g \in Guests : Sound(g))'
  BY <1>28 DEF GuestKilled, Dies, CloseAll
<1>29. ASSUME NEW a \in Guests, Crashes(a) PROVE (\A g \in Guests : Sound(g))'
  BY <1>29 DEF Crashes, Dies, CloseAll
<1>30. ASSUME NEW a \in Guests, UnitCollected(a) PROVE (\A g \in Guests : Sound(g))'
  BY <1>30 DEF UnitCollected
<1>31. ASSUME NEW a \in Guests, JobRuns(a) PROVE (\A g \in Guests : Sound(g))'
  BY <1>31 DEF JobRuns
<1> HIDE DEF IInv, TypeOK, Sound, Fresh, KeepsPipe, History, InPipe, Ordered, Refused,
             UnitOwned, Destructible, Goto
<1> QED
  BY <1>h, <1>s, <1>1, <1>2, <1>3, <1>4, <1>5, <1>6, <1>7, <1>8, <1>9, <1>10, <1>11,
     <1>12, <1>13, <1>14, <1>15, <1>16, <1>17, <1>18, <1>19, <1>20, <1>21, <1>22, <1>23,
     <1>24, <1>25, <1>26, <1>27, <1>28, <1>29, <1>30, <1>31
     DEF Next, HostStep, GuestStep, SystemdStep

LEMMA IInvInit == Init => IInv
  BY TypeInit, SoundInit DEF IInv

LEMMA IInvStep == IInv /\ [Next]_vars => IInv'
  BY TypeStep, SoundStep DEF IInv

LEMMA Invariance == Safety => []IInv
  BY IInvInit, IInvStep, PTL DEF Safety

-----------------------------------------------------------------------------
\* What the inductive invariant says of a call and of its guest.

LEMMA StatesSound ==
  IInv => /\ OkMeansSettled
          /\ FailureReported
          /\ ErrorMeansNeverRan
          /\ LimitsBeforeProgram
          /\ ProgramHoldsNothing
          /\ NoUnitLeft
<1> SUFFICES ASSUME IInv
             PROVE  /\ OkMeansSettled
                    /\ FailureReported
                    /\ ErrorMeansNeverRan
                    /\ LimitsBeforeProgram
                    /\ ProgramHoldsNothing
                    /\ NoUnitLeft
  OBVIOUS
<1> USE DEF IInv, Sound
<1>1. OkMeansSettled
  BY DEF OkMeansSettled, InPipe
<1>2. FailureReported
  BY DEF FailureReported, InPipe
<1>3. ErrorMeansNeverRan
  BY DEF ErrorMeansNeverRan, Refused
<1>4. LimitsBeforeProgram
  BY DEF LimitsBeforeProgram, Ordered
<1>5. ProgramHoldsNothing
  BY DEF ProgramHoldsNothing, Fresh
<1>6. NoUnitLeft
  <2> SUFFICES ASSUME NEW g \in Guests, hpc[g] \in {"err", "closed"}, "stop" \notin faults[g]
               PROVE  unit[g] = "absent"
    BY DEF NoUnitLeft
  <2> QED
    BY DEF UnitOwned, Destructible, Handle
<1> QED
  BY <1>1, <1>2, <1>3, <1>4, <1>5, <1>6

\* clone_into returns a handle only for a guest that has executed its program
\* or is dead, however many calls overlap and copy each other's pipe.
THEOREM OkIsSettled == Safety => []OkMeansSettled
  BY Invariance, StatesSound, PTL

\* A handle is given out only on the guest's report that its setup is done: for
\* a guest that failed only when its exec action did and could not report it.
THEOREM FailureIsReported == Safety => []FailureReported
  BY Invariance, StatesSound, PTL

\* After an error of clone_into that is not its own I/O failing, the program
\* never runs; it has run only where the report of the setup could not be written.
THEOREM ErrorIsFinal == Safety => []ErrorMeansNeverRan
  BY Invariance, StatesSound, PTL

\* With the systemd backend, nothing of the guest past the hook runs outside
\* its limits.
THEOREM LimitsComeFirst == Safety => []LimitsBeforeProgram
  BY Invariance, StatesSound, PTL

\* A program holds none of the descriptors of the spawn machinery.
THEOREM ProgramIsClean == Safety => []ProgramHoldsNothing
  BY Invariance, StatesSound, PTL

\* An error and a closed handle leave no unit, and no start job of one, unless
\* the service manager refused to stop it.
THEOREM UnitsAreStopped == Safety => []NoUnitLeft
  BY Invariance, StatesSound, PTL

\* A handle runs its destructor once its guest is dead.
THEOREM DestructorIsLast == Safety => DestructorAfterDeath
<1>1. ASSUME IInv, [Next]_vars,
             NEW g \in Guests, destructor[g], ~destructor'[g], hostAlive', "handle" \notin faults[g]
      PROVE  gpc[g] = "dead"
  <2>0. \/ destructor' = destructor
        \/ \E a \in Guests : destructor' = [destructor EXCEPT ![a] = TRUE]
        \/ \E a \in Guests : EndTerminate(a) \/ EndDrop(a)
    BY <1>1, ZenonT(60) DEF Next, vars, hostVars, HostStep, GuestStep, HostDies, OpenPipe,
       PreSpawnFails, Terminate, DropHandle, Signal, Clone, ClosePipe, NoHook,
       ConnectFails, StartUnit, AwaitJob, PopulateCgroup, Release, GuardStopsUnit, ReadSetup,
       ReadExec, HostIoFails, DropPidfd, GuardTearsDown, Wait, LeaveHook, SetupDone,
       Fails, FailsWith, Exec, ExitAction, Exits, GuestKilled, Crashes, Dies,
       SystemdStep, JobRuns, UnitCollected
  <2>1. PICK a \in Guests : EndTerminate(a) \/ EndDrop(a)
    BY <1>1, <2>0 DEF IInv, TypeOK
  <2>2. destructor' = [destructor EXCEPT ![a] = FALSE] /\ hpc[a] \in {"destroy2", "destroy"}
    BY <2>1 DEF EndTerminate, EndDrop, RunDestructor, Goto
  <2>3. g = a
    BY <1>1, <2>2 DEF IInv, TypeOK
  <2> QED
    BY <1>1, <2>2, <2>3 DEF IInv, Sound, Destructible
<1>2. IInv /\ [Next]_vars =>
        [\A g \in Guests :
           destructor[g] /\ ~destructor'[g] /\ hostAlive' /\ "handle" \notin faults[g]
             => gpc[g] = "dead"]_vars
  BY <1>1
<1> QED
  BY <1>2, Invariance, PTL DEF Safety, DestructorAfterDeath

-----------------------------------------------------------------------------
\* The autokill.

\* Every step but a clone only closes pidfds.
LEMMA PidfdsShrink ==
  TypeOK /\ [Next]_vars =>
    \/ \E a \in Guests : Clone(a)
    \/ \A g \in Guests : pidfds'[g] \subseteq pidfds[g]
<1> SUFFICES ASSUME TypeOK, [Next]_vars, ~ \E a \in Guests : Clone(a)
             PROVE  \A g \in Guests : pidfds'[g] \subseteq pidfds[g]
  OBVIOUS
<1>1. \/ pidfds' = pidfds
      \/ \E a \in Guests : pidfds' = [pidfds EXCEPT ![a] = @ \ {Host}]
      \/ \E a \in Guests \cup {Host} : pidfds' = CloseAll(pidfds, a)
  BY DEF Next, vars, fdVars, HostStep, GuestStep, HostDies, OpenPipe,
     PreSpawnFails, Terminate, DropHandle, Signal, ClosePipe, NoHook,
     ConnectFails, StartUnit, AwaitJob, PopulateCgroup, Release, GuardStopsUnit, ReadSetup,
     ReadExec, HostIoFails, DropPidfd, GuardTearsDown, Wait, EndTerminate, EndDrop,
     LeaveHook, SetupDone, Fails, FailsWith, Exec, ExitAction, Exits, GuestKilled,
     Crashes, Dies, SystemdStep, JobRuns, UnitCollected
<1>2. CASE \E a \in Guests : pidfds' = [pidfds EXCEPT ![a] = @ \ {Host}]
  BY <1>2 DEF TypeOK
<1>3. CASE \E a \in Guests \cup {Host} : pidfds' = CloseAll(pidfds, a)
  BY <1>3 DEF CloseAll
<1> QED
  BY <1>1, <1>2, <1>3

\* No circle of guests keeps itself from the autokill: a clone adds a guest
\* that holds the pidfds of others, but whose own is in the host alone.
THEOREM AutokillIsAcyclic == Safety => []NoAutokillCycle
<1>1. Init => NoAutokillCycle
  <2> SUFFICES ASSUME Init, NEW S \in (SUBSET Guests) \ {{}}
               PROVE  \E g \in S : pidfds[g] \cap S = {}
    BY DEF NoAutokillCycle
  <2>1. PICK g \in S : TRUE
    OBVIOUS
  <2>2. pidfds[g] = {}
    BY DEF Init
  <2> QED
    BY <2>2
<1>2. TypeOK /\ NoAutokillCycle /\ [Next]_vars => NoAutokillCycle'
  <2> SUFFICES ASSUME TypeOK, NoAutokillCycle, [Next]_vars,
                      NEW S \in (SUBSET Guests) \ {{}}
               PROVE  \E g \in S : pidfds'[g] \cap S = {}
    BY DEF NoAutokillCycle
  <2>1. PICK g \in S : pidfds[g] \cap S = {}
    BY DEF NoAutokillCycle
  <2>2. ASSUME NEW a \in Guests, Clone(a)
        PROVE  \E h \in S : pidfds'[h] \cap S = {}
    <3>1. CASE a \in S
      <4>1. pidfds'[a] = {Host}
        BY <2>2 DEF Clone, Inherit
      <4> QED
        BY <3>1, <4>1, SpawnAssumption
    <3>2. CASE a \notin S
      <4>1. pidfds'[g] \subseteq pidfds[g] \cup {a}
        BY <2>2, <3>2 DEF Clone, Inherit
      <4> QED
        BY <2>1, <3>2, <4>1
    <3> QED
      BY <3>1, <3>2
  <2>3. ASSUME pidfds'[g] \subseteq pidfds[g]
        PROVE  \E h \in S : pidfds'[h] \cap S = {}
    BY <2>1, <2>3
  <2> QED
    BY <2>2, <2>3, PidfdsShrink
<1> QED
  BY <1>1, <1>2, TypeCorrect, PTL DEF Safety

-----------------------------------------------------------------------------
(***************************************************************************)
(* The protocol of Spawn implements the promises of Sandbox: every step of *)
(* the protocol is a step of Sandbox, or one the caller does not see.      *)
(***************************************************************************)
Working == Spawning \cup Failing
Held == Handle \ {"ok", "closed"}

\* A step of the host thread of call a leaves the other calls and the guests
\* alone.
OnlyCall(a) ==
  /\ \A h \in Guests \ {a} : hpc'[h] = hpc[h] /\ faults'[h] = faults[h]
  /\ UNCHANGED <<hostAlive, gpc, fate, lost>>

\* A step of guest a leaves the other guests and the calls alone.
OnlyGuest(a) ==
  /\ \A h \in Guests \ {a} : gpc'[h] = gpc[h] /\ fate'[h] = fate[h] /\ lost'[h] = lost[h]
  /\ UNCHANGED <<hostAlive, hpc, faults>>

-----------------------------------------------------------------------------
\* The mapping, entry by entry.

LEMMA CallUpdate ==
  ASSUME NEW a \in Guests, OnlyCall(a)
  PROVE  callOf' = [callOf EXCEPT ![a] = callOf'[a]]
<1>1. \A h \in Guests \ {a} : callOf'[h] = callOf[h]
  BY DEF OnlyCall, callOf, Misled
<1>2. /\ callOf = [h \in Guests |-> callOf[h]]
      /\ callOf' = [h \in Guests |-> callOf'[h]]
  BY DEF callOf
<1> QED
  BY <1>1, <1>2

LEMMA ProgUpdate ==
  ASSUME NEW a \in Guests, OnlyGuest(a)
  PROVE  progOf' = [progOf EXCEPT ![a] = progOf'[a]]
<1>1. \A h \in Guests \ {a} : progOf'[h] = progOf[h]
  BY DEF OnlyGuest, progOf
<1>2. /\ progOf = [h \in Guests |-> progOf[h]]
      /\ progOf' = [h \in Guests |-> progOf'[h]]
  BY DEF progOf
<1> QED
  BY <1>1, <1>2

LEMMA ProgSame == UNCHANGED <<gpc, fate>> => progOf' = progOf
  BY DEF progOf

LEMMA TroubleUpdate ==
  ASSUME NEW a \in Guests,
         \A h \in Guests \ {a} : faults'[h] = faults[h] /\ lost'[h] = lost[h]
  PROVE  troubleOf' = [troubleOf EXCEPT ![a] = troubleOf'[a]]
<1>1. \A h \in Guests \ {a} : troubleOf'[h] = troubleOf[h]
  BY DEF troubleOf
<1> QED
  BY <1>1 DEF troubleOf

\* A "stop" is no trouble of Sandbox.
LEMMA TroubleSame ==
  ASSUME \A h \in Guests :
           /\ faults'[h] \cap {"io", "handle"} = faults[h] \cap {"io", "handle"}
           /\ lost'[h] = lost[h]
  PROVE  troubleOf' = troubleOf
  BY DEF troubleOf

LEMMA CallStages ==
  ASSUME NEW g \in Guests
  PROVE  /\ hpc[g] \in {"idle", "ok", "gone"} => callOf[g] = hpc[g]
         /\ hpc[g] \in Working => callOf[g] = "starting"
         /\ hpc[g] \in Held => callOf[g] = "ok"
         /\ hpc[g] \in {"err", "closed"} /\ ~Misled(g) => callOf[g] = hpc[g]
         /\ hpc[g] \in {"err", "closed"} /\ Misled(g) => callOf[g] = "lost"
  BY DEF callOf, Working, Held, Spawning, Failing, Handle

LEMMA ProgStages ==
  ASSUME NEW g \in Guests
  PROVE  /\ fate[g] \in {"setup_failed", "exec_failed"} => progOf[g] = "failed"
         /\ fate[g] = "ran" /\ gpc[g] = "dead" => progOf[g] = "ended"
         /\ fate[g] = "ran" /\ gpc[g] # "dead" => progOf[g] = "running"
         /\ fate[g] = "none" /\ gpc[g] = "dead" => progOf[g] = "gone"
         /\ fate[g] = "none" /\ gpc[g] # "dead" => progOf[g] = "none"
  BY DEF progOf

\* The same of the next state.
LEMMA NextCallStages ==
  ASSUME NEW g \in Guests
  PROVE  /\ hpc'[g] \in {"idle", "ok", "gone"} => callOf'[g] = hpc'[g]
         /\ hpc'[g] \in Working => callOf'[g] = "starting"
         /\ hpc'[g] \in Held => callOf'[g] = "ok"
         /\ hpc'[g] \in {"err", "closed"} /\ ~Misled(g)' => callOf'[g] = hpc'[g]
         /\ hpc'[g] \in {"err", "closed"} /\ Misled(g)' => callOf'[g] = "lost"
  BY DEF callOf, Working, Held, Spawning, Failing, Handle

LEMMA NextProgStages ==
  ASSUME NEW g \in Guests
  PROVE  /\ fate'[g] \in {"setup_failed", "exec_failed"} => progOf'[g] = "failed"
         /\ fate'[g] = "ran" /\ gpc'[g] = "dead" => progOf'[g] = "ended"
         /\ fate'[g] = "ran" /\ gpc'[g] # "dead" => progOf'[g] = "running"
         /\ fate'[g] = "none" /\ gpc'[g] = "dead" => progOf'[g] = "gone"
         /\ fate'[g] = "none" /\ gpc'[g] # "dead" => progOf'[g] = "none"
  BY DEF progOf

\* A step of a guest does not change what its caller was told: after an error
\* that was none of the host's I/O, the program does not start.
LEMMA CallSame ==
  ASSUME NEW a \in Guests, OnlyGuest(a),
         hpc[a] = "err" => "io" \in faults[a] \/ (fate'[a] = "ran" <=> fate[a] = "ran")
  PROVE  callOf' = callOf
<1>1. \A h \in Guests : callOf'[h] = callOf[h]
  BY DEF OnlyGuest, callOf, Misled
<1>2. /\ callOf = [h \in Guests |-> callOf[h]]
      /\ callOf' = [h \in Guests |-> callOf'[h]]
  BY DEF callOf
<1> QED
  BY <1>1, <1>2

\* A guest's call has begun.
LEMMA CallBegun ==
  ASSUME NEW g \in Guests, IInv, gpc[g] # "none"
  PROVE  callOf[g] # "idle"
<1>1. hpc[g] # "idle"
  BY DEF IInv, Sound, Fresh
<1>2. hpc[g] \in {"ok", "gone", "err", "closed"} \cup Working \cup Held
  BY <1>1 DEF IInv, TypeOK, HostState, Working, Held
<1> QED
  BY <1>2, CallStages

-----------------------------------------------------------------------------
\* The steps the caller does not see, or sees only as trouble.

LEMMA TroubleRefines ==
  ASSUME NEW a \in Guests, callOf[a] # "idle",
         \A h \in Guests \ {a} : faults'[h] = faults[h] /\ lost'[h] = lost[h],
         faults[a] \subseteq faults'[a], lost[a] \subseteq lost'[a],
         hostAlive' = hostAlive, callOf' = callOf, progOf' = progOf
  PROVE  [Box!Next]_(Box!vars)
<1>1. troubleOf' = [troubleOf EXCEPT ![a] = troubleOf'[a]]
  BY TroubleUpdate
<1>2. CASE troubleOf'[a] = troubleOf[a]
  <2>1. troubleOf' = troubleOf
    BY <1>1, <1>2 DEF troubleOf
  <2> QED
    BY <2>1 DEF Box!vars
<1>3. CASE troubleOf'[a] # troubleOf[a]
  <2>1. troubleOf'[a] = TRUE
    BY <1>3 DEF troubleOf
  <2>2. Box!Trouble(a)
    BY <1>1, <2>1 DEF Box!Trouble
  <2> QED
    BY <2>2 DEF Box!Next
<1> QED
  BY <1>2, <1>3

LEMMA HiddenCall ==
  ASSUME NEW a \in Guests, OnlyCall(a), faults[a] \subseteq faults'[a],
         \/ hpc[a] \in Working /\ hpc'[a] \in Working
         \/ hpc[a] \in Held \cup {"ok"} /\ hpc'[a] \in Held \cup {"ok"}
  PROVE  [Box!Next]_(Box!vars)
<1>1. callOf'[a] = callOf[a] /\ callOf[a] # "idle"
  BY CallStages, NextCallStages
<1>2. callOf' = [callOf EXCEPT ![a] = callOf[a]]
  BY <1>1, CallUpdate
<1>3. callOf' = callOf
  BY <1>2 DEF callOf
<1> QED
  BY <1>1, <1>3, ProgSame, TroubleRefines DEF OnlyCall

LEMMA HiddenGuest ==
  ASSUME NEW a \in Guests, IInv, OnlyGuest(a), gpc[a] # "none",
         gpc[a] # "dead", gpc'[a] # "dead",
         fate'[a] = fate[a], lost[a] \subseteq lost'[a]
  PROVE  [Box!Next]_(Box!vars)
<1>1. progOf'[a] = progOf[a]
  BY DEF progOf
<1>2. progOf' = [progOf EXCEPT ![a] = progOf[a]]
  BY <1>1, ProgUpdate
<1>3. progOf' = progOf
  BY <1>2 DEF progOf
<1> QED
  BY <1>3, CallSame, CallBegun, TroubleRefines DEF OnlyGuest

-----------------------------------------------------------------------------
\* The steps the caller sees.

LEMMA EndRefines ==
  ASSUME NEW a \in Guests, IInv, gpc[a] \in Alive, Dies(a)
  PROVE  [Box!Next]_(Box!vars)
<1>1. OnlyGuest(a) /\ gpc'[a] = "dead" /\ fate' = fate /\ lost' = lost
  BY DEF Dies, OnlyGuest, hostVars, IInv, TypeOK
<1>2. progOf' = [progOf EXCEPT ![a] = progOf'[a]] /\ callOf' = callOf
  BY <1>1, ProgUpdate, CallSame
<1>3. troubleOf' = troubleOf
  BY <1>1, TroubleSame DEF OnlyGuest
<1>4. CASE fate[a] \in {"setup_failed", "exec_failed"}
  <2>1. progOf'[a] = progOf[a]
    BY <1>1, <1>4, ProgStages, NextProgStages DEF IInv, Sound, History
  <2>2. progOf' = progOf
    BY <1>2, <2>1 DEF progOf
  <2> QED
    BY <1>1, <1>2, <1>3, <2>2 DEF Box!vars, OnlyGuest
<1>5. CASE fate[a] \notin {"setup_failed", "exec_failed"}
  <2>1. \/ progOf[a] = "running" /\ progOf'[a] = "ended"
        \/ progOf[a] = "none" /\ progOf'[a] = "gone"
    BY <1>1, <1>5, ProgStages, NextProgStages
       DEF IInv, TypeOK, Sound, History, Alive, PreExec
  <2>2. callOf[a] # "idle"
    BY CallBegun DEF Alive, PreExec
  <2>3. Box!End(a)
    BY <1>1, <1>2, <1>3, <2>1, <2>2 DEF Box!End, OnlyGuest
  <2> QED
    BY <2>3 DEF Box!Next
<1> QED
  BY <1>4, <1>5

LEMMA ExecRefines ==
  ASSUME NEW a \in Guests, IInv, Exec(a)
  PROVE  Box!Next
<1>1. /\ OnlyGuest(a) /\ gpc[a] = "apply" /\ gpc'[a] = "running" /\ lost' = lost
      /\ fate[a] = "none" /\ fate'[a] = "ran"
  BY DEF Exec, GuestGoto, OnlyGuest, hostVars, IInv, TypeOK, Sound, History, PreExec
<1>2. /\ hpc[a] \in Working \cup {"err", "gone"}
      /\ hpc[a] = "err" => "io" \in faults[a]
  BY <1>1 DEF IInv, TypeOK, Sound, Fresh, InPipe, Refused, HostState, Working, PreExec,
     Spawning, Failing, Handle
<1>3. callOf' = callOf /\ troubleOf' = troubleOf
  BY <1>1, <1>2, CallSame, TroubleSame DEF OnlyGuest
<1>4. progOf' = [progOf EXCEPT ![a] = "running"] /\ progOf[a] = "none"
  BY <1>1, ProgUpdate, ProgStages, NextProgStages
<1>5. callOf[a] \in {"starting", "lost", "gone"}
  BY <1>2, CallStages DEF Misled
<1>6. Box!Start(a)
  BY <1>1, <1>3, <1>4, <1>5 DEF Box!Start, OnlyGuest
<1> QED
  BY <1>6 DEF Box!Next

LEMMA FailsRefines ==
  ASSUME NEW a \in Guests, IInv, Fails(a)
  PROVE  Box!Next
<1>1. /\ OnlyGuest(a) /\ gpc[a] \in PreExec /\ gpc'[a] = "exiting"
      /\ fate[a] = "none" /\ fate'[a] \in {"setup_failed", "exec_failed"}
      /\ lost[a] \subseteq lost'[a]
  <2>1. PICK step \in {"setup", "exec"} : Report(a, step, "err")
    BY FailingGuest
  <2>2. PICK f \in {"setup_failed", "exec_failed"} : fate' = [fate EXCEPT ![a] = f]
    BY FailingGuest
  <2>3. /\ gpc[a] \in PreExec /\ gpc' = [gpc EXCEPT ![a] = "exiting"]
        /\ UNCHANGED <<hostAlive, hpc, faults>>
    BY FailingGuest DEF PreExec, hostVars
  <2>4. /\ \A h \in Guests \ {a} : lost'[h] = lost[h]
        /\ lost[a] \subseteq lost'[a]
    BY <2>1 DEF Report, IInv, TypeOK
  <2> QED
    BY <2>2, <2>3, <2>4 DEF OnlyGuest, IInv, TypeOK, Sound, History
<1>2. callOf' = callOf /\ callOf[a] # "idle"
  BY <1>1, CallSame, CallBegun DEF PreExec
<1>3. progOf' = [progOf EXCEPT ![a] = "failed"] /\ progOf[a] = "none"
  BY <1>1, ProgUpdate, ProgStages, NextProgStages DEF PreExec
<1>4. /\ troubleOf' = [troubleOf EXCEPT ![a] = troubleOf'[a]]
      /\ troubleOf'[a] \in {troubleOf[a], TRUE}
  <2>1. troubleOf' = [troubleOf EXCEPT ![a] = troubleOf'[a]]
    BY <1>1, TroubleUpdate DEF OnlyGuest
  <2>2. troubleOf'[a] \in {troubleOf[a], TRUE}
    BY <1>1 DEF troubleOf, OnlyGuest
  <2> QED
    BY <2>1, <2>2
<1>5. Box!Fail(a)
  BY <1>1, <1>2, <1>3, <1>4 DEF Box!Fail, OnlyGuest
<1> QED
  BY <1>5 DEF Box!Next

LEMMA HostDiesRefines ==
  ASSUME IInv, HostDies
  PROVE  Box!Next
<1>1. /\ hostAlive /\ hostAlive' = FALSE /\ progOf' = progOf
      /\ UNCHANGED <<fate, lost, faults>>
  BY ProgSame DEF HostDies, guestVars
<1>2. ASSUME NEW g \in Guests
      PROVE  callOf'[g] = IF callOf[g] \in {"starting", "ok"} THEN "gone" ELSE callOf[g]
  <2>1. hpc'[g] = IF hpc[g] \in {"idle", "err", "closed"} THEN hpc[g] ELSE "gone"
    BY DEF HostDies
  <2>2. hpc[g] \in {"idle", "err", "closed", "ok", "gone"} \cup Working \cup Held
    BY DEF IInv, TypeOK, HostState, Working, Held
  <2>3. CASE hpc[g] \in {"err", "closed"}
    <3>1. Misled(g)' <=> Misled(g)
      BY <1>1, <2>1, <2>3 DEF Misled
    <3> QED
      BY <2>1, <2>3, <3>1, CallStages, NextCallStages
  <2>4. CASE hpc[g] \notin {"err", "closed"}
    BY <2>1, <2>2, <2>4, CallStages, NextCallStages
       DEF Working, Held, Spawning, Failing, Handle
  <2> QED
    BY <2>3, <2>4
<1>3. callOf' = [g \in Guests |->
                   IF callOf[g] \in {"starting", "ok"} THEN "gone" ELSE callOf[g]]
  BY <1>2 DEF callOf
<1>4. troubleOf' = troubleOf
  BY <1>1, TroubleSame
<1>5. Box!HostDies
  BY <1>1, <1>3, <1>4 DEF Box!HostDies
<1> QED
  BY <1>5 DEF Box!Next

LEMMA AnswerRefines ==
  ASSUME NEW a \in Guests, OnlyCall(a), hostAlive, troubleOf' = troubleOf,
         NEW from, NEW to, callOf[a] \in from, callOf'[a] = to
  PROVE  Box!Answer(a, from, to)
  BY CallUpdate, ProgSame DEF Box!Answer, OnlyCall

LEMMA BeginRefines ==
  ASSUME NEW a \in Guests, IInv, OpenPipe(a) \/ PreSpawnFails(a)
  PROVE  [Box!Next]_(Box!vars)
<1>1. /\ OnlyCall(a) /\ hostAlive /\ faults' = faults
      /\ hpc[a] \in {"idle", "piped"} /\ hpc'[a] \in {"piped", "teardown"}
  BY DEF OpenPipe, PreSpawnFails, Goto, OnlyCall, guestVars, IInv, TypeOK
<1>2. CASE hpc[a] = "idle"
  <2>1. callOf[a] = "idle" /\ callOf'[a] = "starting"
    BY <1>1, <1>2, CallStages, NextCallStages DEF Working, Spawning, Failing
  <2>2. troubleOf' = troubleOf
    BY <1>1, TroubleSame DEF OnlyCall
  <2>3. Box!Begin(a)
    BY <1>1, <2>1, <2>2, AnswerRefines DEF Box!Begin
  <2> QED
    BY <2>3 DEF Box!Next
<1>3. CASE hpc[a] = "piped"
  BY <1>1, <1>3, HiddenCall DEF Working, Spawning, Failing
<1> QED
  BY <1>1, <1>2, <1>3

LEMMA ReadExecRefines ==
  ASSUME NEW a \in Guests, IInv, IInv', ReadExec(a)
  PROVE  [Box!Next]_(Box!vars)
<1>1. /\ OnlyCall(a) /\ hostAlive /\ faults' = faults
      /\ hpc[a] = "read2" /\ hpc'[a] \in {"ok", "failing"}
  BY DEF ReadExec, Goto, OnlyCall, guestVars, IInv, TypeOK
<1>2. CASE hpc'[a] = "ok"
  <2>1. /\ gpc[a] \in {"running", "dead"} /\ fate[a] # "setup_failed"
        /\ fate[a] = "exec_failed" => "exec" \in lost[a]
    BY <1>1, <1>2 DEF IInv, Sound, InPipe, Handle, OnlyCall
  <2>2. progOf[a] # "none"
    BY <2>1, ProgStages DEF IInv, TypeOK, Sound, History
  <2>3. progOf[a] = "failed" => troubleOf[a]
    <3>1. progOf[a] = "failed" => fate[a] = "exec_failed"
      BY <2>1, ProgStages DEF IInv, TypeOK
    <3> QED
      BY <2>1, <3>1 DEF troubleOf
  <2>4. callOf[a] = "starting" /\ callOf'[a] = "ok"
    BY <1>1, <1>2, CallStages, NextCallStages DEF Working, Spawning
  <2>5. troubleOf' = troubleOf
    BY <1>1, TroubleSame DEF OnlyCall
  <2>6. Box!Answer(a, {"starting"}, "ok")
    BY <1>1, <2>4, <2>5, AnswerRefines
  <2>7. Box!ReturnOk(a)
    BY <2>2, <2>3, <2>6 DEF Box!ReturnOk
  <2> QED
    BY <2>7 DEF Box!Next
<1>3. CASE hpc'[a] = "failing"
  BY <1>1, <1>3, HiddenCall DEF Working, Spawning, Failing
<1> QED
  BY <1>1, <1>2, <1>3

LEMMA GuardTearsDownRefines ==
  ASSUME NEW a \in Guests, IInv, IInv', GuardTearsDown(a)
  PROVE  Box!Next
<1>1. /\ OnlyCall(a) /\ hostAlive
      /\ hpc[a] = "teardown" /\ hpc'[a] = "err"
      /\ faults' = faults \/ faults' = [faults EXCEPT ![a] = @ \cup {"stop"}]
  BY DEF GuardTearsDown, Teardown, StopUnit, Goto, OnlyCall, guestVars, IInv, TypeOK
<1>2. callOf[a] = "starting"
  BY <1>1, CallStages DEF Working, Failing
<1>3. faults'[a] \cap {"io", "handle"} = faults[a] \cap {"io", "handle"}
  BY <1>1 DEF IInv, TypeOK
<1>4. troubleOf' = troubleOf
  BY <1>1, <1>3, TroubleSame DEF OnlyCall
<1>5. CASE Misled(a)'
  <2>1. callOf'[a] = "lost"
    BY <1>1, <1>5, NextCallStages
  <2>2. "io" \in faults[a] \/ lost[a] # {}
    BY <1>1, <1>3, <1>5 DEF Misled, IInv, Sound, Refused, Failing, OnlyCall
  <2>3. troubleOf[a]
    BY <2>2 DEF troubleOf
  <2>4. Box!Answer(a, {"starting", "ok"}, "lost")
    BY <1>1, <1>2, <1>4, <2>1, AnswerRefines
  <2>5. Box!Lose(a)
    BY <2>3, <2>4 DEF Box!Lose
  <2> QED
    BY <2>5 DEF Box!Next
<1>6. CASE ~Misled(a)'
  <2>1. callOf'[a] = "err"
    BY <1>1, <1>6, NextCallStages
  <2>2. fate[a] # "ran"
    BY <1>1, <1>6 DEF Misled, OnlyCall
  <2>3. progOf[a] \in {"none", "failed", "gone"}
    BY <2>2, ProgStages DEF IInv, TypeOK
  <2>4. Box!ReturnErr(a)
    BY <1>1, <1>2, <1>4, <2>1, <2>3, AnswerRefines DEF Box!ReturnErr
  <2> QED
    BY <2>4 DEF Box!Next
<1> QED
  BY <1>5, <1>6

LEMMA EndDropRefines ==
  ASSUME NEW a \in Guests, IInv, EndDrop(a)
  PROVE  Box!Next
<1>1. /\ OnlyCall(a) /\ hostAlive
      /\ hpc[a] = "destroy" /\ hpc'[a] = "closed"
      /\ faults' = faults \/ faults' = [faults EXCEPT ![a] = @ \cup {"stop"}]
  BY DEF EndDrop, RunDestructor, Teardown, StopUnit, Goto, OnlyCall, guestVars, IInv,
     TypeOK
<1>2. callOf[a] = "ok"
  BY <1>1, CallStages DEF Held, Handle
<1>3. faults'[a] \cap {"io", "handle"} = faults[a] \cap {"io", "handle"}
  BY <1>1 DEF IInv, TypeOK
<1>4. troubleOf' = troubleOf
  BY <1>1, <1>3, TroubleSame DEF OnlyCall
<1>5. CASE "handle" \in faults[a]
  <2>1. Misled(a)'
    BY <1>1, <1>3, <1>5 DEF Misled
  <2>2. callOf'[a] = "lost"
    BY <1>1, <2>1, NextCallStages
  <2>3. troubleOf[a]
    BY <1>5 DEF troubleOf
  <2>4. Box!Answer(a, {"starting", "ok"}, "lost")
    BY <1>1, <1>2, <1>4, <2>2, AnswerRefines
  <2>5. Box!Lose(a)
    BY <2>3, <2>4 DEF Box!Lose
  <2> QED
    BY <2>5 DEF Box!Next
<1>6. CASE "handle" \notin faults[a]
  <2>1. ~Misled(a)'
    BY <1>1, <1>3, <1>6 DEF Misled
  <2>2. callOf'[a] = "closed"
    BY <1>1, <2>1, NextCallStages
  <2>3. gpc[a] = "dead"
    BY <1>1, <1>6 DEF IInv, Sound, Destructible
  <2>4. progOf[a] \in {"failed", "ended", "gone"}
    BY <2>3, ProgStages DEF IInv, TypeOK
  <2>5. Box!Close(a)
    BY <1>1, <1>2, <1>4, <2>2, <2>4, AnswerRefines DEF Box!Close
  <2> QED
    BY <2>5 DEF Box!Next
<1> QED
  BY <1>5, <1>6

-----------------------------------------------------------------------------
LEMMA RefinesInit == Init => Box!Init
<1> SUFFICES ASSUME Init PROVE Box!Init
  OBVIOUS
<1>1. \A g \in Guests : callOf[g] = "idle" /\ progOf[g] = "none"
  BY CallStages, ProgStages DEF Init
<1>2. /\ callOf = [g \in Guests |-> callOf[g]]
      /\ progOf = [g \in Guests |-> progOf[g]]
  BY DEF callOf, progOf
<1>3. troubleOf = [g \in Guests |-> FALSE]
  BY DEF Init, troubleOf
<1> QED
  BY <1>1, <1>2, <1>3 DEF Init, Box!Init

LEMMA RefinesStep == IInv /\ IInv' /\ [Next]_vars => [Box!Next]_(Box!vars)
<1> SUFFICES ASSUME IInv, IInv', [Next]_vars PROVE [Box!Next]_(Box!vars)
  OBVIOUS
<1>s. CASE UNCHANGED vars
  BY <1>s DEF vars, hostVars, guestVars, Box!vars, callOf, Misled, progOf, troubleOf
<1>h. CASE HostDies
  BY <1>h, HostDiesRefines
<1>1. ASSUME NEW a \in Guests, OpenPipe(a) \/ PreSpawnFails(a)
      PROVE  [Box!Next]_(Box!vars)
  BY <1>1, BeginRefines
<1>2. ASSUME NEW a \in Guests, ReadExec(a) PROVE [Box!Next]_(Box!vars)
  BY <1>2, ReadExecRefines
<1>3. ASSUME NEW a \in Guests, GuardTearsDown(a) PROVE [Box!Next]_(Box!vars)
  BY <1>3, GuardTearsDownRefines
<1>4. ASSUME NEW a \in Guests, EndDrop(a) PROVE [Box!Next]_(Box!vars)
  BY <1>4, EndDropRefines
<1>5. ASSUME NEW a \in Guests, Clone(a) PROVE [Box!Next]_(Box!vars)
  <2>1. progOf' = progOf
    <3>1. /\ gpc[a] = "none" /\ fate[a] = "none" /\ gpc'[a] = "hook"
          /\ \A h \in Guests \ {a} : gpc'[h] = gpc[h]
          /\ fate' = fate
      BY <1>5 DEF Clone, Goto, IInv, TypeOK, Sound, Fresh
    <3>2. \A h \in Guests : progOf'[h] = progOf[h]
      BY <3>1 DEF progOf
    <3> QED
      BY <3>2 DEF progOf
  <2>2. callOf' = callOf
    <3>1. /\ hpc[a] \in Working /\ hpc'[a] \in Working
          /\ \A h \in Guests \ {a} : hpc'[h] = hpc[h]
          /\ UNCHANGED <<faults, fate>>
      BY <1>5 DEF Clone, Goto, IInv, TypeOK, Working, Spawning
    <3>2. callOf'[a] = callOf[a]
      BY <3>1, CallStages, NextCallStages
    <3>3. \A h \in Guests \ {a} : callOf'[h] = callOf[h]
      BY <3>1 DEF callOf, Misled
    <3> QED
      BY <3>2, <3>3 DEF callOf
  <2>3. troubleOf' = troubleOf
    BY <1>5, TroubleSame DEF Clone
  <2> QED
    BY <1>5, <2>1, <2>2, <2>3 DEF Clone, Box!vars
<1>6. ASSUME NEW a \in Guests, ClosePipe(a) PROVE [Box!Next]_(Box!vars)
  <2>1. OnlyCall(a) /\ faults[a] \subseteq faults'[a]
    BY <1>6 DEF ClosePipe, Goto, OnlyCall, guestVars, IInv, TypeOK
  <2>2. hpc[a] \in Working /\ hpc'[a] \in Working
    BY <1>6 DEF ClosePipe, Goto, Working, Spawning, Failing, IInv, TypeOK
  <2> QED
    BY <2>1, <2>2, HiddenCall
<1>7. ASSUME NEW a \in Guests, NoHook(a) PROVE [Box!Next]_(Box!vars)
  <2>1. OnlyCall(a) /\ faults[a] \subseteq faults'[a]
    BY <1>7 DEF NoHook, Goto, OnlyCall, guestVars, IInv, TypeOK
  <2>2. hpc[a] \in Working /\ hpc'[a] \in Working
    BY <1>7 DEF NoHook, Goto, Working, Spawning, Failing, IInv, TypeOK
  <2> QED
    BY <2>1, <2>2, HiddenCall
<1>8. ASSUME NEW a \in Guests, ConnectFails(a) PROVE [Box!Next]_(Box!vars)
  <2>1. OnlyCall(a) /\ faults[a] \subseteq faults'[a]
    BY <1>8 DEF ConnectFails, Goto, OnlyCall, guestVars, IInv, TypeOK
  <2>2. hpc[a] \in Working /\ hpc'[a] \in Working
    BY <1>8 DEF ConnectFails, Goto, Working, Spawning, Failing, IInv, TypeOK
  <2> QED
    BY <2>1, <2>2, HiddenCall
<1>9. ASSUME NEW a \in Guests, StartUnit(a) PROVE [Box!Next]_(Box!vars)
  <2>1. OnlyCall(a) /\ faults[a] \subseteq faults'[a]
    BY <1>9 DEF StartUnit, Goto, OnlyCall, guestVars, IInv, TypeOK
  <2>2. hpc[a] \in Working /\ hpc'[a] \in Working
    BY <1>9 DEF StartUnit, Goto, Working, Spawning, Failing, IInv, TypeOK
  <2> QED
    BY <2>1, <2>2, HiddenCall
<1>10. ASSUME NEW a \in Guests, AwaitJob(a) PROVE [Box!Next]_(Box!vars)
  <2>1. OnlyCall(a) /\ faults[a] \subseteq faults'[a]
    BY <1>10 DEF AwaitJob, cgroupVars, Goto, OnlyCall, guestVars, IInv, TypeOK
  <2>2. hpc[a] \in Working /\ hpc'[a] \in Working
    BY <1>10 DEF AwaitJob, cgroupVars, Goto, Working, Spawning, Failing, IInv, TypeOK
  <2> QED
    BY <2>1, <2>2, HiddenCall
<1>11. ASSUME NEW a \in Guests, PopulateCgroup(a) PROVE [Box!Next]_(Box!vars)
  <2>1. OnlyCall(a) /\ faults[a] \subseteq faults'[a]
    BY <1>11 DEF PopulateCgroup, Goto, OnlyCall, guestVars, IInv, TypeOK
  <2>2. hpc[a] \in Working /\ hpc'[a] \in Working
    BY <1>11 DEF PopulateCgroup, Goto, Working, Spawning, Failing, IInv, TypeOK
  <2> QED
    BY <2>1, <2>2, HiddenCall
<1>12. ASSUME NEW a \in Guests, Release(a) PROVE [Box!Next]_(Box!vars)
  <2>1. OnlyCall(a) /\ faults[a] \subseteq faults'[a]
    BY <1>12 DEF Release, Fault, Goto, OnlyCall, guestVars, IInv, TypeOK
  <2>2. hpc[a] \in Working /\ hpc'[a] \in Working
    BY <1>12 DEF Release, Fault, Goto, Working, Spawning, Failing, IInv, TypeOK
  <2> QED
    BY <2>1, <2>2, HiddenCall
<1>13. ASSUME NEW a \in Guests, GuardStopsUnit(a) PROVE [Box!Next]_(Box!vars)
  <2>1. OnlyCall(a) /\ faults[a] \subseteq faults'[a]
    BY <1>13 DEF GuardStopsUnit, StopUnit, Goto, OnlyCall, guestVars, IInv, TypeOK
  <2>2. hpc[a] \in Working /\ hpc'[a] \in Working
    BY <1>13 DEF GuardStopsUnit, StopUnit, Goto, Working, Spawning, Failing, IInv, TypeOK
  <2> QED
    BY <2>1, <2>2, HiddenCall
<1>14. ASSUME NEW a \in Guests, ReadSetup(a) PROVE [Box!Next]_(Box!vars)
  <2>1. OnlyCall(a) /\ faults[a] \subseteq faults'[a]
    BY <1>14 DEF ReadSetup, Goto, OnlyCall, guestVars, IInv, TypeOK
  <2>2. hpc[a] \in Working /\ hpc'[a] \in Working
    BY <1>14 DEF ReadSetup, Goto, Working, Spawning, Failing, IInv, TypeOK
  <2> QED
    BY <2>1, <2>2, HiddenCall
<1>15. ASSUME NEW a \in Guests, HostIoFails(a) PROVE [Box!Next]_(Box!vars)
  <2>1. OnlyCall(a) /\ faults[a] \subseteq faults'[a]
    BY <1>15 DEF HostIoFails, Fault, Goto, OnlyCall, guestVars, IInv, TypeOK
  <2>2. hpc[a] \in Working /\ hpc'[a] \in Working
    BY <1>15 DEF HostIoFails, Fault, Goto, Working, Spawning, Failing, IInv, TypeOK
  <2> QED
    BY <2>1, <2>2, HiddenCall
<1>16. ASSUME NEW a \in Guests, DropPidfd(a) PROVE [Box!Next]_(Box!vars)
  <2>1. OnlyCall(a) /\ faults[a] \subseteq faults'[a]
    BY <1>16 DEF DropPidfd, Goto, OnlyCall, guestVars, IInv, TypeOK
  <2>2. hpc[a] \in Working /\ hpc'[a] \in Working
    BY <1>16 DEF DropPidfd, Goto, Working, Spawning, Failing, IInv, TypeOK
  <2> QED
    BY <2>1, <2>2, HiddenCall
<1>17. ASSUME NEW a \in Guests, Terminate(a) PROVE [Box!Next]_(Box!vars)
  <2>1. OnlyCall(a) /\ faults[a] \subseteq faults'[a]
    BY <1>17 DEF Terminate, Signal, Fault, Goto, OnlyCall, guestVars, IInv, TypeOK
  <2>2. hpc[a] \in Held \cup {"ok"} /\ hpc'[a] \in Held \cup {"ok"}
    BY <1>17 DEF Terminate, Signal, Fault, Goto, Held, Handle, IInv, TypeOK
  <2> QED
    BY <2>1, <2>2, HiddenCall
<1>18. ASSUME NEW a \in Guests, DropHandle(a) PROVE [Box!Next]_(Box!vars)
  <2>1. OnlyCall(a) /\ faults[a] \subseteq faults'[a]
    BY <1>18 DEF DropHandle, Signal, Fault, Goto, OnlyCall, guestVars, IInv, TypeOK
  <2>2. hpc[a] \in Held \cup {"ok"} /\ hpc'[a] \in Held \cup {"ok"}
    BY <1>18 DEF DropHandle, Signal, Fault, Goto, Held, Handle, IInv, TypeOK
  <2> QED
    BY <2>1, <2>2, HiddenCall
<1>19. ASSUME NEW a \in Guests, Wait(a) PROVE [Box!Next]_(Box!vars)
  <2>1. OnlyCall(a) /\ faults[a] \subseteq faults'[a]
    BY <1>19 DEF Wait, Fault, Goto, OnlyCall, guestVars, IInv, TypeOK
  <2>2. hpc[a] \in Held \cup {"ok"} /\ hpc'[a] \in Held \cup {"ok"}
    BY <1>19 DEF Wait, Fault, Goto, Held, Handle, IInv, TypeOK
  <2> QED
    BY <2>1, <2>2, HiddenCall
<1>20. ASSUME NEW a \in Guests, EndTerminate(a) PROVE [Box!Next]_(Box!vars)
  <2>1. OnlyCall(a) /\ faults[a] \subseteq faults'[a]
    BY <1>20 DEF EndTerminate, RunDestructor, Teardown, StopUnit, Goto, OnlyCall, guestVars, IInv, TypeOK
  <2>2. hpc[a] \in Held \cup {"ok"} /\ hpc'[a] \in Held \cup {"ok"}
    BY <1>20 DEF EndTerminate, RunDestructor, Teardown, StopUnit, Goto, Held, Handle, IInv, TypeOK
  <2> QED
    BY <2>1, <2>2, HiddenCall
<1>21. ASSUME NEW a \in Guests, LeaveHook(a) PROVE [Box!Next]_(Box!vars)
  <2>1. /\ OnlyGuest(a) /\ fate' = fate /\ lost[a] \subseteq lost'[a]
        /\ gpc[a] \in PreExec /\ gpc'[a] \in PreExec \cup {"exiting"}
    BY <1>21 DEF LeaveHook, GuestGoto, OnlyGuest, hostVars, PreExec, IInv, TypeOK
  <2> QED
    BY <2>1, HiddenGuest DEF PreExec
<1>22. ASSUME NEW a \in Guests, SetupDone(a) PROVE [Box!Next]_(Box!vars)
  <2>1. /\ OnlyGuest(a) /\ fate' = fate /\ lost[a] \subseteq lost'[a]
        /\ gpc[a] \in PreExec /\ gpc'[a] \in PreExec \cup {"exiting"}
    BY <1>22 DEF SetupDone, Report, GuestGoto, OnlyGuest, hostVars, PreExec, IInv, TypeOK
  <2> QED
    BY <2>1, HiddenGuest DEF PreExec
<1>23. ASSUME NEW a \in Guests, ExitAction(a) PROVE [Box!Next]_(Box!vars)
  <2>1. /\ OnlyGuest(a) /\ fate' = fate /\ lost[a] \subseteq lost'[a]
        /\ gpc[a] \in PreExec /\ gpc'[a] \in PreExec \cup {"exiting"}
    BY <1>23 DEF ExitAction, GuestGoto, OnlyGuest, hostVars, PreExec, IInv, TypeOK
  <2> QED
    BY <2>1, HiddenGuest DEF PreExec
<1>24. ASSUME NEW a \in Guests, Fails(a) PROVE [Box!Next]_(Box!vars)
  BY <1>24, FailsRefines
<1>25. ASSUME NEW a \in Guests, Exec(a) PROVE [Box!Next]_(Box!vars)
  BY <1>25, ExecRefines
<1>26. ASSUME NEW a \in Guests, Exits(a) \/ GuestKilled(a) \/ Crashes(a)
      PROVE  [Box!Next]_(Box!vars)
  BY <1>26, EndRefines DEF Exits, GuestKilled, Crashes, Alive
<1>27. ASSUME NEW a \in Guests, SystemdStep(a) PROVE [Box!Next]_(Box!vars)
  BY <1>27 DEF SystemdStep, JobRuns, UnitCollected, hostVars, guestVars, Box!vars,
     callOf, Misled, progOf, troubleOf
<1> QED
  BY <1>s, <1>h, <1>1, <1>2, <1>3, <1>4, <1>5, <1>6, <1>7, <1>8, <1>9, <1>10,
     <1>11, <1>12, <1>13, <1>14, <1>15, <1>16, <1>17, <1>18, <1>19, <1>20, <1>21,
     <1>22, <1>23, <1>24, <1>25, <1>26, <1>27
     DEF Next, HostStep, GuestStep

\* What callers are promised holds of the protocol: whatever calls, guests and
\* faults do, the answers of clone_into and the lives of the programs are
\* those of some behaviour of Sandbox.
THEOREM ImplementsSandboxSafety == Safety => Box!Safety
  BY Invariance, RefinesInit, RefinesStep, PTL DEF Safety, Box!Safety

=============================================================================

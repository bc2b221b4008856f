---------------------------- MODULE StatusChannel ----------------------------
(***************************************************************************)
(* The status pipe byte by byte: clone_into in the guest, which reports    *)
(* the set-up and then, if execveat or what precedes it fails, that too;   *)
(* write_all and read_array over interrupted, failed and short transfers;  *)
(* and host_post_clone, which takes an end of file at the second read for  *)
(* success.  Spawn has the life of the guest and the pipe's other holders; *)
(* there a report is one step.                                             *)
(***************************************************************************)
EXTENDS ErrorWire

CONSTANTS
  SetupErrors,  \* errors that guest_post_clone returns
  ExecErrors,   \* errors of what follows it
  PipeBuf       \* the kernel writes up to PIPE_BUF bytes at once or not at all

ASSUME PipeBufAssumption == PipeBuf \in Nat /\ PipeBuf >= MessageSize

ASSUME ErrorsAssumption == \A r \in SetupErrors \cup ExecErrors : IsError(r)

VARIABLES
  guest,    \* the guest's step
  reports,  \* what the guest has reported so far, its last report maybe in part
  lost,     \* the reports of which some part could not be written
  out,      \* bytes write_all has left
  pipe,     \* bytes in the pipe
  host,     \* the host's step
  buf,      \* bytes read_array has
  answer    \* what host_post_clone returns

vars == <<guest, reports, lost, out, pipe, host, buf, answer>>

NoAnswer == <<"None", "", 0>>
\* PostSpawnHostError::PartialTransfer, with the number of bytes and with or
\* without an error
PartialTransfer(n, error) == <<"PartialTransfer", error, n>>

MinOf(a, b) == IF a <= b THEN a ELSE b

Alive == {"setup", "write_setup", "action", "write_exec"}

(***************************************************************************)
(* The guest.                                                              *)
(***************************************************************************)
Report(r, to) ==
  /\ reports' = Append(reports, r)
  /\ out' = BytesOf(Encode(r))
  /\ guest' = to
  /\ UNCHANGED <<lost, pipe, host, buf, answer>>

FinishSetup ==
  guest = "setup" /\ \E r \in SetupErrors \cup {Ok} : Report(r, "write_setup")

FailExec ==
  guest = "action" /\ \E r \in ExecErrors : Report(r, "write_exec")

\* write(2) on the pipe takes a message whole; longer ones it may cut.  EINTR is
\* retried, here and in read_array, and changes nothing.
Taken == IF Len(out) <= PipeBuf THEN {Len(out)} ELSE 1 .. Len(out)

Write ==
  /\ guest \in {"write_setup", "write_exec"} /\ out # <<>>
  /\ \E n \in Taken :
       /\ pipe' = pipe \o SubSeq(out, 1, n)
       /\ out' = SubSeq(out, n + 1, Len(out))
  /\ UNCHANGED <<guest, reports, lost, host, buf, answer>>

\* write_all ends at an error and at a write of nothing.  "if this errors we
\* can't really do anything, just continue".
WriteFails ==
  /\ guest \in {"write_setup", "write_exec"} /\ out # <<>>
  /\ out' = <<>> /\ lost' = lost \cup {Len(reports)}
  /\ UNCHANGED <<guest, reports, pipe, host, buf, answer>>

\* After a set-up error the guest exits, after the report of an execveat too.
Continue ==
  /\ out = <<>>
  /\ \/ guest = "write_setup" /\ reports[1] = Ok /\ guest' = "action"
     \/ guest = "write_setup" /\ reports[1] # Ok /\ guest' = "exited"
     \/ guest = "write_exec" /\ guest' = "exited"
  /\ UNCHANGED <<reports, lost, out, pipe, host, buf, answer>>

\* execveat closes the pipe, which is close-on-exec, and the action may be
\* to exit.
Exec ==
  /\ guest = "action" /\ guest' \in {"program", "exited"}
  /\ UNCHANGED <<reports, lost, out, pipe, host, buf, answer>>

\* A guest can be killed at any point; what it had not written is lost.
Die ==
  /\ guest \in Alive /\ guest' = "exited"
  /\ lost' = IF out = <<>> THEN lost ELSE lost \cup {Len(reports)}
  /\ out' = <<>>
  /\ UNCHANGED <<reports, pipe, host, buf, answer>>

(***************************************************************************)
(* The host.                                                               *)
(***************************************************************************)
Reading == host \in {"read_setup", "read_exec"} /\ Len(buf) < MessageSize

Read ==
  /\ Reading /\ pipe # <<>>
  /\ \E n \in 1 .. MinOf(Len(pipe), MessageSize - Len(buf)) :
       /\ buf' = buf \o SubSeq(pipe, 1, n)
       /\ pipe' = SubSeq(pipe, n + 1, Len(pipe))
  /\ UNCHANGED <<guest, reports, lost, out, host, answer>>

Return(a) ==
  /\ answer' = a /\ host' = "done"
  /\ UNCHANGED <<guest, reports, lost, out, pipe, buf>>

ReadFails == Reading /\ Return(PartialTransfer(Len(buf), "error"))

EndOfFile ==
  /\ Reading /\ pipe = <<>> /\ guest \notin Alive
  /\ Return(IF host = "read_exec" /\ buf = <<>> THEN Ok
            ELSE PartialTransfer(Len(buf), ""))

\* The first message, if it is a success, makes the host read a second one.
Interpret ==
  /\ host \in {"read_setup", "read_exec"} /\ Len(buf) = MessageSize
  /\ LET r == Decode(FromBytes(buf))
     IN IF r = Ok /\ host = "read_setup"
        THEN /\ host' = "read_exec" /\ buf' = <<>>
             /\ UNCHANGED <<guest, reports, lost, out, pipe, answer>>
        ELSE Return(r)

Init ==
  /\ guest = "setup" /\ reports = <<>> /\ lost = {} /\ out = <<>> /\ pipe = <<>>
  /\ host = "read_setup" /\ buf = <<>> /\ answer = NoAnswer

Next ==
  \/ FinishSetup \/ FailExec \/ Write \/ WriteFails \/ Continue \/ Exec \/ Die
  \/ Read \/ ReadFails \/ EndOfFile \/ Interpret

Spec == Init /\ [][Next]_vars

-----------------------------------------------------------------------------
\* What the caller is told is what happened: an error of the guest is its last
\* report, word for word, and its program does not run; success means that the
\* set-up was reported as done and no complaint about execveat was written;
\* and a transfer is cut short only by an error or by a report that never
\* reached the pipe.
HostLearnsOutcome ==
  host = "done" =>
    \/ /\ answer = Ok
       /\ reports[1] = Ok /\ 1 \notin lost /\ guest \notin Alive
       /\ Len(reports) = 2 => 2 \in lost
    \/ /\ answer # Ok /\ answer[1] # "PartialTransfer"
       /\ reports # <<>> /\ Len(reports) \notin lost
       /\ reports[Len(reports)] # Ok
       /\ answer = Understood(reports[Len(reports)])
       /\ guest # "program"
    \/ answer[1] = "PartialTransfer" /\ answer[2] = "error"
    \/ /\ answer = PartialTransfer(0, "")
       /\ guest \notin Alive
       /\ reports = <<>> \/ 1 \in lost

=============================================================================

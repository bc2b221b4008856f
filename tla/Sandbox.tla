------------------------------ MODULE Sandbox ------------------------------
(***************************************************************************)
(* What the bubblebox crate promises of a spawned program, with none of    *)
(* the machinery: the caller asks for a sandboxed program, the request     *)
(* answers, and the program's life is tied to the answer, to the handle    *)
(* and to the host process.  Spawn.tla implements this specification.      *)
(***************************************************************************)
CONSTANT Guests   \* the spawn requests, each with the program it is for

VARIABLES
  host,   \* is the host process alive
  call,   \* call[g]: what the caller knows of request g
  prog,   \* prog[g]: the program of request g
  trouble \* trouble[g]: has what lies between caller and program failed itself

vars == <<host, call, prog, trouble>>

(***************************************************************************)
(* "lost" is the answer of a request whose outcome the host could not      *)
(* learn (its own I/O failed, or a report of the guest never reached it):  *)
(* the caller holds an error, and nothing is promised about whether the    *)
(* program started in the meantime.  "gone" is a request or a handle whose *)
(* host is dead.                                                           *)
(***************************************************************************)
CallState == {"idle", "starting", "ok", "err", "lost", "closed", "gone"}

(***************************************************************************)
(* A program that could not be set up or started is "failed", one that     *)
(* never started because it was killed first is "gone", and one that       *)
(* started and ended is "ended".                                           *)
(***************************************************************************)
ProgState == {"none", "failed", "running", "ended", "gone"}

TypeOK ==
  /\ host \in BOOLEAN
  /\ call \in [Guests -> CallState]
  /\ prog \in [Guests -> ProgState]
  /\ trouble \in [Guests -> BOOLEAN]

Init ==
  /\ host = TRUE
  /\ call = [g \in Guests |-> "idle"]
  /\ prog = [g \in Guests |-> "none"]
  /\ trouble = [g \in Guests |-> FALSE]

Answer(g, from, to) ==
  /\ host
  /\ call[g] \in from
  /\ call' = [call EXCEPT ![g] = to]
  /\ UNCHANGED <<host, prog, trouble>>

Begin(g) == Answer(g, {"idle"}, "starting")

\* Success is answered only once the program runs, or has run, or was killed
\* before it could; never for one that failed, unless there was trouble.
ReturnOk(g) ==
  /\ prog[g] # "none" /\ (prog[g] = "failed" => trouble[g])
  /\ Answer(g, {"starting"}, "ok")

\* An error is answered only if the program never ran.
ReturnErr(g) ==
  /\ prog[g] \in {"none", "failed", "gone"}
  /\ Answer(g, {"starting"}, "err")

Lose(g) == trouble[g] /\ Answer(g, {"starting", "ok"}, "lost")

\* A handle is closed only once the program is no more.
Close(g) ==
  prog[g] \in {"failed", "ended", "gone"} /\ Answer(g, {"ok"}, "closed")

Trouble(g) ==
  /\ call[g] # "idle"
  /\ trouble' = [trouble EXCEPT ![g] = TRUE]
  /\ UNCHANGED <<host, call, prog>>

\* A program starts only while its request is unanswered, lost or gone.
Start(g) ==
  /\ call[g] \in {"starting", "lost", "gone"}
  /\ prog[g] = "none"
  /\ prog' = [prog EXCEPT ![g] = "running"]
  /\ UNCHANGED <<host, call, trouble>>

\* A failure is reported, or there is trouble with the report.
Fail(g) ==
  /\ call[g] # "idle"
  /\ prog[g] = "none"
  /\ prog' = [prog EXCEPT ![g] = "failed"]
  /\ \E t \in {trouble[g], TRUE} : trouble' = [trouble EXCEPT ![g] = t]
  /\ UNCHANGED <<host, call>>

End(g) ==
  /\ \/ prog[g] = "running" /\ prog' = [prog EXCEPT ![g] = "ended"]
     \/ prog[g] = "none" /\ prog' = [prog EXCEPT ![g] = "gone"]
  /\ call[g] # "idle"
  /\ UNCHANGED <<host, call, trouble>>

HostDies ==
  /\ host
  /\ host' = FALSE
  /\ call' = [g \in Guests |->
                IF call[g] \in {"starting", "ok"} THEN "gone" ELSE call[g]]
  /\ UNCHANGED <<prog, trouble>>

Next ==
  \/ HostDies
  \/ \E g \in Guests :
       \/ Begin(g) \/ ReturnOk(g) \/ ReturnErr(g) \/ Lose(g) \/ Close(g)
       \/ Trouble(g) \/ Start(g) \/ Fail(g) \/ End(g)

\* A request is answered as long as the host lives.
Return(g) == call[g] = "starting" /\ (ReturnOk(g) \/ ReturnErr(g) \/ Lose(g))

\* A program that runs without a handle or without a host is stopped.
Stop(g) == prog[g] = "running" /\ call[g] \in {"lost", "closed", "gone"} /\ End(g)

Safety == Init /\ [][Next]_vars

Fairness == \A g \in Guests : WF_vars(Return(g)) /\ WF_vars(Stop(g))

Spec == Safety /\ Fairness
=============================================================================

--------------------------- MODULE DockerSandbox ---------------------------
(***************************************************************************)
(* DockerSandbox.run_python (tools/docker_sandbox.py): a timer around      *)
(* communicate() and a temporary directory that the call deletes when it   *)
(* leaves.  What the call starts is a client, `docker run`; the client     *)
(* asks the daemon for the container, and it is the container that mounts  *)
(* the directory and runs the code.  The call has a hold on the client     *)
(* only.                                                                   *)
(***************************************************************************)
VARIABLES
    sandbox,   \* the await of the call, or how it ended
    client,    \* the docker run process: "none", "alive", "exited", "killed"
    container, \* "none", "asked" for, "alive" or "ended"
    timeout,   \* the timer of wait_for: "armed" or "fired"
    directory, \* the temporary directory exists
    abandoned  \* somebody cancelled the call

docker == <<client, container>>
sandboxVars == <<sandbox, docker, timeout, directory, abandoned>>

\* How a call ends: its result, a SandboxError, an exception nobody wraps, or
\* CancelledError.
SandboxOver == {"result", "timed_out", "unavailable", "raised", "cancelled"}

SandboxInit ==
    /\ sandbox = "idle"
    /\ client = "none"
    /\ container = "none"
    /\ timeout = "armed"
    /\ directory = FALSE
    /\ abandoned = FALSE

\* The with statement is left, by whatever way.
Leave(how) ==
    /\ sandbox' = how
    /\ directory' = FALSE

\* SIGKILL ends a client that has not ended, and the client alone.
KillClient == client' = IF client = "alive" THEN "killed" ELSE client

\* The client is started at once, or is not there to be started; what is
\* awaited is that its pipes are connected.
RunPython ==
    /\ sandbox = "idle"
    /\ \/ /\ client' = "alive"
          /\ sandbox' = "spawn"
          /\ directory' = TRUE
       \/ /\ Leave("unavailable")
          /\ UNCHANGED client
    /\ UNCHANGED <<container, timeout, abandoned>>

\* A client whose pipes cannot be connected is killed by asyncio.
Spawned ==
    /\ sandbox = "spawn" /\ ~abandoned
    /\ \/ /\ sandbox' = "communicate"
          /\ UNCHANGED <<client, directory>>
       \/ /\ Leave("unavailable")
          /\ KillClient
    /\ UNCHANGED <<container, timeout, abandoned>>

Communicated ==
    /\ sandbox = "communicate" /\ timeout = "armed" /\ ~abandoned
    /\ client = "exited"
    /\ Leave("result")
    /\ UNCHANGED <<docker, timeout, abandoned>>

\* The OSError of a pipe is taken for an engine that is not available.
CommunicateFails ==
    /\ sandbox = "communicate" /\ timeout = "armed" /\ ~abandoned
    /\ Leave("unavailable")
    /\ UNCHANGED <<docker, timeout, abandoned>>

TimeoutFires ==
    /\ sandbox = "communicate" /\ timeout = "armed"
    /\ timeout' = "fired"
    /\ UNCHANGED <<sandbox, docker, directory, abandoned>>

\* kill() raises ProcessLookupError if the client has exited and its pipes
\* are closed: inside an except clause, the next one does not catch it.
Kill_Forgotten ==
    /\ sandbox = "communicate" /\ timeout = "fired" /\ ~abandoned
    /\ Leave("timed_out")
    /\ UNCHANGED <<docker, timeout, abandoned>>
Kill ==
    /\ sandbox = "communicate" /\ timeout = "fired" /\ ~abandoned
    /\ \/ /\ KillClient
          /\ sandbox' = "wait"
          /\ UNCHANGED directory
       \/ /\ client = "exited"
          /\ Leave("raised")
          /\ UNCHANGED client
    /\ UNCHANGED <<container, timeout, abandoned>>

Waited ==
    /\ sandbox = "wait" /\ ~abandoned
    /\ Leave("timed_out")
    /\ UNCHANGED <<docker, timeout, abandoned>>

Abandon ==
    /\ sandbox \in {"spawn", "communicate", "wait"}
    /\ abandoned' = TRUE
    /\ UNCHANGED <<sandbox, docker, timeout, directory>>

\* CancelledError is no TimeoutError: the call kills nothing.  While the
\* client is being spawned, asyncio kills it.
CancelledLeaves ==
    /\ abandoned
    /\ sandbox \in {"spawn", "communicate", "wait"}
    /\ IF sandbox = "spawn" THEN KillClient ELSE UNCHANGED client
    /\ Leave("cancelled")
    /\ UNCHANGED <<container, timeout, abandoned>>

-----------------------------------------------------------------------------
(* Docker, which is external.  Its daemon starts what it was asked for,    *)
(* also when the client is gone; an attached client ends by itself only    *)
(* after its container, or without one.                                    *)

ClientAsks ==
    /\ client = "alive" /\ container = "none"
    /\ container' = "asked"
    /\ UNCHANGED <<sandbox, client, timeout, directory, abandoned>>

ContainerStarts ==
    /\ container = "asked"
    /\ container' \in {"alive", "ended"}
    /\ UNCHANGED <<sandbox, client, timeout, directory, abandoned>>

ContainerEnds ==
    /\ container = "alive"
    /\ container' = "ended"
    /\ UNCHANGED <<sandbox, client, timeout, directory, abandoned>>

ClientExits ==
    /\ client = "alive"
    /\ container \in {"none", "ended"}
    /\ client' = "exited"
    /\ UNCHANGED <<sandbox, container, timeout, directory, abandoned>>

SandboxNext ==
    \/ RunPython \/ Spawned \/ Communicated \/ CommunicateFails
    \/ TimeoutFires \/ Kill \/ Waited \/ Abandon \/ CancelledLeaves
    \/ ClientAsks \/ ContainerStarts \/ ContainerEnds \/ ClientExits

SandboxSpec == SandboxInit /\ [][SandboxNext]_sandboxVars

-----------------------------------------------------------------------------
(* Properties.                                                             *)

\* The container runs, or the daemon is still to start it.
Executing == container \in {"asked", "alive"}

\* What a call that is over, its directory deleted, may leave behind.  A
\* client: only if it was cancelled, or if a pipe failed before the deadline.
\* A container, which runs on without its directory: in the same cases, and
\* after the deadline, whose kill() reaches the client alone.  So a result,
\* and a kill() that came too late, are of code that has come to its end;
\* and "timed out" comes after the deadline, with the client gone.
LeftRunningHasCause ==
    /\ sandbox \in SandboxOver =>
          /\ ~directory
          /\ client = "alive" => \/ sandbox = "cancelled" /\ abandoned
                                 \/ sandbox = "unavailable" /\ timeout = "armed"
          /\ Executing => \/ sandbox = "cancelled" /\ abandoned
                          \/ sandbox = "unavailable" /\ timeout = "armed"
                          \/ sandbox = "timed_out" /\ client = "killed"
    /\ sandbox = "result" => client = "exited" /\ timeout = "armed"
    /\ sandbox \in {"timed_out", "raised"} =>
          client \in {"exited", "killed"} /\ timeout = "fired"

=============================================================================

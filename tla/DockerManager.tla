--------------------------- MODULE DockerManager ---------------------------
(***************************************************************************)
(* The instance containers as the Docker daemon holds them, and the calls  *)
(* orchestrator/app/docker_manager.py makes on them.  A container belongs  *)
(* to one uuid: its name and its label are made from it.                   *)
(*                                                                         *)
(* Every call runs in a worker thread (asyncio.to_thread), so each is a    *)
(* step of its own, and the caller sees its result in a later step.        *)
(* containers.run is two requests, create then start.                      *)
(*                                                                         *)
(* The daemon itself is external.  Faults names what may go wrong with it: *)
(*   "launch"   create or start fails, or the start's reply is lost        *)
(*   "poll"     a poll finds the daemon unreachable                        *)
(*   "swallow"  a removal fails with a DockerException, which is swallowed *)
(*              (an unreachable daemon, or another removal in progress)    *)
(*   "raise"    a removal ends in an exception that is not one (a timeout  *)
(*              of the HTTP transport), done or not                        *)
(*   "list"     the startup listing fails with a DockerException           *)
(***************************************************************************)
EXTENDS Registry

CONSTANT Faults

ASSUME FaultsAssumption ==
    Faults \subseteq {"launch", "poll", "swallow", "raise", "list"}

\* container[u]: "none" when the daemon has no container for u; "created" is
\* not started; "booting" runs the entrypoint and has no ready.json yet;
\* "ready" has it; "exited" has stopped (restart policy "no") and is kept.
VARIABLE container

DockerTypeOK ==
    container \in [Uuids -> {"none", "created", "booting", "ready", "exited"}]

DockerInit == container = [u \in Uuids |-> "none"]

Exists(u) == container[u] # "none"

\* A container whose processes run, and so one that takes INSTANCE_MEM.
Live(u) == container[u] \in {"booting", "ready"}

Becomes(u, c) == container' = [container EXCEPT ![u] = c]

-----------------------------------------------------------------------------
(* containers.run, in run_instance *)

create_container(u) == ~Exists(u) /\ Becomes(u, "created")

start_container(u) == container[u] = "created" /\ Becomes(u, "booting")

\* The start fails because the container is gone, or because of the daemon,
\* which leaves it created; or it succeeds and the reply is lost.
start_container_fails(u) ==
    \/ ~Exists(u) /\ UNCHANGED container
    \/ "launch" \in Faults /\ UNCHANGED container
    \/ "launch" \in Faults /\ start_container(u)

-----------------------------------------------------------------------------
(* read_ready and container_status *)

\* ready.json is there and can be read: exec works only in a running container.
read_ready(u) == container[u] = "ready"

\* Looking the container up fails otherwise than with NotFound.
read_ready_raises == "poll" \in Faults

\* The status is one of ("exited", "dead", None): the spawn gives up.
container_status_gone(u) == container[u] \in {"none", "exited"} \/ "poll" \in Faults

\* The status is "created" or "running".
container_status_alive(u) == container[u] \notin {"none", "exited"}

-----------------------------------------------------------------------------
(* stop_and_remove returns whether or not there was something to remove, and *)
(* also when the daemon refused.  It raises only what is no DockerException. *)
(* A removal is one step.  A daemon still busy with one refuses a second,    *)
(* which then returns before the container is gone: that needs "swallow".    *)

stop_and_remove(u) ==
    \/ Becomes(u, "none")
    \/ "swallow" \in Faults /\ UNCHANGED container

stop_and_remove_raises(u) ==
    "raise" \in Faults /\ (Becomes(u, "none") \/ UNCHANGED container)

-----------------------------------------------------------------------------
\* Mutant of list_managed: without all=True only running containers are listed.
ListRunningOnly == {{u \in Uuids : Live(u)}}

\* list_managed: every labelled container in any state; a failed listing is
\* the empty list.
list_managed ==
    {{u \in Uuids : Exists(u)}} \union (IF "list" \in Faults THEN {{}} ELSE {})

-----------------------------------------------------------------------------
(* What the containers and the operator do by themselves. *)

ContainerReady(u) == container[u] = "booting" /\ Becomes(u, "ready")

ContainerExits(u) == Live(u) /\ Becomes(u, "exited")

\* make clean: docker rm -f of every labelled container.
MakeClean ==
    /\ \E u \in Uuids : Exists(u)
    /\ container' = [u \in Uuids |-> "none"]
=============================================================================

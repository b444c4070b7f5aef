------------------------------ MODULE Restart ------------------------------
(***************************************************************************)
(* A restart that overlaps its predecessor: the processes of one node, and *)
(* what they share.  The DNS sockets are armed with SO_REUSEPORT where the *)
(* platform has it (crates/doggy-dns-core/src/reuseport.rs); the control   *)
(* port is exclusive and its bind is retried                               *)
(* (crates/doggy-dns-control/src/transport.rs, start_retrying); the        *)
(* interface takes one XDP program, which is attached once at startup,     *)
(* unless attach_mode is "manual"; and the cache map is pinned in bpffs,   *)
(* where it outlives them all, with the capacity it was created with       *)
(* (crates/doggy-dns-xdp/src/program.rs, src/xdp/linux.rs).  Nobody        *)
(* removes the pin file.                                                   *)
(*                                                                         *)
(* Shutdown models how one process ends in detail; here its drain, its     *)
(* control plane and its exit are single steps.                            *)
(***************************************************************************)
EXTENDS FiniteSets

CONSTANTS
    Process,       \* the processes the operator starts, one after the other
    Overlap,       \* DNS_PORT_OVERLAP_SUPPORTED
    Manual,        \* those with xdp.attach_mode = "manual": program loaded, not attached
    XdpMayFail,    \* a step of XdpManager::new other than the attach may fail
    CacheSize,     \* the values of xdp.cache_size, one per process's configuration
    NoMap,         \* no capacity: nothing pinned, or no map in use
    NoProcess      \* a resource nobody holds

ASSUME RestartAssumption ==
    /\ NoProcess \notin Process /\ NoMap \notin CacheSize /\ Manual \subseteq Process
    /\ {Overlap, XdpMayFail} \subseteq BOOLEAN

VARIABLES
    phase,         \* where each process's async_main is
    bound,         \* the processes whose DNS sockets are bound
    controlPort,   \* who holds the control port
    xdpLink,       \* whose program is attached to the interface
    fastPath,      \* the processes with Xdp(Some(manager)), whose /readyz says "attached"
    control,       \* each process's start_retrying task
    pinned,        \* the capacity of the map at the pin path
    declared,      \* the capacity each process declares for DNS_CACHE, and then its map's
    read           \* the processes that took it from the pinned map and have yet to load

pinVars == <<pinned, declared, read>>
restartVars == <<phase, bound, controlPort, xdpLink, fastPath, control, pinVars>>

RestartInit ==
    /\ phase = [p \in Process |-> "down"]
    /\ bound = {}
    /\ controlPort = NoProcess
    /\ xdpLink = NoProcess
    /\ fastPath = {}
    /\ control = [p \in Process |-> "none"]
    /\ pinned \in CacheSize \cup {NoMap}
    /\ declared = [p \in Process |-> NoMap]
    /\ read = {}

Alive(p) == phase[p] \notin {"down", "gone"}

-----------------------------------------------------------------------------
(* async_main of one process *)

\* Mutation: the configured capacity is declared, pinned map or not.
ProbePinConfigured(p) ==
    /\ phase[p] = "down"
    /\ phase' = [phase EXCEPT ![p] = "loading"]
    /\ \E size \in CacheSize : declared' = [declared EXCEPT ![p] = size]
    /\ read' = IF pinned = NoMap THEN read ELSE read \cup {p}
    /\ UNCHANGED <<bound, controlPort, xdpLink, fastPath, control, pinned>>

\* XdpManager::new up to the load: if something is pinned its capacity is declared,
\* otherwise, or if it cannot be read, the configured one.
ProbePin(p) ==
    /\ phase[p] = "down"
    /\ phase' = [phase EXCEPT ![p] = "loading"]
    /\ \/ /\ pinned # NoMap
          /\ declared' = [declared EXCEPT ![p] = pinned]
          /\ read' = read \cup {p}
       \/ /\ pinned = NoMap \/ XdpMayFail
          /\ \E size \in CacheSize : declared' = [declared EXCEPT ![p] = size]
          /\ UNCHANGED read
    /\ UNCHANGED <<bound, controlPort, xdpLink, fastPath, control, pinned>>

\* EbpfLoader opens the pin path, and refuses a map of another capacity.
Fits(p) == pinned \in {NoMap, declared[p]}

\* XdpManager::new attaches in auto mode, and the interface takes one program.
AttachFails(p) == p \notin Manual /\ xdpLink # NoProcess

\* Mutation: the fast path counts as up when the program is loaded, attached or not.
FastPathUnattached(p) ==
    /\ fastPath' = fastPath \cup {p}
    /\ xdpLink' = IF xdpLink = NoProcess THEN p ELSE xdpLink
    /\ UNCHANGED declared

\* The program is loaded and, in auto mode, attached.
FastPathUp(p) ==
    /\ ~AttachFails(p)
    /\ fastPath' = fastPath \cup {p}
    /\ xdpLink' = IF p \in Manual THEN xdpLink ELSE p
    /\ UNCHANGED declared

\* XdpManager::new returns an error and drops what it had opened.
FastPathFails(p) ==
    /\ declared' = [declared EXCEPT ![p] = NoMap]
    /\ UNCHANGED <<xdpLink, fastPath>>

\* xdp::init from the load on.  The load leaves its map pinned whatever comes after
\* it; an attach to a busy interface fails, as may any other step, and the process
\* goes on without a fast path.
InitXdp(p) ==
    /\ phase[p] = "loading"
    /\ phase' = [phase EXCEPT ![p] = "starting"]
    /\ \/ /\ Fits(p)
          /\ pinned' = declared[p]
          /\ \/ FastPathUp(p)
             \/ (AttachFails(p) \/ XdpMayFail) /\ FastPathFails(p)
       \/ /\ ~Fits(p) \/ XdpMayFail
          /\ FastPathFails(p) /\ UNCHANGED pinned
    /\ read' = read \ {p}
    /\ UNCHANGED <<bound, controlPort, control>>

\* Dropping the locals of async_main: sockets, manager and, with the runtime, the
\* control plane's task.
Released(p) ==
    /\ bound' = bound \ {p}
    /\ xdpLink' = IF xdpLink = p THEN NoProcess ELSE xdpLink
    /\ fastPath' = fastPath \ {p}
    /\ declared' = [declared EXCEPT ![p] = NoMap]
    /\ read' = read \ {p}
    /\ controlPort' = IF controlPort = p THEN NoProcess ELSE controlPort
    /\ control' = [control EXCEPT ![p] = "none"]
    /\ UNCHANGED pinned

\* bind_udp and bind_tcp: SO_REUSEPORT lets the socket join those already bound.
PortFree == Overlap \/ bound = {}

\* Mutation: a held DNS port does not stop the process, as a held control port does not.
BindDnsDegrading(p) ==
    /\ phase[p] = "starting"
    /\ bound' = IF bound = {} THEN {p} ELSE bound
    /\ phase' = [phase EXCEPT ![p] = "serving"]
    /\ control' = [control EXCEPT ![p] = "binding"]
    /\ UNCHANGED <<controlPort, xdpLink, fastPath, pinVars>>

\* build_server binds the DNS sockets; the control plane's task is spawned.
BindDns(p) ==
    /\ phase[p] = "starting"
    /\ PortFree
    /\ bound' = bound \cup {p}
    /\ phase' = [phase EXCEPT ![p] = "serving"]
    /\ control' = [control EXCEPT ![p] = "binding"]
    /\ UNCHANGED <<controlPort, xdpLink, fastPath, pinVars>>

\* The bind fails, or a step before it does, and `?` ends the process.
StartFails(p) ==
    /\ phase[p] = "starting"
    /\ phase' = [phase EXCEPT ![p] = "gone"]
    /\ Released(p)

\* A signal cancels the server's token, and its listeners read no more queries.
Signal(p) ==
    /\ phase[p] = "serving"
    /\ phase' = [phase EXCEPT ![p] = "draining"]
    /\ UNCHANGED <<bound, controlPort, xdpLink, fastPath, control, pinVars>>

\* The cancelled listeners drop their sockets, if they get to it before the exit.
CloseListeners(p) ==
    /\ phase[p] \in {"draining", "stopping"} /\ p \in bound
    /\ bound' = bound \ {p}
    /\ UNCHANGED <<phase, controlPort, xdpLink, fastPath, control, pinVars>>

\* The drain is over, by itself or by its timeout, and the control plane's token is
\* cancelled.
CancelControl(p) ==
    /\ phase[p] = "draining"
    /\ phase' = [phase EXCEPT ![p] = "stopping"]
    /\ UNCHANGED <<bound, controlPort, xdpLink, fastPath, control, pinVars>>

\* async_main returns, whether or not the control plane ended within its grace, and
\* the process is gone.
Exit(p) ==
    /\ phase[p] = "stopping"
    /\ phase' = [phase EXCEPT ![p] = "gone"]
    /\ Released(p)

\* The process is killed, or its server stops on its own: the kernel takes back what
\* it held.
Dies(p) ==
    /\ Alive(p)
    /\ phase' = [phase EXCEPT ![p] = "gone"]
    /\ Released(p)

-----------------------------------------------------------------------------
(* The start_retrying task *)

\* Mutation: one attempt only, as start() makes.
TryBindOnce(p) ==
    /\ control[p] = "binding"
    /\ IF controlPort = NoProcess
       THEN /\ controlPort' = p
            /\ control' = [control EXCEPT ![p] = "listening"]
       ELSE /\ control' = [control EXCEPT ![p] = "none"]
            /\ UNCHANGED controlPort
    /\ UNCHANGED <<phase, bound, xdpLink, fastPath, pinVars>>

TryBind(p) ==
    /\ control[p] = "binding"
    /\ IF controlPort = NoProcess
       THEN /\ controlPort' = p
            /\ control' = [control EXCEPT ![p] = "listening"]
       ELSE /\ control' = [control EXCEPT ![p] = "sleeping"]
            /\ UNCHANGED controlPort
    /\ UNCHANGED <<phase, bound, xdpLink, fastPath, pinVars>>

\* retry_in elapses, or the wait is cancelled.
Retry(p) ==
    /\ control[p] = "sleeping"
    /\ \/ control' = [control EXCEPT ![p] = "binding"]
       \/ /\ phase[p] = "stopping"
          /\ control' = [control EXCEPT ![p] = "none"]
    /\ UNCHANGED <<phase, bound, controlPort, xdpLink, fastPath, pinVars>>

\* serve() returns once cancelled and drained, and drops the listener.
StopServing(p) ==
    /\ control[p] = "listening" /\ phase[p] = "stopping"
    /\ control' = [control EXCEPT ![p] = "none"]
    /\ controlPort' = NoProcess
    /\ UNCHANGED <<phase, bound, xdpLink, fastPath, pinVars>>

-----------------------------------------------------------------------------
ControlTask(p) == TryBind(p) \/ Retry(p) \/ StopServing(p)

Start(p) == ProbePin(p) \/ InitXdp(p) \/ BindDns(p) \/ StartFails(p)

Stop(p) == CloseListeners(p) \/ CancelControl(p) \/ Exit(p)

RestartNext == \E p \in Process : Start(p) \/ Signal(p) \/ Stop(p) \/ Dies(p) \/ ControlTask(p)

RestartSpec == RestartInit /\ [][RestartNext]_restartVars

\* The runtime runs the tasks and the timers.
RestartFairSpec ==
    RestartSpec /\ \A p \in Process : WF_restartVars(ControlTask(p)) /\ WF_restartVars(Stop(p))

-----------------------------------------------------------------------------
(* Properties *)

RestartTypeOK ==
    /\ phase \in [Process -> {"down", "loading", "starting", "serving", "draining", "stopping",
                           "gone"}]
    /\ bound \subseteq Process /\ fastPath \subseteq Process
    /\ controlPort \in Process \cup {NoProcess} /\ xdpLink \in Process \cup {NoProcess}
    /\ control \in [Process -> {"none", "binding", "sleeping", "listening"}]
    /\ \A p \in Process : ~Alive(p) => control[p] = "none"
    /\ pinned \in CacheSize \cup {NoMap}
    /\ declared \in [Process -> CacheSize \cup {NoMap}]
    /\ read \subseteq {p \in Process : phase[p] = "loading"}

\* What a process believes is so, however restarts overlap: it serves the control
\* plane exactly when it holds the port, its fast path is up exactly when it holds the
\* interface (where it attaches the program itself), and the dead hold neither.
ClaimsAreHeld ==
    \A p \in Process :
        /\ control[p] = "listening" <=> controlPort = p
        /\ p \in Manual \/ (p \in fastPath <=> xdpLink = p)
        /\ p \in {controlPort, xdpLink} \cup bound => Alive(p)

\* Whatever capacity each process is configured with, and however their starts
\* overlap: every fast path of the node is on the one pinned map, and a process that
\* read the pinned capacity is not refused at the load that comes later, so a restart
\* comes up on its predecessor's map.
PinIsShared ==
    \A p \in Process : p \in fastPath \cup read => declared[p] = pinned /\ pinned # NoMap

\* The processes that read queries off a DNS socket of theirs.
Answering == {p \in bound : phase[p] = "serving"}

\* Whatever overlaps, the node stops answering DNS only when a process is signalled or
\* dies while no other one serves: a successor that says it serves has joined its
\* sockets to the port (build_server), so a rolling restart keeps it answering.
NodeKeepsAnswering ==
    [][Answering # {} /\ Answering' = {} =>
        \E p \in Process : /\ Signal(p) \/ Dies(p)
                           /\ \A q \in Process \ {p} : phase[q] # "serving"]_restartVars

\* The only process left on a node, whenever it was started, ends up with the control
\* port: start_retrying takes it once its predecessor has let it go.
ControlComesBack ==
    \A p \in Process :
        <>[](phase[p] = "serving" /\ \A q \in Process \ {p} : ~Alive(q))
            => <>[](control[p] = "listening")

\* "A new pod finds the map its predecessor pinned and keeps serving from it"
\* (docs/deployment.md), read for the overlapping restarts of docs/configuration.md.
FastPathComesBack ==
    \A p \in Process :
        <>[](phase[p] = "serving" /\ \A q \in Process \ {p} : ~Alive(q))
            => <>(p \in fastPath)
=============================================================================

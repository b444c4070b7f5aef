------------------------------ MODULE Shutdown ------------------------------
(***************************************************************************)
(* How one process ends: async_main and main (src/main.rs) against the     *)
(* tasks it leaves behind, that is the XDP stats poller                    *)
(* (crates/doggy-dns-xdp/src/stats.rs, stats/reader.rs), the control plane *)
(* server and the CPU profiler with its ProfileStopper                     *)
(* (crates/doggy-dns-observability/src/profiles/mod.rs, lib.rs).           *)
(*                                                                         *)
(* Rust drops the locals of main in reverse order: after an Err, the Tokio *)
(* runtime goes before telemetry; after an Ok, telemetry.shutdown() runs   *)
(* first.  Dropping the runtime cancels async tasks at their await points  *)
(* and waits for blocking threads.  The five counters of XdpStats move     *)
(* alike, so one stands for them all.                                      *)
(***************************************************************************)
EXTENDS Integers, FiniteSets

CONSTANTS
    Cpus,          \* slots of the per-CPU stats map
    MaxPackets     \* bound: packets counted on one CPU

ASSUME ShutdownAssumption == Cpus \in Nat \ {0} /\ MaxPackets \in Nat

VARIABLES
    phase,       \* where main is
    counting,    \* the XDP program counts packets
    counts,      \* the slots of the per-CPU map
    poller,      \* the poller task: what it is doing,
    slot, total, \*   the slot it reads next and the sum so far,
    previous,    \*   and its baseline
    stopSeen,    \* the watch channel flipped, or its sender is gone
    recorded,    \* value of the SDK's dns.xdp.queries counter
    reported,    \* what the meter provider has exported
    meterOpen,   \* the meter provider is not shut down
    control,     \* the control plane's task
    profiler,    \* the profiler task, or the blocking thread it waits for
    stopper,     \* ProfileStopper.stopped
    stopCount,   \* history: packets counted when the poller was told to stop
    clean        \* history: a signal stopped the server, and nothing failed or timed out since

pollerVars == <<poller, slot, total, previous>>
metricVars == <<recorded, reported, meterOpen>>
taskVars   == <<control, profiler, stopper>>
shutdownVars == <<phase, counting, counts, pollerVars, stopSeen, metricVars, taskVars,
          stopCount, clean>>

CPU == 1 .. Cpus

\* How much the slots up to each hold.
Sums(slots) ==
    LET upTo[n \in 0 .. Cpus] == IF n = 0 THEN 0 ELSE slots[n] + upTo[n - 1] IN upTo
Counted == Sums(counts)[Cpus]

ShutdownInit ==
    /\ phase = "running"
    /\ counting = TRUE
    /\ counts = [c \in CPU |-> 0]
    /\ poller = "waiting" /\ slot = 1 /\ total = 0 /\ previous = 0
    /\ stopSeen = FALSE
    /\ recorded = 0 /\ reported = 0 /\ meterOpen = TRUE
    /\ control = "serving"
    /\ profiler = "idle"
    /\ stopper = FALSE
    /\ stopCount = 0
    /\ clean = TRUE

-----------------------------------------------------------------------------
(* The kernel counts, the poller reads *)

\* record(): one CPU bumps its own slot.
Packet(c) ==
    /\ counting /\ counts[c] < MaxPackets
    /\ counts' = [counts EXCEPT ![c] = @ + 1]
    /\ UNCHANGED <<phase, counting, pollerVars, stopSeen, metricVars, taskVars, stopCount, clean>>

RuntimeUp == phase \notin {"dropped", "exited"}

\* One branch of the poller's select! is taken: a tick, or the stop.
Wake ==
    /\ RuntimeUp /\ poller = "waiting"
    /\ poller' \in {"reading"} \cup (IF stopSeen THEN {"final"} ELSE {})
    /\ slot' = 1 /\ total' = 0
    /\ UNCHANGED <<phase, counting, counts, previous, stopSeen, metricVars, taskVars, stopCount, clean>>

\* snapshot() sums the slots one after the other, while the CPUs go on counting.
ReadSlot ==
    /\ poller \in {"reading", "final"} /\ slot <= Cpus
    /\ total' = total + counts[slot]
    /\ slot' = slot + 1
    /\ UNCHANGED <<phase, counting, counts, poller, previous, stopSeen, metricVars, taskVars,
                   stopCount, clean>>

\* After an iteration the poller waits again; after the final read it is done.
Reread == IF poller = "final" THEN "done" ELSE "waiting"

\* Mutation: a failed lookup reads as zero.
ReadFailsAsZero ==
    /\ poller \in {"reading", "final"} /\ slot = 1
    /\ poller' = Reread
    /\ previous' = 0
    /\ clean' = (clean /\ poller # "final")
    /\ UNCHANGED <<phase, counting, counts, slot, total, stopSeen, metricVars, taskVars, stopCount>>

\* A failed lookup keeps the baseline.
ReadFails ==
    /\ poller \in {"reading", "final"} /\ slot = 1
    /\ poller' = Reread
    /\ clean' = (clean /\ poller # "final")
    /\ UNCHANGED <<phase, counting, counts, slot, total, previous, stopSeen, metricVars, taskVars,
                   stopCount>>

\* delta_from: a counter that went backwards is a recreated map.
Delta(current, before) == IF current >= before THEN current - before ELSE current

\* Mutation: the final read is taken but not emitted.
EmitDeltaUnlessFinal ==
    /\ poller \in {"reading", "final"} /\ slot = Cpus + 1
    /\ recorded' = IF meterOpen /\ poller = "reading" THEN recorded + Delta(total, previous)
                   ELSE recorded
    /\ previous' = total
    /\ poller' = Reread
    /\ UNCHANGED <<phase, counting, counts, slot, total, stopSeen, reported, meterOpen, taskVars,
                   stopCount, clean>>

\* emit_delta: the sink adds to the counter, for nothing once the provider is shut
\* down, and the snapshot becomes the baseline.
EmitDelta ==
    /\ poller \in {"reading", "final"} /\ slot = Cpus + 1
    /\ recorded' = IF meterOpen THEN recorded + Delta(total, previous) ELSE recorded
    /\ previous' = total
    /\ poller' = Reread
    /\ UNCHANGED <<phase, counting, counts, slot, total, stopSeen, reported, meterOpen, taskVars,
                   stopCount, clean>>

\* The SDK's periodic reader exports on its own.
PeriodicExport ==
    /\ meterOpen
    /\ reported' = recorded
    /\ UNCHANGED <<phase, counting, counts, pollerVars, stopSeen, recorded, meterOpen, taskVars,
                   stopCount, clean>>

-----------------------------------------------------------------------------
(* The profiler *)

\* The ticker fires and spawn_blocking starts a collection, which builds the guard
\* and waits on the condvar.
Collect ==
    /\ RuntimeUp /\ profiler = "idle"
    /\ profiler' = "collecting"
    /\ UNCHANGED <<phase, counting, counts, pollerVars, stopSeen, metricVars, control, stopper,
                   stopCount, clean>>

\* wait() returns true on a stop, and the task breaks out of its loop (or has been
\* aborted, and nobody takes the thread's result).
CollectStops ==
    /\ profiler \in {"collecting", "orphaned"} /\ stopper
    /\ profiler' = "gone"
    /\ UNCHANGED <<phase, counting, counts, pollerVars, stopSeen, metricVars, control, stopper,
                   stopCount, clean>>

\* The whole window elapses: the profile is exported, or the export fails, and the
\* task waits for the next tick.
WindowElapses ==
    /\ profiler \in {"collecting", "orphaned"} /\ ~stopper
    /\ profiler' = IF profiler = "orphaned" THEN "gone" ELSE "idle"
    /\ UNCHANGED <<phase, counting, counts, pollerVars, stopSeen, metricVars, control, stopper,
                   stopCount, clean>>

\* What is left of the profiler when its async task is aborted or cancelled.
Aborted == CASE profiler = "idle" -> "gone" [] profiler = "collecting" -> "orphaned"
             [] OTHER -> profiler

-----------------------------------------------------------------------------
(* async_main from the select! on *)

\* async_main returns: its locals are dropped, the watch sender among them, and the
\* program is detached with the manager.
Returns(how) ==
    /\ phase' = how
    /\ counting' = FALSE
    /\ stopSeen' = TRUE
    /\ stopCount' = IF stopSeen THEN stopCount ELSE Counted

\* SIGINT or SIGTERM: the listeners are cancelled.
Signal ==
    /\ phase = "running"
    /\ phase' = "draining"
    /\ UNCHANGED <<counting, counts, pollerVars, stopSeen, metricVars, taskVars, stopCount, clean>>

\* The server ends on its own, well or with an error; or `?` leaves async_main while
\* it builds the authority chain or the server.
ServerStops ==
    /\ phase = "running"
    /\ \E how \in {"returned", "failed"} : Returns(how)
    /\ clean' = FALSE
    /\ UNCHANGED <<counts, pollerVars, metricVars, taskVars>>

\* The drain ends, or its timeout does.
Drained ==
    /\ phase = "draining"
    /\ phase' = "stopPoller"
    /\ UNCHANGED <<counting, counts, pollerVars, stopSeen, metricVars, taskVars, stopCount, clean>>

\* The drain ends with an error, which `?` returns.
DrainFails ==
    /\ phase = "draining"
    /\ Returns("failed")
    /\ clean' = FALSE
    /\ UNCHANGED <<counts, pollerVars, metricVars, taskVars>>

StopPoller ==
    /\ phase = "stopPoller"
    /\ phase' = "awaitPoller"
    /\ stopSeen' = TRUE
    /\ stopCount' = Counted
    /\ UNCHANGED <<counting, counts, pollerVars, metricVars, taskVars, clean>>

\* await_shutdown: the task ends, or two seconds pass.  Then the control plane's
\* token is cancelled.
AwaitPoller ==
    /\ phase = "awaitPoller"
    /\ phase' = "awaitControl"
    /\ clean' = (clean /\ poller = "done")
    /\ control' = IF control = "serving" THEN "cancelled" ELSE control
    /\ UNCHANGED <<counting, counts, pollerVars, stopSeen, metricVars, profiler, stopper, stopCount>>

\* The control plane's task has drained its connections.
ControlEnds ==
    /\ RuntimeUp /\ control = "cancelled"
    /\ control' = "done"
    /\ UNCHANGED <<phase, counting, counts, pollerVars, stopSeen, metricVars, profiler, stopper,
                   stopCount, clean>>

\* Mutation: the control plane is joined without a timeout.
AwaitControlForever ==
    /\ phase = "awaitControl" /\ control = "done"
    /\ Returns("returned")
    /\ UNCHANGED <<counts, pollerVars, metricVars, taskVars, clean>>

\* await_shutdown again: it need not wait for the task longer than two seconds.
AwaitControl ==
    /\ phase = "awaitControl"
    /\ Returns("returned")
    /\ UNCHANGED <<counts, pollerVars, metricVars, taskVars, clean>>

-----------------------------------------------------------------------------
(* main after block_on, and the drops at its end *)

\* Observability::shutdown, also run by its Drop: stop the profiler, abort its task,
\* and shut the providers down, which exports what is recorded unless it times out.
TelemetryShutdown ==
    /\ stopper' = TRUE
    /\ profiler' = Aborted
    /\ meterOpen' = FALSE
    /\ reported' \in IF meterOpen THEN {recorded, reported} ELSE {reported}
    /\ clean' = (clean /\ reported' = recorded)

\* block_on returned Ok: telemetry.shutdown().
ShutdownTelemetry ==
    /\ phase = "returned"
    /\ TelemetryShutdown
    /\ phase' = "flushed"
    /\ UNCHANGED <<counting, counts, pollerVars, stopSeen, recorded, control, stopCount>>

\* The runtime is the first local of main to be dropped: no async task runs on past
\* its next await.
DropRuntime ==
    /\ phase \in {"flushed", "failed"}
    /\ phase' = "dropped"
    /\ profiler' = Aborted
    /\ UNCHANGED <<counting, counts, pollerVars, stopSeen, metricVars, control, stopper, stopCount,
                   clean>>

\* The drop returns once the workers have left their tasks and the blocking threads
\* have ended; telemetry is dropped after it.
Exit ==
    /\ phase = "dropped"
    /\ poller \notin {"reading", "final"}
    /\ profiler = "gone"
    /\ TelemetryShutdown
    /\ phase' = "exited"
    /\ UNCHANGED <<counting, counts, pollerVars, stopSeen, recorded, control, stopCount>>

Main == \/ ServerStops \/ Drained \/ DrainFails \/ StopPoller \/ AwaitPoller \/ AwaitControl
        \/ ShutdownTelemetry \/ DropRuntime \/ Exit
Poller == Wake \/ ReadSlot \/ ReadFails \/ EmitDelta
Profiler == CollectStops \/ WindowElapses

ShutdownNext ==
    \/ Main \/ Signal
    \/ Poller \/ PeriodicExport \/ \E c \in CPU : Packet(c)
    \/ Collect \/ Profiler
    \/ ControlEnds

ShutdownSpec == ShutdownInit /\ [][ShutdownNext]_shutdownVars

\* Timeouts expire, so main moves on once it has left "running"; a task in the middle
\* of a poll finishes it; and a collection window ends.  Nothing is assumed of the
\* control plane's task.
FairShutdownSpec ==
    /\ ShutdownSpec
    /\ WF_shutdownVars(Main /\ phase # "running")
    /\ WF_shutdownVars(ReadSlot \/ ReadFails \/ EmitDelta)
    /\ WF_shutdownVars(Profiler)

-----------------------------------------------------------------------------
(* Properties *)

\* The poller never invents a count: what it has handed to the SDK is its baseline,
\* which lags behind the map.  Slots read one by one while others advance, failed
\* reads and the extra read at the stop neither count a packet twice nor look like a
\* counter reset.
CountsAreNeverInvented ==
    /\ meterOpen => recorded = previous
    /\ reported <= recorded /\ recorded <= Counted

\* On a signalled shutdown whose final read and export succeed, every packet counted
\* by the time the poller was told to stop is exported, the last partial window
\* included: async_main awaits the poller before main shuts the providers down.
LastWindowIsReported ==
    phase = "exited" /\ clean => reported >= stopCount

\* The process ends once it has begun to: no task it waits for can hold it.
ShutdownEnds == phase # "running" ~> phase = "exited"
=============================================================================

------------------------------- MODULE Tunnel -------------------------------
(***************************************************************************)
(* The worker's public tunnel: the manager that owns the current one and   *)
(* swaps it when the dashboard asks (worker.py), the watchdog thread of     *)
(* each tunnel that starts its process again (tunnel/_base.py and the       *)
(* providers), the heartbeats and registrations that write the URL into     *)
(* the worker's row, and the dashboard (actions/workers.ts).                *)
(*                                                                          *)
(* A URL is a number, new for every process that gets one; 0 is none.       *)
(***************************************************************************)
EXTENDS Naturals, FiniteSets

CONSTANTS
    Tunnels,    \* instances; one is started at boot
    First,      \* that one
    NoTunnel,   \* no tunnel
    MaxUrl,     \* bound: URLs that are in use somewhere
    MaxNonce,   \* bound: restarts that are asked for
    MaxExits,   \* bound: processes that end by themselves or are evicted
    Envs        \* the sets of circumstances that are checked

\* fails: a provider gives no URL; offline: the backend does not answer; edits:
\* the worker is edited while its restart is asked for; evicts: a process ends
\* the older ones of its account; shutdown: the worker is stopped.
Circumstances == {"fails", "offline", "edits", "evicts", "shutdown"}

ASSUME TunnelAssumption ==
    /\ First \in Tunnels /\ NoTunnel \notin Tunnels
    /\ MaxUrl \in Nat \ {0} /\ MaxNonce \in Nat /\ MaxExits \in Nat
    /\ Envs \subseteq SUBSET Circumstances

VARIABLES
    env,        \* circumstances of this behaviour
    tun,        \* _proc, _url and the watchdog of each tunnel
    current,    \* _tunnel of the manager
    swap,       \* the thread that restarts, and what it holds; _swapping
    applied,    \* _restart_nonce
    failed,     \* _failed_nonce, and whether _retry_after is still to come
    beat,       \* the heartbeat under way
    main,       \* the main thread
    rowUrl,     \* the URL in the worker's row
    asked,      \* the nonce in the row's tunnel configuration, 0 for none
    nonces,     \* nonces written so far
    edit,       \* what updateWorker has read of the configuration
    exits,      \* processes that ended by themselves
    revived     \* history: tunnels that started again after they were stopped

worker == <<swap, applied, failed, beat>>
dashboard == <<asked, nonces, edit>>
tunnelVars == <<env, tun, current, worker, main, rowUrl, dashboard, exits, revived>>

Urls == 1 .. MaxUrl
AnyUrl == 0 .. MaxUrl
Nonces == 0 .. MaxNonce

\* dog: waits for the process; sleeps after it ended; waits for the URL of the
\* next; was given one (told); posts a registration.
Tunnel == [proc : {"none", "up", "dead"}, url : AnyUrl,
           dog : {"off", "waits", "sleeps", "launches", "told", "posts"}, posted : AnyUrl]
Off == [proc |-> "none", url |-> 0, dog |-> "off", posted |-> 0]

Swap == [pc : {"off", "fetch", "launch", "ready", "go", "adopted", "post"},
         nonce : Nonces, new : Tunnels \cup {NoTunnel}, old : Tunnels \cup {NoTunnel}, url : AnyUrl]
NoSwap == [pc |-> "off", nonce |-> 0, new |-> NoTunnel, old |-> NoTunnel, url |-> 0]

Beat == [pc : {"off", "sent", "asks"}, url : AnyUrl, nonce : Nonces]
NoBeat == [pc |-> "off", url |-> 0, nonce |-> 0]

UsedUrls == {rowUrl, beat.url, swap.url} \cup {tun[t].url : t \in Tunnels}
                \cup {tun[t].posted : t \in Tunnels}
FreshUrl == CHOOSE u \in Urls \ UsedUrls : \A v \in Urls \ UsedUrls : u <= v

\* A process is started; where an account is limited to one, the others end.
Evicts(t) ==
    /\ "evicts" \in env /\ exits < MaxExits
    /\ \E u \in Tunnels \ {t} : tun[u].proc = "up"
Spawn(t, dog) ==
    /\ exits' = IF Evicts(t) THEN exits + 1 ELSE exits
    /\ tun' = [u \in Tunnels |->
                IF u = t THEN [tun[t] EXCEPT !.proc = "up", !.dog = dog]
                ELSE IF Evicts(t) /\ tun[u].proc = "up" THEN [tun[u] EXCEPT !.proc = "dead"]
                ELSE tun[u]]

\* stop(): the process ends, the watchdog is left to notice.
Stopped(t) == [tun EXCEPT ![t].proc = "none", ![t].url = 0]

Running == main # "exited"

-----------------------------------------------------------------------------
(* A tunnel and its watchdog *)

ProcessExits(t) ==
    /\ tun[t].proc = "up"
    /\ exits < MaxExits
    /\ exits' = exits + 1
    /\ tun' = [tun EXCEPT ![t].proc = "dead"]
    /\ UNCHANGED <<env, current, worker, main, rowUrl, dashboard, revived>>

\* proc.wait() returns: a tunnel without a process was stopped, any other one is
\* started again after a while.
Notices(t) ==
    /\ Running
    /\ tun[t].dog = "waits"
    /\ \/ /\ tun[t].proc = "none"
          /\ tun' = [tun EXCEPT ![t].dog = "off"]
       \/ /\ tun[t].proc = "dead"
          /\ tun' = [tun EXCEPT ![t].dog = "sleeps", ![t].url = 0]
    /\ UNCHANGED <<env, current, worker, main, rowUrl, dashboard, exits, revived>>

\* After the sleep nothing is tested again.
Relaunches(t) ==
    /\ Running
    /\ tun[t].dog = "sleeps"
    /\ Spawn(t, "launches")
    /\ revived' = IF tun[t].proc = "none" THEN revived \cup {t} ELSE revived
    /\ UNCHANGED <<env, current, worker, main, rowUrl, dashboard>>

\* The provider prints the URL, and the callback is called.
GetsUrl(t) ==
    /\ Running
    /\ tun[t].dog = "launches" /\ tun[t].proc = "up"
    /\ Urls \ UsedUrls # {}
    /\ tun' = [tun EXCEPT ![t].url = FreshUrl, ![t].dog = "told"]
    /\ UNCHANGED <<env, current, worker, main, rowUrl, dashboard, exits, revived>>

\* The process ends before, or is ended for want of a URL; the watchdog sleeps
\* and looks again.
GetsNoUrl(t) ==
    /\ Running
    /\ tun[t].dog = "launches"
    /\ tun[t].proc = "up" => "fails" \in env
    /\ tun' = [tun EXCEPT ![t].dog = "waits",
                          ![t].proc = IF @ = "up" THEN "dead" ELSE @]
    /\ UNCHANGED <<env, current, worker, main, rowUrl, dashboard, exits, revived>>

\* The handler leaves a tunnel alone that is no longer the current one.
Handles(t) ==
    /\ Running
    /\ tun[t].dog = "told"
    /\ tun' = IF current = t
              THEN [tun EXCEPT ![t].dog = "posts", ![t].posted = tun[t].url]
              ELSE [tun EXCEPT ![t].dog = "waits"]
    /\ UNCHANGED <<env, current, worker, main, rowUrl, dashboard, exits, revived>>

\* It registers the URL, whatever the current tunnel is by then.
Registers(t) ==
    /\ Running
    /\ tun[t].dog = "posts"
    /\ rowUrl' = tun[t].posted
    /\ tun' = [tun EXCEPT ![t].dog = "waits", ![t].posted = 0]
    /\ UNCHANGED <<env, current, worker, main, dashboard, exits, revived>>

RegistrationFails(t) ==
    /\ Running /\ "offline" \in env
    /\ tun[t].dog = "posts"
    /\ tun' = [tun EXCEPT ![t].dog = "waits", ![t].posted = 0]
    /\ UNCHANGED <<env, current, worker, main, rowUrl, dashboard, exits, revived>>

-----------------------------------------------------------------------------
(* Heartbeats *)

CurrentUrl == IF current = NoTunnel THEN 0 ELSE tun[current].url

Beats ==
    /\ main = "runs"
    /\ beat.pc = "off"
    /\ beat' = [pc |-> "sent", url |-> CurrentUrl, nonce |-> 0]
    /\ UNCHANGED <<env, tun, current, swap, applied, failed, main, rowUrl, dashboard, exits, revived>>

\* Faulty variant: only registrations write the URL.
BeatKeepsUrl ==
    /\ Running
    /\ beat.pc = "sent"
    /\ beat' = IF asked \in {0, applied} THEN NoBeat
               ELSE [pc |-> "asks", url |-> 0, nonce |-> asked]
    /\ UNCHANGED <<env, tun, current, swap, applied, failed, main, rowUrl, dashboard, exits, revived>>

\* A heartbeat without a URL leaves the row's alone.  The answer carries the
\* nonce; the worker compares it with the one it has applied.
BeatAnswered ==
    /\ Running
    /\ beat.pc = "sent"
    /\ rowUrl' = IF beat.url = 0 THEN rowUrl ELSE beat.url
    /\ beat' = IF asked \in {0, applied} THEN NoBeat
               ELSE [pc |-> "asks", url |-> 0, nonce |-> asked]
    /\ UNCHANGED <<env, tun, current, swap, applied, failed, main, dashboard, exits, revived>>

BeatLost ==
    /\ Running /\ "offline" \in env
    /\ beat.pc = "sent"
    /\ beat' = NoBeat
    /\ UNCHANGED <<env, tun, current, swap, applied, failed, main, rowUrl, dashboard, exits, revived>>

\* Under the lock: one swap at a time, and none for a nonce that failed before
\* the minute is over.
MaybeRestart ==
    /\ Running
    /\ beat.pc = "asks"
    /\ beat' = NoBeat
    /\ swap' = IF swap.pc # "off" \/ (failed.nonce = beat.nonce /\ failed.wait) THEN swap
               ELSE [NoSwap EXCEPT !.pc = "fetch", !.nonce = beat.nonce]
    /\ UNCHANGED <<env, tun, current, applied, failed, main, rowUrl, dashboard, exits, revived>>

RetryTime ==
    /\ failed.wait
    /\ failed' = [failed EXCEPT !.wait = FALSE]
    /\ UNCHANGED <<env, tun, current, swap, applied, beat, main, rowUrl, dashboard, exits, revived>>

-----------------------------------------------------------------------------
(* A swap *)

SwapSpawns(t) ==
    /\ Running
    /\ swap.pc = "fetch"
    /\ tun[t] = Off /\ t # current
    /\ Spawn(t, "off")
    /\ swap' = [swap EXCEPT !.pc = "launch", !.new = t]
    /\ UNCHANGED <<env, current, applied, failed, beat, main, rowUrl, dashboard, revived>>

\* start() returns the URL, and the watchdog waits.
SwapGetsUrl ==
    /\ Running
    /\ swap.pc = "launch" /\ tun[swap.new].proc = "up"
    /\ Urls \ UsedUrls # {}
    /\ tun' = [tun EXCEPT ![swap.new].url = FreshUrl, ![swap.new].dog = "waits"]
    /\ swap' = [swap EXCEPT !.pc = "ready", !.url = FreshUrl]
    /\ UNCHANGED <<env, current, applied, failed, beat, main, rowUrl, dashboard, exits, revived>>

\* The configuration cannot be fetched, or there is no URL: the new tunnel is
\* stopped, the old one kept.
SwapFails ==
    /\ Running
    /\ \/ swap.pc = "fetch" /\ "offline" \in env /\ UNCHANGED tun
       \/ /\ swap.pc = "launch"
          /\ tun[swap.new].proc = "up" => "fails" \in env
          /\ tun' = Stopped(swap.new)
    /\ failed' = [nonce |-> swap.nonce, wait |-> TRUE]
    /\ swap' = NoSwap
    /\ UNCHANGED <<env, current, applied, beat, main, rowUrl, dashboard, exits, revived>>

\* A worker that is shutting down stops the new tunnel again.
SwapChecks ==
    /\ Running
    /\ swap.pc = "ready"
    /\ IF main = "runs"
       THEN swap' = [swap EXCEPT !.pc = "go"] /\ UNCHANGED tun
       ELSE swap' = NoSwap /\ tun' = Stopped(swap.new)
    /\ UNCHANGED <<env, current, applied, failed, beat, main, rowUrl, dashboard, exits, revived>>

SwapAdopts ==
    /\ Running
    /\ swap.pc = "go"
    /\ current' = swap.new
    /\ swap' = [swap EXCEPT !.pc = "adopted", !.old = current]
    /\ UNCHANGED <<env, tun, applied, failed, beat, main, rowUrl, dashboard, exits, revived>>

\* Faulty variant: the tunnel that was replaced keeps running.
SwapKeepsOld ==
    /\ Running
    /\ swap.pc = "adopted"
    /\ swap' = [swap EXCEPT !.pc = "post"]
    /\ UNCHANGED <<env, tun, current, applied, failed, beat, main, rowUrl, dashboard, exits, revived>>

SwapStopsOld ==
    /\ Running
    /\ swap.pc = "adopted"
    /\ tun' = IF swap.old = NoTunnel THEN tun ELSE Stopped(swap.old)
    /\ swap' = [swap EXCEPT !.pc = "post"]
    /\ UNCHANGED <<env, current, applied, failed, beat, main, rowUrl, dashboard, exits, revived>>

\* The URL is registered, or not; the nonce is applied.
SwapEnds(stored) ==
    /\ Running
    /\ swap.pc = "post"
    /\ stored \/ "offline" \in env
    /\ rowUrl' = IF stored THEN swap.url ELSE rowUrl
    /\ applied' = swap.nonce
    /\ failed' = [nonce |-> 0, wait |-> FALSE]
    /\ swap' = NoSwap
    /\ UNCHANGED <<env, tun, current, beat, main, dashboard, exits, revived>>

-----------------------------------------------------------------------------
(* The main thread and the dashboard *)

\* stop_event; then the manager stops its tunnel; then the process ends, and its
\* threads with it.
StopEvent ==
    /\ "shutdown" \in env
    /\ main = "runs"
    /\ main' = "stops"
    /\ UNCHANGED <<env, tun, current, worker, rowUrl, dashboard, exits, revived>>

ManagerStops ==
    /\ main = "stops"
    /\ main' = "stopped"
    /\ current' = NoTunnel
    /\ tun' = IF current = NoTunnel THEN tun ELSE Stopped(current)
    /\ UNCHANGED <<env, worker, rowUrl, dashboard, exits, revived>>

WorkerExits ==
    /\ main = "stopped"
    /\ main' = "exited"
    /\ UNCHANGED <<env, tun, current, worker, rowUrl, dashboard, exits, revived>>

RequestRestart ==
    /\ nonces < MaxNonce
    /\ nonces' = nonces + 1
    /\ asked' = nonces + 1
    /\ UNCHANGED <<env, tun, current, worker, main, rowUrl, edit, exits, revived>>

\* updateWorker writes back the configuration it has read, nonce included.
EditReads ==
    /\ "edits" \in env
    /\ edit = [reads |-> FALSE, nonce |-> 0]
    /\ nonces < MaxNonce
    /\ edit' = [reads |-> TRUE, nonce |-> asked]
    /\ UNCHANGED <<env, tun, current, worker, main, rowUrl, asked, nonces, exits, revived>>

EditWrites ==
    /\ edit.reads
    /\ asked' = edit.nonce
    /\ edit' = [reads |-> FALSE, nonce |-> 0]
    /\ UNCHANGED <<env, tun, current, worker, main, rowUrl, nonces, exits, revived>>

-----------------------------------------------------------------------------

\* The worker has booted: its tunnel is up, registered and waited for.
TunnelInit ==
    /\ env \in Envs
    /\ tun = [t \in Tunnels |->
                IF t = First THEN [proc |-> "up", url |-> 1, dog |-> "waits", posted |-> 0]
                ELSE Off]
    /\ current = First
    /\ swap = NoSwap
    /\ applied = 0
    /\ failed = [nonce |-> 0, wait |-> FALSE]
    /\ beat = NoBeat
    /\ main = "runs"
    /\ rowUrl = 1
    /\ asked = 0
    /\ nonces = 0
    /\ edit = [reads |-> FALSE, nonce |-> 0]
    /\ exits = 0
    /\ revived = {}

Watchdog(t) ==
    \/ Notices(t)
    \/ Relaunches(t)
    \/ GetsUrl(t)
    \/ GetsNoUrl(t)
    \/ Handles(t)
    \/ Registers(t)
    \/ RegistrationFails(t)

SwapStep ==
    \/ \E t \in Tunnels : SwapSpawns(t)
    \/ SwapGetsUrl
    \/ SwapFails
    \/ SwapChecks
    \/ SwapAdopts
    \/ SwapStopsOld
    \/ \E stored \in BOOLEAN : SwapEnds(stored)

HeartbeatStep ==
    \/ Beats
    \/ BeatAnswered
    \/ BeatLost
    \/ MaybeRestart
    \/ RetryTime

TunnelNext ==
    \/ \E t \in Tunnels : ProcessExits(t) \/ Watchdog(t)
    \/ HeartbeatStep
    \/ SwapStep
    \/ StopEvent \/ ManagerStops \/ WorkerExits
    \/ RequestRestart \/ EditReads \/ EditWrites

TunnelSpec == TunnelInit /\ [][TunnelNext]_tunnelVars

\* Threads go on, requests end, time passes; a provider and the backend do not
\* fail for ever (strong fairness).  Exits, requests and edits are free.
TunnelFairness ==
    /\ \A t \in Tunnels : WF_tunnelVars(Watchdog(t)) /\ SF_tunnelVars(GetsUrl(t))
    /\ WF_tunnelVars(SwapStep)
    /\ SF_tunnelVars(\E t \in Tunnels : SwapSpawns(t)) /\ SF_tunnelVars(SwapGetsUrl)
    /\ WF_tunnelVars(Beats) /\ WF_tunnelVars(BeatAnswered \/ BeatLost) /\ SF_tunnelVars(BeatAnswered)
    /\ WF_tunnelVars(MaybeRestart)
    /\ WF_tunnelVars(RetryTime)
    /\ WF_tunnelVars(EditWrites)

TunnelFairSpec == TunnelSpec /\ TunnelFairness

-----------------------------------------------------------------------------
(* Properties *)

\* Tunnels, the swap, the heartbeat and the row keep their types; a swap that
\* is over holds nothing, and a watchdog holds a URL exactly while it posts it.
TunnelTypeOK ==
    /\ env \in Envs
    /\ tun \in [Tunnels -> Tunnel]
    /\ current \in Tunnels \cup {NoTunnel}
    /\ swap \in Swap
    /\ applied \in Nonces
    /\ failed \in [nonce : Nonces, wait : BOOLEAN]
    /\ beat \in Beat
    /\ main \in {"runs", "stops", "stopped", "exited"}
    /\ rowUrl \in AnyUrl
    /\ asked \in Nonces /\ nonces \in Nonces
    /\ edit \in [reads : BOOLEAN, nonce : Nonces]
    /\ exits \in 0 .. MaxExits
    /\ revived \in SUBSET Tunnels
    /\ swap.pc = "off" => swap = NoSwap
    /\ \A t \in Tunnels : tun[t].dog = "posts" <=> tun[t].posted # 0

\* While the worker runs, every tunnel process has somebody who will stop it: it
\* is the current one, or the swap holds it.  Only a watchdog that slept when
\* its tunnel was stopped makes one that nobody stops.
NoStrayTunnel ==
    main = "runs" =>
        \A t \in Tunnels : tun[t].proc = "up" => t \in {current, swap.new, swap.old} \cup revived

\* When processes stop ending and nobody asks any more, the current tunnel is
\* up, the row holds its URL, and the worker has applied the nonce of the row,
\* however registrations, heartbeats and swaps overlapped or failed.
Settles ==
    <>[](main = "runs" =>
            /\ tun[current].proc = "up"
            /\ rowUrl = tun[current].url
            /\ asked \in {0, applied})
=============================================================================

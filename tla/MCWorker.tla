------------------------------ MODULE MCWorker ------------------------------
(* One instance for the process of a worker: a torrent with its duplicate   *)
(* start on a worker that keeps the files, and the tunnel.  A behaviour is  *)
(* of one of them, the variables of the other stay as they start.           *)
EXTENDS WorkerSlot, Tunnel

VARIABLE kind

SomeWays == {{"fails", "offline"}, {"edits"}, {"evicts"}, {"shutdown"}}

\* The main thread has ended, and its tunnel with it.
NoTunnelRuns ==
    /\ env = {"shutdown"} /\ main = "exited"
    /\ tun = [t \in Tunnels |-> Off] /\ current = NoTunnel /\ swap = NoSwap /\ beat = NoBeat
    /\ applied = 0 /\ failed = [nonce |-> 0, wait |-> FALSE] /\ rowUrl = 0
    /\ asked = 0 /\ nonces = 0 /\ edit = [reads |-> FALSE, nonce |-> 0]
    /\ exits = 0 /\ revived = {}

WorkerInit ==
    /\ Init
    /\ \/ kind = "slot" /\ NoTunnelRuns
       \/ kind = "tunnel" /\ TunnelInit
WorkerNext ==
    \/ kind = "slot" /\ Next /\ UNCHANGED <<kind, tunnelVars>>
    \/ kind = "tunnel" /\ TunnelNext /\ UNCHANGED <<kind, vars>>

\* Each owes nothing while it rests: idle threads, a tunnel that is gone.
WorkerSpec ==
    /\ WorkerInit /\ [][WorkerNext]_<<kind, vars, tunnelVars>>
    /\ Fairness /\ TunnelFairness
=============================================================================

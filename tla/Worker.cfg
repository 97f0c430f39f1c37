\* One torrent and its duplicate starts on a worker that keeps the files; one tunnel and two more
\* to swap in, one of which ends by itself.
SPECIFICATION
 WorkerSpec
CONSTANTS
 d1 = d1
 t1 = t1
 t2 = t2
 None = None
 Downloads = {d1}
 Threads = {t1, t2}
 Torrents = {d1}
 Location = "local"
 MaxWrites = 0
 Tunnels = {a, b, c}
 First = a
 NoTunnel = NoTunnel
 MaxUrl = 6
 MaxNonce = 1
 MaxExits = 1
 Envs <- SomeWays
INVARIANTS
 NoStrayTunnel
PROPERTIES
 Settles
CHECK_DEADLOCK FALSE

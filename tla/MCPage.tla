------------------------------- MODULE MCPage -------------------------------
(* One instance for what the pages of a browser ask for: the player, the    *)
(* dialog that finds a source for a cloud file, and the downloads its tabs  *)
(* claim for the server.  A behaviour is of one of them, the variables of   *)
(* the others stay as they start.                                           *)
EXTENDS WatchPlayer, CloudPlayback, ServerDownloads

VARIABLE kind

AllJobs == {
    ExpressUrlToServer, ExpressUrlToMega, ExpressTorrentToServer, ExpressTorrentToMega,
    NestUrlToServer, NestUrlToMega, NestTorrentToServer, NestTorrentToMega,
    RustUrlToServer, RustUrlToMega, RustTorrentToServer, RustTorrentToMega}
AnyFaults == {{}, {"restart"}, Faults, Faults \ {"lost"}}

\* A page that has no worker's file to play asks for nothing.
PlayerOff ==
    /\ source = "none" /\ pipe = "failed" /\ forced = {} /\ retries = 0 /\ bad = {}
    /\ el = Empty /\ loaded = {} /\ queue = <<>> /\ promise = FALSE
    /\ guard = NoGuard /\ armed = FALSE /\ last = 0 /\ saved = 0 /\ applied = FALSE
    /\ hidden = FALSE /\ wants = "play" /\ acts = 0

\* A row that no tab claims.
Unclaimed == job = RustUrlToServer /\ env = {}

PageInit ==
    /\ CloudInit /\ ServerInit
    /\ \/ kind = "player" /\ Init /\ broken = {} /\ Unclaimed
       \/ kind = "cloud" /\ PlayerOff /\ Unclaimed
       \/ kind = "server" /\ PlayerOff /\ broken = {}
PageNext ==
    \/ kind = "player" /\ Next /\ UNCHANGED <<kind, cloudVars, serverVars>>
    \/ kind = "cloud" /\ CloudNext /\ UNCHANGED <<kind, playerVars, serverVars>>
    \/ kind = "server" /\ ServerNext /\ UNCHANGED <<kind, playerVars, cloudVars>>

\* Where one of them rests, no action it owes is enabled.
PageSpec ==
    /\ PageInit /\ [][PageNext]_<<kind, playerVars, cloudVars, serverVars>>
    /\ Fairness /\ CloudFairness /\ ServerFairness
=============================================================================

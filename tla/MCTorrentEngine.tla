--------------------------- MODULE MCTorrentEngine --------------------------
(* Two downloads to the disk share a session, or a stream has one for       *)
(* itself; one or both of the peers are known when it starts.  Or a torrent *)
(* of three files, the first two with a piece in common, is streamed to     *)
(* MEGA by one of the other backends.  A behaviour is of one of them, the   *)
(* variables of the other stay as they start.                               *)
EXTENDS TorrentEngine, MegaUpload

CONSTANTS p1, p2, d1, d2

ThreeFiles == <<[first |-> 0, last |-> 1, end |-> 1], [first |-> 1, last |-> 3, end |-> 4],
                [first |-> 4, last |-> 4, end |-> 5]>>
Selections == {<<1, 2, 3>>, <<1, 3>>, <<3, 1>>, <<2, 1>>}

VARIABLE kind
allVars == <<kind, vars, uploadVars>>

Off == stream.pc = "off" /\ \A d \in Disks : disk[d].pc = "off"
Apart ==
    \/ stream.pc = "off" /\ \A d \in Disks : disk[d].pc = "new"
    \/ stream.pc = "new" /\ \A d \in Disks : disk[d].pc = "off"

TorrentsInit ==
    /\ Init /\ known \in {{p1}, Peers} /\ UploadInit
    /\ \/ kind = "engine" /\ Apart /\ backend = "Nest" /\ order = <<1, 2, 3>>
       \/ kind = "upload" /\ Off /\ known = Peers
TorrentsNext ==
    \/ kind = "engine" /\ Next /\ UNCHANGED <<kind, uploadVars>>
    \/ kind = "upload" /\ UploadNext /\ UNCHANGED <<kind, vars>>
TorrentsSpec == TorrentsInit /\ [][TorrentsNext]_allVars /\ Fairness
=============================================================================

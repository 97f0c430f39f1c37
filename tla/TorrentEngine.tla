--------------------------- MODULE TorrentEngine ---------------------------
(***************************************************************************)
(* The torrent engine of the Rust backend (services/torrent): the session   *)
(* of a magnet link keeps its connections; a download to the disk takes     *)
(* them all out and gives each to a worker that pulls pieces from one       *)
(* queue; a download to MEGA asks the connections that it finds in the      *)
(* session, piece after piece.  Several downloads may share the session.    *)
(*                                                                         *)
(* A connection delivers the blocks that were asked for in any order, and   *)
(* old ones also to a later reader; their bytes are right.  The data of a   *)
(* piece is the set of its blocks that were copied into the buffer of       *)
(* zeros.  The order of the queue is left open; a reconnect is one step, it *)
(* holds the lock of the session.  The clean-up of idle sessions is not     *)
(* modelled.                                                                *)
(***************************************************************************)
EXTENDS Naturals, FiniteSets, Sequences

CONSTANTS
    Peers,          \* connections, made or still to be made
    Pieces,         \* the pieces are 1 .. Pieces
    Blocks,         \* the blocks of a piece are 1 .. Blocks
    Disks,          \* downloads to the disk
    PipelineMax,    \* PIPELINE_MAX: pieces under way on one connection
    MaxErrors,      \* consecutive errors that end a worker (3)
    MaxAttempts     \* attempts of one piece of a stream (3)

ASSUME TorrentEngineAssumption ==
    /\ {Pieces, Blocks, PipelineMax, MaxErrors, MaxAttempts} \subseteq Nat \ {0}
    /\ "none" \notin Disks

VARIABLES
    known,      \* connections that exist
    session,    \* session.peers
    choked,     \* connections with am_choked
    dead,       \* connections that broke
    pending,    \* how often a connection owes a block
    disk,       \* the downloads to the disk
    worker,     \* the worker of each connection
    stream,     \* the download to MEGA
    late        \* pieces of the stream asked for while old answers for them were due (history)

vars == <<known, session, choked, dead, pending, disk, worker, stream, late>>

-----------------------------------------------------------------------------
All == 1 .. Pieces
Whole == 1 .. Blocks
Answers == All \X Whole
Nothing == [x \in Answers |-> 0]

NoWorker == [pc |-> "off", owner |-> "none", inflight |-> {}, errors |-> 0]
Fresh(i) == [piece |-> i, count |-> 0, have |-> {}]

Is(p, pc) == worker[p].pc = pc
Mine(d) == {p \in Peers : worker[p].owner = d}
Taken(p) == {x.piece : x \in worker[p].inflight}
Queue(p) == disk[worker[p].owner].queue
PiecesOf(results) == {x.piece : x \in results}

\* The lock of the session: a stream keeps it while it asks for a piece.
Unlocked == stream.pc \notin {"turn", "asking"}

\* All the blocks of a piece are asked for.
Request(p, i) ==
    pending' = [pending EXCEPT ![p] = [x \in Answers |-> IF x[1] = i THEN @[x] + 1 ELSE @[x]]]

\* One of the answers that are due arrives.
Due(p) == {x \in Answers : pending[p][x] > 0}
Arrives(p, x) ==
    /\ x \in Due(p) /\ p \notin dead
    /\ pending' = [pending EXCEPT ![p][x] = @ - 1]

-----------------------------------------------------------------------------
(* A download to the disk: download_pieces_parallel.                       *)

\* A session without connections announces itself and connects.
Connects(d) ==
    /\ disk[d].pc = "new" /\ Unlocked
    /\ disk' = [disk EXCEPT ![d].pc = "take"]
    /\ IF session # {} THEN UNCHANGED <<known, session, choked>>
       ELSE \E S \in SUBSET (Peers \ known) : \E C \in SUBSET S :
               known' = known \cup S /\ session' = S /\ choked' = choked \cup C
    /\ UNCHANGED <<dead, pending, worker, stream, late>>

\* All the connections are taken out; another download may have taken them.
Take(d) ==
    /\ disk[d].pc = "take" /\ Unlocked
    /\ session' = {}
    /\ IF session = {}
       THEN disk' = [disk EXCEPT ![d].pc = "failed"] /\ UNCHANGED worker
       ELSE /\ disk' = [disk EXCEPT ![d].pc = "run", ![d].queue = All]
            /\ worker' = [p \in Peers |-> IF p \in session
                                          THEN [NoWorker EXCEPT !.pc = "wait", !.owner = d]
                                          ELSE worker[p]]
    /\ UNCHANGED <<known, choked, dead, pending, stream, late>>

\* A worker waits until its connection is unchoked and skips all else.
Unchoked(p) ==
    /\ Is(p, "wait") /\ p \notin dead
    /\ choked' = choked \ {p}
    /\ worker' = [worker EXCEPT ![p].pc = "fill"]
    /\ UNCHANGED <<known, session, dead, pending, disk, stream, late>>

WaitSkips(p) ==
    /\ Is(p, "wait")
    /\ \E x \in Due(p) : Arrives(p, x)
    /\ UNCHANGED <<known, session, choked, dead, disk, worker, stream, late>>

WaitEnds(p) ==
    /\ Is(p, "wait")
    /\ worker' = [worker EXCEPT ![p].pc = IF p \in choked THEN "back" ELSE "fill"]
    /\ UNCHANGED <<known, session, choked, dead, pending, disk, stream, late>>

\* A piece of the queue is asked for.
Ask(p, i) ==
    /\ worker[p].pc \in {"fill", "refill"} /\ i \in Queue(p) /\ p \notin dead
    /\ Is(p, "fill") => Cardinality(worker[p].inflight) < PipelineMax
    /\ disk' = [disk EXCEPT ![worker[p].owner].queue = @ \ {i}]
    /\ worker' = [worker EXCEPT ![p].inflight = @ \cup {Fresh(i)},
                                ![p].pc = IF @ = "fill" THEN "fill" ELSE "read"]
    /\ Request(p, i)
    /\ UNCHANGED <<known, session, choked, dead, stream, late>>

\* The requests cannot be sent: the piece goes back to the queue.
AskFails(p) ==
    /\ worker[p].pc \in {"fill", "refill"} /\ Queue(p) # {}
    /\ Is(p, "fill") => Cardinality(worker[p].inflight) < PipelineMax
    /\ dead' = dead \cup {p}
    /\ worker' = [worker EXCEPT ![p].pc = "read"]
    /\ UNCHANGED <<known, session, choked, pending, disk, stream, late>>

\* The pipeline is full, or the queue is empty.
Filled(p) ==
    /\ \/ worker[p].pc \in {"fill", "refill"} /\ Queue(p) = {}
       \/ Is(p, "fill") /\ Cardinality(worker[p].inflight) >= PipelineMax
    /\ worker' = [worker EXCEPT ![p].pc = "read"]
    /\ UNCHANGED <<known, session, choked, dead, pending, disk, stream, late>>

Reads(p) == Is(p, "read") /\ worker[p].inflight # {}

\* A block arrives of a piece that is not under way here.
OldBlock(p, a) ==
    /\ Reads(p) /\ Arrives(p, a)
    /\ a[1] \notin Taken(p)
    /\ UNCHANGED <<known, session, choked, dead, disk, worker, stream, late>>

\* A block of a piece that is under way.  After as many blocks as the piece has,
\* it is sent, and the next one is asked for.
Block(p, a, x) ==
    /\ Reads(p) /\ Arrives(p, a)
    /\ x \in worker[p].inflight /\ x.piece = a[1]
    /\ LET y == [x EXCEPT !.count = @ + 1, !.have = @ \cup {a[2]}]
       IN  IF y.count < Blocks
           THEN /\ worker' = [worker EXCEPT ![p].inflight = (@ \ {x}) \cup {y}]
                /\ UNCHANGED disk
           ELSE /\ worker' = [worker EXCEPT ![p].inflight = @ \ {x}, ![p].errors = 0,
                                            ![p].pc = "refill"]
                /\ disk' = [disk EXCEPT ![worker[p].owner].results =
                               @ \cup {[piece |-> x.piece, have |-> y.have]}]
    /\ UNCHANGED <<known, session, choked, dead, stream, late>>

\* Faulty variant: the worker ends and keeps what was under way.
PutsBackNothing(p) ==
    /\ worker' = [worker EXCEPT ![p].inflight = {}, ![p].pc = "back"]
    /\ UNCHANGED disk

\* The worker ends; what was under way goes back to the queue.
PutsBack(p) ==
    /\ worker' = [worker EXCEPT ![p].inflight = {}, ![p].pc = "back"]
    /\ disk' = [disk EXCEPT ![worker[p].owner].queue = @ \cup Taken(p)]

\* The other side chokes: what it was asked for is void.
Choke(p) ==
    /\ Reads(p) /\ p \notin dead
    /\ choked' = choked \cup {p}
    /\ pending' = [pending EXCEPT ![p] = Nothing]
    /\ PutsBack(p)
    /\ UNCHANGED <<known, session, dead, stream, late>>

Disconnects(p) ==
    /\ Reads(p)
    /\ dead' = dead \cup {p}
    /\ PutsBack(p)
    /\ UNCHANGED <<known, session, choked, pending, stream, late>>

\* A read fails or is not answered in time; a few are survived.
ReadFails(p) ==
    /\ Reads(p)
    /\ IF worker[p].errors + 1 >= MaxErrors THEN PutsBack(p)
       ELSE worker' = [worker EXCEPT ![p].errors = @ + 1] /\ UNCHANGED disk
    /\ UNCHANGED <<known, session, choked, dead, pending, stream, late>>

WorkerEnds(p) ==
    /\ Is(p, "read") /\ worker[p].inflight = {}
    /\ worker' = [worker EXCEPT ![p].pc = "back"]
    /\ UNCHANGED <<known, session, choked, dead, pending, disk, stream, late>>

\* Faulty variant: the results are awaited until all the pieces are there.
ReturnsWhole(d) ==
    /\ disk[d].pc = "run" /\ Unlocked
    /\ PiecesOf(disk[d].results) = All
    /\ session' = Mine(d)
    /\ worker' = [p \in Peers |-> IF worker[p].owner = d THEN NoWorker ELSE worker[p]]
    /\ disk' = [disk EXCEPT ![d].pc = "check"]
    /\ UNCHANGED <<known, choked, dead, pending, stream, late>>

\* All the workers have ended: their connections are the session from now on.
Returns(d) ==
    /\ disk[d].pc = "run" /\ Unlocked
    /\ \A p \in Mine(d) : Is(p, "back")
    /\ session' = Mine(d)
    /\ worker' = [p \in Peers |-> IF worker[p].owner = d THEN NoWorker ELSE worker[p]]
    /\ disk' = [disk EXCEPT ![d].pc = IF PiecesOf(disk[d].results) = All THEN "check" ELSE "failed"]
    /\ UNCHANGED <<known, choked, dead, pending, stream, late>>

\* The hash of each piece is compared before it is written.
Writes(d) ==
    /\ disk[d].pc = "check"
    /\ disk' = [disk EXCEPT ![d].pc =
                   IF \A x \in disk[d].results : x.have = Whole THEN "done" ELSE "failed"]
    /\ UNCHANGED <<known, session, choked, dead, pending, worker, stream, late>>

-----------------------------------------------------------------------------
(* A download to MEGA: the producer of _stream_to_mega.                     *)

\* Some connections are unchoked; what they owed may arrive, and is skipped.
StreamStarts ==
    /\ stream.pc = "new"
    /\ \E U \in SUBSET (session \ dead), S \in SUBSET session :
          /\ choked' = choked \ U
          /\ pending' = [p \in Peers |-> IF p \in S THEN Nothing ELSE pending[p]]
    /\ stream' = [stream EXCEPT !.pc = "idle"]
    /\ UNCHANGED <<known, session, dead, disk, worker, late>>

\* An attempt takes the lock and asks the unchoked connections in turn.
StreamLocks ==
    /\ stream.pc = "idle"
    /\ stream' = [stream EXCEPT !.pc = "turn", !.tried = {}, !.attempt = @ + 1]
    /\ UNCHANGED <<known, session, choked, dead, pending, disk, worker, late>>

Candidates == session \ (choked \cup stream.tried)

StreamAsks(p) ==
    /\ stream.pc = "turn" /\ p \in Candidates \ dead
    /\ Request(p, stream.piece)
    /\ late' = IF \E a \in Due(p) : a[1] = stream.piece THEN late \cup {stream.piece} ELSE late
    /\ stream' = [stream EXCEPT !.pc = "asking", !.peer = p, !.count = 0, !.have = {}]
    /\ UNCHANGED <<known, session, choked, dead, disk, worker>>

StreamAskFails(p) ==
    /\ stream.pc = "turn" /\ p \in Candidates
    /\ dead' = dead \cup {p}
    /\ stream' = [stream EXCEPT !.tried = @ \cup {p}]
    /\ UNCHANGED <<known, session, choked, pending, disk, worker, late>>

\* Blocks of other pieces are skipped.
StreamBlock(a) ==
    LET x == [stream EXCEPT !.count = @ + 1, !.have = @ \cup {a[2]}]
    IN  /\ stream.pc = "asking" /\ Arrives(stream.peer, a)
        /\ stream' = IF a[1] # stream.piece THEN stream
                     ELSE IF x.count < Blocks THEN x
                     ELSE [x EXCEPT !.sent = Append(@, x.have), !.attempt = 0,
                                    !.piece = IF @ = Pieces THEN @ ELSE @ + 1,
                                    !.pc = IF x.piece = Pieces THEN "sent" ELSE "idle"]
        /\ UNCHANGED <<known, session, choked, dead, disk, worker, late>>

\* Faulty variant: what arrived is sent although the connection gave up.
StreamTakesPart ==
    /\ stream.pc = "asking"
    /\ stream' = [stream EXCEPT !.sent = Append(@, stream.have), !.attempt = 0,
                                !.piece = IF @ = Pieces THEN @ ELSE @ + 1,
                                !.pc = IF stream.piece = Pieces THEN "sent" ELSE "idle"]
    /\ UNCHANGED <<known, session, choked, dead, pending, disk, worker, late>>

\* Choked, broken, too late, or too many other messages: the next connection.
StreamPeerFails ==
    LET p == stream.peer
    IN  /\ stream.pc = "asking"
        /\ stream' = [stream EXCEPT !.pc = "turn", !.tried = @ \cup {p}]
        /\ \/ choked' = choked \cup {p} /\ pending' = [pending EXCEPT ![p] = Nothing] /\ UNCHANGED dead
           \/ dead' = dead \cup {p} /\ UNCHANGED <<choked, pending>>
           \/ UNCHANGED <<choked, pending, dead>>
        /\ UNCHANGED <<known, session, disk, worker, late>>

\* No connection could serve the piece.
StreamUnlocks ==
    /\ stream.pc = "turn" /\ Candidates = {}
    /\ stream' = [stream EXCEPT !.pc = IF stream.attempt < MaxAttempts THEN "idle" ELSE "failed"]
    /\ UNCHANGED <<known, session, choked, dead, pending, disk, worker, late>>

\* MEGA has taken all the chunks, or has not.
StreamUploaded ==
    /\ stream.pc = "sent"
    /\ \E pc \in {"done", "failed"} : stream' = [stream EXCEPT !.pc = pc]
    /\ UNCHANGED <<known, session, choked, dead, pending, disk, worker, late>>

-----------------------------------------------------------------------------
Init ==
    /\ known \in SUBSET Peers
    /\ session = known /\ choked = known
    /\ dead = {} /\ late = {}
    /\ pending = [p \in Peers |-> Nothing]
    /\ worker = [p \in Peers |-> NoWorker]
    /\ \E W \in SUBSET Disks :
          disk = [d \in Disks |-> [pc |-> IF d \in W THEN "new" ELSE "off",
                                   queue |-> {}, results |-> {}]]
    /\ \E pc \in {"off", "new"} :
          stream = [pc |-> pc, piece |-> 1, attempt |-> 0, tried |-> {}, peer |-> "none",
                    count |-> 0, have |-> {}, sent |-> <<>>]

WorkerStep(p) ==
    \/ Unchoked(p) \/ WaitSkips(p) \/ WaitEnds(p)
    \/ AskFails(p) \/ Filled(p) \/ \E i \in All : Ask(p, i)
    \/ \E a \in Answers : OldBlock(p, a) \/ \E x \in worker[p].inflight : Block(p, a, x)
    \/ Choke(p) \/ Disconnects(p) \/ ReadFails(p) \/ WorkerEnds(p)

DiskStep(d) == Connects(d) \/ Take(d) \/ Returns(d) \/ Writes(d)

StreamStep ==
    \/ StreamStarts \/ StreamLocks \/ StreamPeerFails \/ StreamUnlocks \/ StreamUploaded
    \/ \E a \in Answers : StreamBlock(a)
    \/ \E p \in Peers : StreamAsks(p) \/ StreamAskFails(p)

Next ==
    \/ \E p \in Peers : WorkerStep(p)
    \/ \E d \in Disks : DiskStep(d)
    \/ StreamStep

Spec == Init /\ [][Next]_vars

\* Waits and requests have limits, and so has a stream that asks.  Nothing limits
\* the reads of a worker: the time-out of the wire is a keep-alive for it.
Fairness ==
    /\ \A p \in Peers : WF_vars(~Reads(p) /\ WorkerStep(p))
    /\ \A d \in Disks : WF_vars(DiskStep(d))
    /\ WF_vars(StreamStep)

FairSpec == Spec /\ Fairness

-----------------------------------------------------------------------------
Underway == [piece : All, count : Nat, have : SUBSET Whole]
Worker == [pc : {"off", "wait", "fill", "refill", "read", "back"}, owner : Disks \cup {"none"},
           inflight : SUBSET Underway, errors : Nat]
Disk == [pc : {"off", "new", "take", "run", "check", "done", "failed"}, queue : SUBSET All,
         results : SUBSET [piece : All, have : SUBSET Whole]]
Stream == [pc : {"off", "new", "idle", "turn", "asking", "sent", "done", "failed"},
           piece : All, attempt : Nat, tried : SUBSET Peers, peer : Peers \cup {"none"},
           count : Nat, have : SUBSET Whole, sent : Seq(SUBSET Whole)]

TypeOK ==
    /\ known \subseteq Peers /\ session \subseteq known /\ choked \subseteq known
    /\ dead \subseteq known /\ late \subseteq All
    /\ pending \in [Peers -> [Answers -> Nat]]
    /\ disk \in [Disks -> Disk]
    /\ worker \in [Peers -> Worker]
    /\ stream \in Stream

\* Each piece of a running download is in one place: in the queue, under way on
\* one connection, or among the results.
PieceInOnePlace ==
    \A d \in Disks : disk[d].pc = "run" =>
        /\ All = disk[d].queue \cup PiecesOf(disk[d].results)
                    \cup UNION {Taken(p) : p \in Mine(d)}
        /\ disk[d].queue \cap PiecesOf(disk[d].results) = {}
        /\ \A p \in Mine(d) :
              /\ Taken(p) \cap (disk[d].queue \cup PiecesOf(disk[d].results)) = {}
              /\ \A q \in Mine(d) \ {p} : Taken(p) \cap Taken(q) = {}

\* A download to the disk that succeeds has written every block.  What was sent
\* to MEGA is whole, for the pieces that were never asked for while an old answer
\* was due: nothing checks their hash.
FilesAreWhole ==
    /\ \A d \in Disks : disk[d].pc = "done" =>
        disk[d].results = {[piece |-> i, have |-> Whole] : i \in All}
    /\ stream.pc = "done" =>
        /\ Len(stream.sent) = Pieces
        /\ \A i \in All \ late : stream.sent[i] = Whole

\* Every download ends, unless one of its workers reads for ever.
DownloadsEnd ==
    /\ \A d \in Disks :
          []<>(\/ disk[d].pc \in {"off", "done", "failed"}
               \/ \E p \in Mine(d) : Reads(p))
    /\ []<>(stream.pc \in {"off", "done", "failed"})
=============================================================================

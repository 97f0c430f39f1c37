----------------------------- MODULE MegaUpload -----------------------------
(***************************************************************************)
(* One torrent streamed to MEGA through a store in memory: streamTorrent-   *)
(* ToMega of the Express and of the Nest backend.  The client of WebTorrent *)
(* is shared by all the downloads of the process; what it does (metadata,   *)
(* pieces, errors) is external.                                             *)
(*                                                                         *)
(* A piece is read as a whole.  WebTorrent keeps some pieces in a cache of   *)
(* its own, so a piece that the store dropped may or may not be read.       *)
(***************************************************************************)
EXTENDS Integers, Sequences, FiniteSets

CONSTANTS
    Files,      \* the files of the torrent: first and last piece, and end, the
                \* piece in which the byte after the file lies
    Orders,     \* fileIndices: the selections, in the order of the request
    Buffer      \* pieces that the store keeps behind the read head (30)

FileIds == DOMAIN Files

ASSUME UploadAssumption ==
    /\ Buffer \in Nat
    /\ Files \in Seq([first : Nat, last : Nat, end : Nat])
    /\ \A f \in FileIds :
        /\ Files[f].first <= Files[f].last
        /\ Files[f].end \in {Files[f].last, Files[f].last + 1}
        /\ \A g \in FileIds : f < g => Files[f].end <= Files[g].first
    /\ Orders \subseteq Seq(FileIds)

VARIABLES
    backend,    \* which of the two implementations
    order,      \* selectedFiles
    phase,      \* where handleTorrent is
    deadline,   \* metadataTimeout is armed
    inClient,   \* the client holds the torrent
    ref,        \* torrentInstance is set
    ticking,    \* progressInterval is set
    finalized,  \* isFinalized
    ending,     \* the status that cleanupAndFinish is going to write
    row,        \* status column of file_downloads
    entry,      \* progressMap
    outcome,    \* the promise that streamTorrentToMega returned
    has,        \* pieces that WebTorrent has verified
    held,       \* pieces in the store
    turn,       \* index of the loop over the selected files
    next,       \* the piece that the stream of the current file reads next
    frontier,   \* lastConsumedPiece + 1
    uploaded    \* files that MEGA has whole

runVars == <<phase, deadline, inClient, ref, ticking, finalized, ending>>
sharedVars == <<row, entry, outcome>>
pieceVars == <<has, held, turn, next, frontier, uploaded>>
uploadVars == <<backend, order, runVars, sharedVars, pieceVars>>

-----------------------------------------------------------------------------
FilePieces(f) == Files[f].first .. Files[f].last
Wanted == UNION {FilePieces(order[k]) : k \in DOMAIN order}
Current == order[turn]
Streaming == phase = "file" /\ ~finalized
Ended == {"completed", "failed"}

\* A promise is settled once.
Settled(as) == IF outcome = "open" THEN as ELSE outcome

-----------------------------------------------------------------------------
(* Faulty variants of the definitions below.  No run uses them as they stand:  *)
(* put in the place of the definition they make a property fail.              *)

\* The frontier runs past the piece that is read next.
EvictedAhead == frontier .. next + 1

\* An error of one file is logged and the loop goes on.
FileSkipped ==
    /\ phase = "file"
    /\ phase' = "loop" /\ turn' = turn + 1
    /\ UNCHANGED <<backend, order, deadline, inClient, ref, ticking, finalized, ending,
                   sharedVars, has, held, next, frontier, uploaded>>

-----------------------------------------------------------------------------
(* The torrent is added                                                    *)

\* The head of cleanupAndFinish: the first call clears the timers and destroys
\* the torrent, if it is known, and the store.
Finish(status) ==
    IF finalized
    THEN UNCHANGED <<deadline, inClient, ref, ticking, finalized, ending, held>>
    ELSE /\ finalized' = TRUE
         /\ ending' = status
         /\ deadline' = FALSE /\ ticking' = FALSE /\ ref' = FALSE
         /\ inClient' = (inClient /\ ~ref)
         /\ held' = {}

\* The client calls back: with the files, or before they are known.
Arrive(listed) ==
    /\ phase = "adding" /\ inClient
    /\ deadline' = FALSE /\ ref' = TRUE
    /\ phase' = IF listed THEN "saving" ELSE "waiting"
    /\ UNCHANGED <<backend, order, inClient, ticking, finalized, ending, sharedVars, pieceVars>>

\* 120 s without metadata.  The torrent is not known yet, so it stays in the
\* client and may still call back.
MetadataTimeout ==
    /\ deadline
    /\ \/ /\ backend = "Express"
          /\ deadline' = FALSE
          /\ outcome' = Settled("rejected")
          /\ UNCHANGED <<inClient, ref, ticking, finalized, ending, held>>
       \/ backend = "Nest" /\ Finish("failed") /\ UNCHANGED outcome
    /\ UNCHANGED <<backend, order, phase, row, entry, has, turn, next, frontier, uploaded>>

\* The shared client reports an error, of this torrent or of another.
ClientError ==
    /\ \/ /\ backend = "Express"
          /\ deadline' = FALSE
          /\ outcome' = IF finalized THEN outcome ELSE Settled("rejected")
          /\ UNCHANGED <<inClient, ref, ticking, finalized, ending, held>>
       \/ backend = "Nest" /\ Finish("failed") /\ UNCHANGED outcome
    /\ UNCHANGED <<backend, order, phase, row, entry, has, turn, next, frontier, uploaded>>

\* A fatal error destroys the client with its torrents.
ClientDestroyed ==
    /\ inClient
    /\ inClient' = FALSE
    /\ UNCHANGED <<backend, order, phase, deadline, ref, ticking, finalized, ending,
                   sharedVars, pieceVars>>

\* The files are known within 45 s ...
Ready ==
    /\ phase = "waiting" /\ inClient
    /\ phase' = "saving"
    /\ UNCHANGED <<backend, order, deadline, inClient, ref, ticking, finalized, ending,
                   sharedVars, pieceVars>>

\* ... or not.  The catch block of Express names a function that is declared
\* in the try block: the error escapes.
ReadyTimeout ==
    /\ phase = "waiting"
    /\ phase' = "broken"
    /\ IF backend = "Nest" THEN Finish("failed")
       ELSE UNCHANGED <<deadline, inClient, ref, ticking, finalized, ending, held>>
    /\ UNCHANGED <<backend, order, sharedVars, has, turn, next, frontier, uploaded>>

\* The row is written by id, whatever it holds by now; an error is passed over.
SaveRow(written) ==
    /\ phase = "saving"
    /\ row' = IF written THEN "downloading" ELSE row
    /\ phase' = "loop" /\ turn' = 1
    /\ ticking' = TRUE
    /\ UNCHANGED <<backend, order, deadline, inClient, ref, finalized, ending, entry, outcome,
                   has, held, next, frontier, uploaded>>

-----------------------------------------------------------------------------
(* The files are uploaded one after the other                              *)

\* A piece of a selected file is verified and put into the store.
Put(p) ==
    /\ inClient /\ phase \in {"saving", "loop", "file", "over"}
    /\ p \in Wanted \ has
    /\ has' = has \cup {p}
    /\ held' = held \cup {p}
    /\ UNCHANGED <<backend, order, runVars, sharedVars, turn, next, frontier, uploaded>>

OpenFile ==
    /\ phase = "loop" /\ ~finalized /\ turn <= Len(order)
    /\ phase' = "file"
    /\ next' = Files[Current].first
    /\ frontier' = 0
    /\ UNCHANGED <<backend, order, deadline, inClient, ref, ticking, finalized, ending,
                   sharedVars, has, held, turn, uploaded>>

\* The transform passes a piece on and evicts what lies behind it.
Consumed == IF next = Files[Current].last THEN Files[Current].end ELSE next + 1
Evicts == Consumed >= frontier + Buffer
Evicted == IF Evicts THEN frontier .. Consumed - Buffer - 1 ELSE {}

ReadPiece ==
    /\ Streaming /\ next \in FilePieces(Current) \cap has
    /\ next' = next + 1
    /\ held' = held \ Evicted
    /\ frontier' = IF Evicts THEN Consumed - Buffer + 1 ELSE frontier
    /\ entry' = "live"
    /\ UNCHANGED <<backend, order, runVars, row, outcome, has, turn, uploaded>>

\* MEGA has the whole file.
FileUploaded ==
    /\ Streaming /\ next > Files[Current].last
    /\ uploaded' = uploaded \cup {Current}
    /\ phase' = "loop" /\ turn' = turn + 1
    /\ UNCHANGED <<backend, order, deadline, inClient, ref, ticking, finalized, ending,
                   sharedVars, has, held, next, frontier>>

\* The source, the transform or MEGA ends with an error, which the loop hands to
\* cleanupAndFinish; the next turn ends the loop.
FileFails ==
    /\ phase = "file"
    /\ Finish("failed")
    /\ phase' = "loop" /\ turn' = turn + 1
    /\ UNCHANGED <<backend, order, sharedVars, has, next, frontier, uploaded>>

\* Memory is short, or Nest hears an error of the torrent.
Abort ==
    /\ ticking /\ ~finalized
    /\ Finish("failed")
    /\ UNCHANGED <<backend, order, phase, sharedVars, has, turn, next, frontier, uploaded>>

LoopEnds ==
    /\ phase = "loop" /\ (finalized \/ turn > Len(order))
    /\ Finish("completed")
    /\ phase' = "over"
    /\ UNCHANGED <<backend, order, sharedVars, has, turn, next, frontier, uploaded>>

-----------------------------------------------------------------------------
(* The rest of cleanupAndFinish                                            *)

WriteStatus ==
    /\ ending \in Ended
    /\ row' = ending
    /\ ending' = IF ending = "completed" THEN "resolved" ELSE "rejected"
    /\ UNCHANGED <<backend, order, phase, deadline, inClient, ref, ticking, finalized, entry,
                   outcome, pieceVars>>

\* The database refuses: Nest goes on, Express leaves entry and promise open.
StatusLost ==
    /\ ending \in Ended
    /\ ending' = CASE backend = "Express" -> "none"
                   [] ending = "completed" -> "resolved"
                   [] OTHER -> "rejected"
    /\ UNCHANGED <<backend, order, phase, deadline, inClient, ref, ticking, finalized,
                   sharedVars, pieceVars>>

MarkDone ==
    /\ ending \in {"resolved", "rejected"}
    /\ entry' = "done"
    /\ outcome' = Settled(ending)
    /\ ending' = "none"
    /\ UNCHANGED <<backend, order, phase, deadline, inClient, ref, ticking, finalized, row,
                   pieceVars>>

-----------------------------------------------------------------------------
UploadInit ==
    /\ backend \in {"Express", "Nest"}
    /\ order \in Orders
    /\ phase = "adding" /\ deadline = TRUE /\ inClient = TRUE
    /\ ref = FALSE /\ ticking = FALSE /\ finalized = FALSE /\ ending = "none"
    /\ row = "downloading" /\ entry = "live" /\ outcome = "open"
    /\ has = {} /\ held = {} /\ uploaded = {}
    /\ turn = 0 /\ next = 0 /\ frontier = 0

UploadNext ==
    \/ \E listed \in BOOLEAN : Arrive(listed)
    \/ MetadataTimeout
    \/ ClientError
    \/ ClientDestroyed
    \/ Ready
    \/ ReadyTimeout
    \/ \E written \in BOOLEAN : SaveRow(written)
    \/ \E p \in Wanted : Put(p)
    \/ OpenFile
    \/ ReadPiece
    \/ FileUploaded
    \/ FileFails
    \/ Abort
    \/ LoopEnds
    \/ WriteStatus
    \/ StatusLost
    \/ MarkDone

UploadSpec == UploadInit /\ [][UploadNext]_uploadVars

-----------------------------------------------------------------------------
(* Properties *)

UploadTypeOK ==
    /\ backend \in {"Express", "Nest"}
    /\ order \in Orders
    /\ phase \in {"adding", "waiting", "broken", "saving", "loop", "file", "over"}
    /\ {deadline, inClient, ref, ticking, finalized} \subseteq BOOLEAN
    /\ ending \in Ended \cup {"none", "resolved", "rejected"}
    /\ row \in {"downloading"} \cup Ended
    /\ entry \in {"live", "done"}
    /\ outcome \in {"open", "resolved", "rejected"}
    /\ has \subseteq Wanted /\ held \subseteq has
    /\ {turn, next} \subseteq Nat /\ frontier \in Nat
    /\ uploaded \subseteq FileIds

\* The run still has to read piece p.
IsAhead(p) ==
    \/ \E k \in DOMAIN order : k > turn /\ p \in FilePieces(order[k])
    \/ /\ turn \in DOMAIN order /\ p \in FilePieces(Current)
       /\ phase = "file" => p >= next

Ascending == \A j, k \in DOMAIN order : j < k => order[j] < order[k]

\* Nothing that is still to be read is evicted, as long as the files were
\* selected in the order of the torrent.
AheadIsHeld == Ascending /\ ~finalized => \A p \in has : IsAhead(p) => p \in held

\* The same for every selection, as the comment has it: only pieces behind what
\* the stream has consumed are evicted.
OnlyConsumedEvicted == ~finalized => \A p \in has : IsAhead(p) => p \in held

\* The store keeps a buffer of so many pieces behind the read head of a file.
BufferIsBounded ==
    Streaming => \A p \in held \cap FilePieces(Current) : p >= next - Buffer - 1

\* A run completes only when MEGA has every file that was selected: a file that
\* failed ends the loop, and nothing that comes later completes it.
CompletedIsWhole ==
    row = "completed" => \A k \in DOMAIN order : order[k] \in uploaded

\* A status that was written last is written over only by Nest, when the metadata
\* of a run that was given up arrives after all.
EndingStays ==
    [][row # row' /\ row \in Ended =>
        backend = "Nest" /\ phase = "saving" /\ finalized]_uploadVars
=============================================================================

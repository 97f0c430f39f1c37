------------------------------ MODULE Playback ------------------------------
(***************************************************************************)
(* On-demand HLS playback of one file in one quality by the worker: the    *)
(* session and its directory, the segment requests of the players, the     *)
(* encoder batch that writes a run of segments, the watcher that publishes *)
(* them, the one-off encode that replaces a segment a stream copy broke,   *)
(* pre-roll, prefetch, a switch to another quality, and the reaper.        *)
(*                                                                         *)
(* A thread holds the session's batch_lock exactly in the pcs `Holding'.   *)
(* What the watcher does with one listed segment is one step, and it ends  *)
(* within the ten seconds that _stop_batch waits for it.  Audio renditions *)
(* and the progressive MP4 have no batches and are left out.               *)
(***************************************************************************)
EXTENDS Naturals, FiniteSets

CONSTANTS
    Requests,       \* segment requests that can be served at one time
    Last,           \* index of the last segment
    BatchLength,    \* HLS_BATCH_SEGMENTS
    Slots,          \* numbers of free job slots, of HLS_MAX_CONCURRENT
    MaxAttempts,    \* _SEGMENT_MAX_VALIDATION_ATTEMPTS
    BackoffAfter    \* batch failures in a row that make _ensure_batch back off

ASSUME PlaybackAssumption ==
    /\ Last \in Nat
    /\ {BatchLength, MaxAttempts, BackoffAfter} \subseteq Nat \ {0}
    /\ Slots \subseteq Nat
    /\ "preroll" \notin Requests /\ "preempt" \notin Requests

Segments == 0 .. Last
Threads == Requests \cup {"preroll", "preempt"}

VARIABLES
    copy,       \* the quality is the original: video is copied, not encoded
    broken,     \* segments that a batch cannot make playable
    live,       \* a session is registered
    evicting,   \* the reaper has popped a session and is going to remove its files
    dir,        \* the output directory exists
    file,       \* what is in seg_<i>.ts
    completed,  \* session.completed
    fallback,   \* session.fallback_segments
    redone,     \* published segments that a batch was started at (history)
    tries,      \* session.segment_validation_failures
    failures,   \* session.batch_failures
    batch,      \* session.batch: its range, its process, and what was consumed
    left,       \* job slots that the jobs of other sessions leave to this one
    slots,      \* what is free of them in the _segment_jobs semaphore
    watched,    \* the quality _active_quality names: none, this one, or another
    pc, seg,    \* each thread and the segment it is about
    prefetches  \* ended batches whose _prefetch_next has still to run

vars == <<copy, broken, live, evicting, dir, file, completed, fallback, redone, tries, failures,
          batch, left, slots, watched, pc, seg, prefetches>>
source == <<copy, broken, left>>
session == <<live, evicting, dir, watched>>

-----------------------------------------------------------------------------
NoBatch == [first |-> 0, end |-> 0, at |-> 0, state |-> "none", stopped |-> FALSE, read |-> 0]
Holding == {"join", "slot", "fallback slot", "encode", "preempting"}
LockFree == \A t \in Threads : pc[t] \notin Holding

SlotFree == slots > 0

Min2(a, b) == IF a <= b THEN a ELSE b
SegmentOk(i) == i \in completed /\ file[i] # "none"
Alive(b) == b.state = "running"
Covers(b, i) == Alive(b) /\ b.first <= i /\ i < b.end + BatchLength

Goto(t, where) == pc' = [pc EXCEPT ![t] = where]

-----------------------------------------------------------------------------
(* Faulty variants of the definitions below.  No run uses them as they stand: *)
(* put in the place of the definition they make a property fail.              *)

\* The batch takes its whole length, whatever is completed in it.
EndOverCompleted(i) == Min2(i + BatchLength, Last + 1)

\* The sweep of partial files takes the published ones too.
SweptAll == [i \in Segments |-> "none"]

-----------------------------------------------------------------------------
(* Sessions.                                                               *)

Fresh == [i \in Segments |-> "none"]

\* Looks the session up, or makes a new one in an emptied directory.
SessionThere ==
    IF live
    THEN UNCHANGED <<live, dir, file, completed, fallback, redone, tries, failures>>
    ELSE /\ live' = TRUE /\ dir' = TRUE /\ file' = Fresh
         /\ completed' = {} /\ fallback' = {} /\ redone' = {}
         /\ tries' = [i \in Segments |-> 0]
         /\ failures' = 0

\* A player asks for a segment.
Ask(r, i) ==
    /\ pc[r] = "idle"
    /\ SessionThere
    /\ watched' = "this"
    /\ Goto(r, "look")
    /\ seg' = [seg EXCEPT ![r] = i]
    /\ UNCHANGED <<source, evicting, batch, slots, prefetches>>

\* The first playlist of a file starts a pre-roll of its first segments.
Playlist ==
    /\ watched = "none"
    /\ pc["preroll"] = "idle"
    /\ SessionThere
    /\ watched' = "this"
    /\ Goto("preroll", "look")
    /\ seg' = [seg EXCEPT !["preroll"] = 0]
    /\ UNCHANGED <<source, evicting, batch, slots, prefetches>>

\* The player selects another quality; its session stops the batch of this one.
Switch ==
    /\ watched = "this" /\ live
    /\ pc["preempt"] = "idle"
    /\ watched' = "other"
    /\ Goto("preempt", "stop")
    /\ UNCHANGED <<source, live, evicting, dir, file, completed, fallback, redone, tries, failures,
                   batch, slots, seg, prefetches>>

\* Nobody has asked for ten minutes: every thread of the session has ended.
Evict ==
    /\ live /\ ~evicting
    /\ \A t \in Threads : pc[t] = "idle"
    /\ prefetches = {}
    /\ ~Alive(batch) /\ batch = NoBatch
    /\ live' = FALSE /\ evicting' = TRUE
    /\ UNCHANGED <<source, dir, watched, file, completed, fallback, redone, tries, failures, batch,
                   slots, pc, seg, prefetches>>

\* The reaper terminates what it popped, after it gave the sessions lock back.
Remove ==
    /\ evicting
    /\ evicting' = FALSE
    /\ dir' = FALSE /\ file' = Fresh
    /\ watched' = IF watched = "this" THEN "none" ELSE watched
    /\ UNCHANGED <<source, live, completed, fallback, redone, tries, failures, batch, slots, pc, seg,
                   prefetches>>

-----------------------------------------------------------------------------
(* The encoder and its watcher.                                            *)

Ends(b, how) == [b EXCEPT !.state = how]

\* ffmpeg closes the segment it writes, lists it, and opens the next or exits.
BatchWrites ==
    /\ batch.state = "running"
    /\ IF ~dir
       THEN /\ batch' = Ends(batch, "failed")
            /\ UNCHANGED file
       ELSE LET next == batch.at + 1
            IN  /\ batch' = IF next = batch.end
                            THEN [batch EXCEPT !.at = next, !.state = "exited"]
                            ELSE [batch EXCEPT !.at = next]
                /\ file' = [i \in Segments |->
                      IF i = batch.at THEN IF i \in broken THEN "bad" ELSE "good"
                      ELSE IF i = next /\ i < batch.end THEN "partial" ELSE file[i]]
    /\ UNCHANGED <<source, session, completed, fallback, redone, tries, failures, slots, pc, seg,
                   prefetches>>

\* It exits with an error, or the watcher kills it: no segment in two minutes.
BatchFails ==
    /\ batch.state = "running"
    /\ batch' = Ends(batch, "failed")
    /\ UNCHANGED <<source, session, file, completed, fallback, redone, tries, failures, slots,
                   pc, seg, prefetches>>

Valid(i) == file[i] = "good"

\* The watcher takes the next listed segment.
Consume ==
    /\ batch # NoBatch
    /\ batch.read < batch.at
    /\ batch' = [batch EXCEPT !.read = @ + 1]
    /\ LET i == batch.read
           tried == tries[i] + 1
       IN  \/ /\ file[i] = "none" \/ i \in completed \cup fallback
              /\ UNCHANGED <<file, completed, fallback, tries>>
           \/ /\ file[i] # "none" /\ i \notin completed \cup fallback
              /\ ~Valid(i) /\ copy
              /\ file' = [file EXCEPT ![i] = "none"]
              /\ fallback' = fallback \cup {i}
              /\ tries' = [tries EXCEPT ![i] = Min2(tried, MaxAttempts)]
              /\ UNCHANGED completed
           \/ /\ file[i] # "none" /\ i \notin completed \cup fallback
              /\ ~Valid(i) /\ ~copy /\ tried < MaxAttempts
              /\ file' = [file EXCEPT ![i] = "none"]
              /\ tries' = [tries EXCEPT ![i] = tried]
              /\ UNCHANGED <<completed, fallback>>
           \/ /\ file[i] # "none" /\ i \notin completed \cup fallback
              /\ Valid(i) \/ (~copy /\ tried >= MaxAttempts)
              /\ completed' = completed \cup {i}
              /\ tries' = [tries EXCEPT ![i] = 0]
              /\ UNCHANGED <<file, fallback>>
    /\ UNCHANGED <<source, session, redone, failures, slots, pc, seg, prefetches>>

\* The watcher ends: the batch is forgotten, its slot is free, and after a
\* success the next batch is prefetched.
WatcherEnds ==
    /\ batch.state \in {"exited", "failed"}
    /\ batch.read = batch.at
    /\ LET failed == batch.state = "failed" /\ ~batch.stopped
       IN  /\ failures' = IF failed THEN Min2(failures + 1, BackoffAfter) ELSE 0
           /\ prefetches' = IF failed \/ batch.stopped THEN prefetches
                            ELSE prefetches \cup {[first |-> batch.first, end |-> batch.end]}
    /\ batch' = NoBatch
    /\ slots' = slots + 1
    /\ UNCHANGED <<source, session, file, completed, fallback, redone, tries, pc, seg>>

-----------------------------------------------------------------------------
(* Starting and stopping batches, under the batch_lock.                    *)

\* _stop_batch: the encoder is killed and leaves its last segment unlisted.
Killed ==
    batch' = IF batch = NoBatch THEN NoBatch
             ELSE [batch EXCEPT !.stopped = TRUE,
                                !.state = IF Alive(batch) THEN "failed" ELSE @]

Swept == [i \in Segments |-> IF i \in completed THEN file[i] ELSE "none"]

\* Where a batch from i on must end: before the first completed segment.
End(i) ==
    LET far == Min2(i + BatchLength, Last + 1)
        done == {c \in i + 1 .. far - 1 : c \in completed}
    IN  IF done = {} THEN far
        ELSE LET first == CHOOSE c \in done : \A d \in done : c <= d
             IN  IF SegmentOk(first) THEN first ELSE far

\* Completed segments whose files are gone are forgotten up to the first one.
Forgotten(i) ==
    LET far == Min2(i + BatchLength, Last + 1)
        done == {c \in i + 1 .. far - 1 : c \in completed}
        gone == {c \in {i} \cup {c \in done : \A d \in done : c <= d} : ~SegmentOk(c)}
    IN  completed \ gone

Batch(i) == [first |-> i, end |-> End(i), at |-> i, state |-> "running",
             stopped |-> FALSE, read |-> i]

\* A batch that cannot start keeps the slot it acquired.
SpawnsLeaking(i, kept) ==
    /\ slots' = slots - 1
    /\ IF dir THEN batch' = Batch(i) /\ file' = [kept EXCEPT ![i] = "partial"]
       ELSE UNCHANGED batch /\ file' = kept
    /\ redone' = IF dir /\ i \in completed THEN redone \cup {i} ELSE redone

\* _start_batch with a slot in hand; without a directory it cannot open its log.
Spawns(i, kept) ==
    /\ IF dir
       THEN batch' = Batch(i) /\ file' = [kept EXCEPT ![i] = "partial"] /\ slots' = slots - 1
       ELSE UNCHANGED <<batch, slots>> /\ file' = kept
    /\ redone' = IF dir /\ i \in completed THEN redone \cup {i} ELSE redone

\* _ensure_batch finds that it must start one: it stops what runs and joins.
Ensure(t) ==
    /\ pc[t] \in {"look", "wait"}
    /\ LockFree
    /\ ~SegmentOk(seg[t]) /\ seg[t] \notin fallback /\ ~Covers(batch, seg[t])
    /\ Killed
    /\ Goto(t, "join")
    /\ UNCHANGED <<source, session, file, completed, fallback, redone, tries, failures, slots, seg,
                   prefetches>>

\* The watcher has ended: partial files go, and a failing source is left alone.
Joined(t) ==
    /\ pc[t] = "join"
    /\ batch = NoBatch
    /\ file' = Swept
    /\ \/ /\ failures = BackoffAfter
          /\ completed' = IF SegmentOk(seg[t]) THEN completed ELSE completed \ {seg[t]}
          /\ Goto(t, IF t \in Requests THEN "refused" ELSE "idle")
          /\ UNCHANGED failures
       \/ /\ failures' = IF failures = BackoffAfter THEN 0 ELSE failures
          /\ completed' = Forgotten(seg[t])
          /\ Goto(t, "slot")
    /\ UNCHANGED <<source, session, fallback, redone, tries, batch, slots, seg, prefetches>>

\* A slot: the batch starts and the lock is released.
Start(t) ==
    /\ pc[t] = "slot"
    /\ SlotFree
    /\ Spawns(seg[t], file)
    /\ Goto(t, IF t \notin Requests THEN "idle" ELSE IF dir THEN "wait" ELSE "refused")
    /\ UNCHANGED <<source, session, completed, fallback, tries, failures, seg,
                   prefetches>>

\* No slot within HLS_SEGMENT_WAIT; the pre-roll does not wait.
NoSlot(t) ==
    /\ pc[t] = "slot"
    /\ ~SlotFree
    /\ Goto(t, IF t \in Requests THEN "refused" ELSE "idle")
    /\ UNCHANGED <<source, session, file, completed, fallback, redone, tries, failures, batch, slots,
                   seg, prefetches>>

\* A pre-roll that finds its segment, or a batch that covers it, has nothing to do.
PrerollEnds ==
    /\ pc["preroll"] = "look"
    /\ Goto("preroll", "idle")
    /\ UNCHANGED <<source, session, file, completed, fallback, redone, tries, failures, batch, slots,
                   seg, prefetches>>

Preempts ==
    /\ pc["preempt"] = "stop"
    /\ LockFree
    /\ Killed
    /\ Goto("preempt", "preempting")
    /\ UNCHANGED <<source, session, file, completed, fallback, redone, tries, failures, slots, seg,
                   prefetches>>

Preempted ==
    /\ pc["preempt"] = "preempting"
    /\ batch = NoBatch
    /\ Goto("preempt", "idle")
    /\ UNCHANGED <<source, session, file, completed, fallback, redone, tries, failures, batch, slots,
                   seg, prefetches>>

\* The first segment of an ended batch that is not published.
ResumeAt(p) ==
    CHOOSE s \in p.first .. p.end :
        /\ \A i \in p.first .. s - 1 : SegmentOk(i)
        /\ s = p.end \/ ~SegmentOk(s)

\* _prefetch_next starts a batch where the ended one stopped, if it finds a slot.
PrefetchStarts(p) ==
    LET s == ResumeAt(p)
    IN  /\ p \in prefetches
        /\ LockFree /\ live /\ batch = NoBatch /\ failures = 0 /\ watched = "this"
        /\ s # p.first /\ s <= Last /\ ~SegmentOk(s) /\ s \notin fallback
        /\ SlotFree
        /\ prefetches' = prefetches \ {p}
        /\ completed' = Forgotten(s)
        /\ Spawns(s, Swept)
        /\ UNCHANGED <<source, session, fallback, tries, failures, pc, seg>>

\* ... or does nothing: an idle viewer, far enough ahead, or one of the tests.
PrefetchEnds(p) ==
    /\ p \in prefetches
    /\ LockFree
    /\ prefetches' = prefetches \ {p}
    /\ UNCHANGED <<source, session, file, completed, fallback, redone, tries, failures, batch, slots,
                   pc, seg>>

-----------------------------------------------------------------------------
(* Segment requests.                                                       *)

Serve(r) ==
    /\ pc[r] \in {"look", "wait"}
    /\ SegmentOk(seg[r])
    /\ Goto(r, "served")
    /\ UNCHANGED <<source, session, file, completed, fallback, redone, tries, failures, batch, slots,
                   seg, prefetches>>

\* The segment needs a transcode of its own.
ToFallback(r) ==
    /\ pc[r] \in {"look", "wait"}
    /\ seg[r] \in fallback
    /\ Goto(r, "fallback")
    /\ UNCHANGED <<source, session, file, completed, fallback, redone, tries, failures, batch, slots,
                   seg, prefetches>>

\* A batch covers the segment.
Waits(r) ==
    /\ pc[r] = "look"
    /\ LockFree
    /\ ~SegmentOk(seg[r]) /\ seg[r] \notin fallback /\ Covers(batch, seg[r])
    /\ Goto(r, "wait")
    /\ UNCHANGED <<source, session, file, completed, fallback, redone, tries, failures, batch,
                   slots, seg, prefetches>>

\* HLS_SEGMENT_WAIT is over.
WaitedEnough(r) ==
    /\ pc[r] = "wait"
    /\ ~SegmentOk(seg[r])
    /\ Goto(r, "refused")
    /\ UNCHANGED <<source, session, file, completed, fallback, redone, tries, failures, batch,
                   slots, seg, prefetches>>

\* A file that is there is taken for the segment, before and under the lock.
Trusts(r) ==
    /\ pc[r] = "fallback"
    /\ file[seg[r]] # "none"
    /\ completed' = completed \cup {seg[r]}
    /\ Goto(r, "served")
    /\ UNCHANGED <<source, session, file, fallback, redone, tries, failures, batch, slots, seg,
                   prefetches>>

LocksFallback(r) ==
    /\ pc[r] = "fallback"
    /\ LockFree
    /\ file[seg[r]] = "none"
    /\ Goto(r, "fallback slot")
    /\ UNCHANGED <<source, session, file, completed, fallback, redone, tries, failures, batch, slots,
                   seg, prefetches>>

StartsEncode(r) ==
    /\ pc[r] = "fallback slot"
    /\ SlotFree
    /\ slots' = slots - 1
    /\ Goto(r, "encode")
    /\ UNCHANGED <<source, session, file, completed, fallback, redone, tries, failures, batch,
                   seg, prefetches>>

NoEncodeSlot(r) ==
    /\ pc[r] = "fallback slot"
    /\ ~SlotFree
    /\ Goto(r, "refused")
    /\ UNCHANGED <<source, session, file, completed, fallback, redone, tries, failures, batch, slots,
                   seg, prefetches>>

\* The transcode replaces the segment's file and publishes it, or fails.
Encoded(r) ==
    /\ pc[r] = "encode"
    /\ \/ /\ dir
          /\ file' = [file EXCEPT ![seg[r]] = "good"]
          /\ completed' = completed \cup {seg[r]}
          /\ Goto(r, "served")
       \/ /\ Goto(r, "refused")
          /\ UNCHANGED <<file, completed>>
    /\ slots' = slots + 1
    /\ UNCHANGED <<source, session, fallback, redone, tries, failures, batch, seg, prefetches>>

\* The file was sent, or 404.
Done(r) ==
    /\ pc[r] \in {"served", "refused"}
    /\ Goto(r, "idle")
    /\ seg' = [seg EXCEPT ![r] = 0]
    /\ UNCHANGED <<source, session, file, completed, fallback, redone, tries, failures, batch, slots,
                   prefetches>>

-----------------------------------------------------------------------------
Init ==
    /\ copy \in BOOLEAN
    /\ broken \in {b \in SUBSET Segments : Cardinality(b) <= 1}
    /\ live = FALSE /\ evicting = FALSE /\ dir = FALSE
    /\ file = Fresh
    /\ completed = {} /\ fallback = {} /\ redone = {}
    /\ tries = [i \in Segments |-> 0]
    /\ failures = 0
    /\ batch = NoBatch
    /\ left \in Slots /\ slots = left
    /\ watched = "none"
    /\ pc = [t \in Threads |-> "idle"]
    /\ seg = [t \in Threads |-> 0]
    /\ prefetches = {}

Resolve(t) == Ensure(t) \/ Joined(t) \/ Start(t) \/ NoSlot(t)
Answer(r) ==
    \/ Serve(r) \/ ToFallback(r) \/ Waits(r) \/ WaitedEnough(r)
    \/ Trusts(r) \/ LocksFallback(r) \/ StartsEncode(r) \/ NoEncodeSlot(r) \/ Encoded(r)

Next ==
    \/ \E r \in Requests : (\E i \in Segments : Ask(r, i)) \/ Answer(r) \/ Done(r)
    \/ \E t \in Requests \cup {"preroll"} : Resolve(t)
    \/ Playlist \/ PrerollEnds \/ Switch \/ Preempts \/ Preempted
    \/ Evict \/ Remove
    \/ BatchWrites \/ BatchFails \/ Consume \/ WatcherEnds
    \/ \E p \in prefetches : PrefetchStarts(p) \/ PrefetchEnds(p)

Spec == Init /\ [][Next]_vars

-----------------------------------------------------------------------------
Files == {"none", "partial", "bad", "good"}
Ranges == [first : Segments, end : 0 .. Last + 1]
Encoder == [first : Segments, end : 0 .. Last + 1, at : 0 .. Last + 1,
            state : {"none", "running", "exited", "failed"},
            stopped : BOOLEAN, read : 0 .. Last + 1]
Steps == {"idle", "look", "wait", "join", "slot", "fallback", "fallback slot", "encode", "served",
          "refused", "stop", "preempting"}

TypeOK ==
    /\ copy \in BOOLEAN /\ broken \subseteq Segments
    /\ live \in BOOLEAN /\ evicting \in BOOLEAN /\ dir \in BOOLEAN
    /\ file \in [Segments -> Files]
    /\ completed \subseteq Segments /\ fallback \subseteq Segments /\ redone \subseteq Segments
    /\ tries \in [Segments -> 0 .. MaxAttempts]
    /\ failures \in 0 .. BackoffAfter
    /\ batch \in Encoder
    /\ left \in Slots /\ slots \in 0 .. left
    /\ watched \in {"none", "this", "other"}
    /\ pc \in [Threads -> Steps]
    /\ seg \in [Threads -> Segments]
    /\ prefetches \subseteq Ranges

\* No path loses or doubles a job slot: a start that fails, a wait that gives
\* up, a batch that is stopped, an encode that errs.
SlotsConserved ==
    slots + (IF batch = NoBatch THEN 0 ELSE 1)
          + Cardinality({t \in Threads : pc[t] = "encode"}) = left

\* What is published is whole as long as the session keeps its directory: no
\* sweep, no new batch and no late kill reaches it.  Segments that go through
\* the fallback are excepted, for a file found in their place is trusted, and
\* so are those that _ensure_batch starts a batch at without a second look after
\* the join published them.
PublishedIsWhole ==
    live /\ dir => \A i \in completed \ (fallback \cup redone) :
        file[i] = "good" \/ (~copy /\ file[i] = "bad")

\* A segment that is being sent is not written to or removed, with the same
\* exceptions and that of a reaper that removes the new session's directory.
NotUnderAReader ==
    [][\A r \in Requests :
          pc[r] = "served" /\ pc'[r] = "served" /\ seg[r] \notin fallback \cup redone' /\ ~evicting
          => file'[seg[r]] = file[seg[r]]]_vars

\* _ensure_batch: "Never overwrite an artifact a player may be reading."  No
\* batch opens a published segment for writing.
NeverOverwritten ==
    [][\A i \in completed : file[i] # "none" => file'[i] # "partial"]_vars
=============================================================================

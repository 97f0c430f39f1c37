---------------------------- MODULE MediaProofs -----------------------------
(***************************************************************************)
(* Proofs about the two encoders of a worker, for any number of requests,  *)
(* segments, job slots, qualities and deleters: Playback keeps its count   *)
(* of job slots, and neither overwrites nor loses what it published;       *)
(* Renders offers a quality only when it is whole.                         *)
(***************************************************************************)
EXTENDS Playback, Renders, FiniteSetTheorems, WellFoundedInduction, TLAPS

\* A set of natural numbers has a least one.
LEMMA Least ==
    ASSUME NEW S, S \subseteq Nat, S # {}
    PROVE  \E n \in S : \A m \in S : n <= m
<1>. DEFINE R == OpToRel(<, Nat)
<1>1. IsWellFoundedOn(R, Nat)
  BY NatLessThanWellFounded
<1>2. ASSUME NEW x \in Nat, NEW y \in Nat, x < y
      PROVE  <<x, y>> \in R
  BY <1>2 DEF OpToRel
<1>. HIDE DEF R
<1>3. \E x \in S : \A y \in S : ~ (<<y, x>> \in R)
  BY <1>1, WFMin
<1>4. PICK n \in S : \A y \in S : ~ (<<y, n>> \in R)
  BY <1>3
<1>5. \A m \in S : ~(m < n)
  BY <1>2, <1>4
<1>. QED
  BY <1>5

-----------------------------------------------------------------------------
(* Playback: the invariant                                                  *)

\* The batch_lock has one holder.
OneHolder ==
    \A t, u \in Threads : pc[t] \in Holding /\ pc[u] \in Holding => t = u

\* Without a session nobody works for it.
Quiet ==
    ~live => /\ \A t \in Threads : pc[t] = "idle"
             /\ prefetches = {} /\ batch = NoBatch

\* The thread that waits for a slot has stopped the batch before.
SlotOfNoBatch == \A t \in Threads : pc[t] = "slot" => batch = NoBatch

\* The segments of a batch: consumed up to read, written up to at.
BatchShape ==
    batch = NoBatch \/ /\ batch.state \in {"running", "exited", "failed"}
                       /\ batch.first < batch.end
                       /\ batch.first <= batch.read /\ batch.read <= batch.at
                       /\ batch.at <= batch.end
                       /\ batch.state = "running" => batch.at < batch.end

PrefetchShape == \A p \in prefetches : p.first < p.end

\* SlotsConserved, with the encodes counted by the lock they hold.
Encoding == \E t \in Threads : pc[t] = "encode"
SlotsCounted ==
    slots + (IF batch = NoBatch THEN 0 ELSE 1) + (IF Encoding THEN 1 ELSE 0) = left

\* A segment is encoded on its own only after a batch broke it.
OnFallback ==
    \A r \in Threads : pc[r] \in {"fallback", "fallback slot", "encode"} => seg[r] \in fallback

\* What is sent is published.
ServedIsPublished ==
    live /\ dir => \A r \in Requests : pc[r] = "served" => seg[r] \in completed

NoDirNoFile == ~dir => file = Fresh

PublishedIsThere == live /\ dir => \A i \in completed : file[i] # "none"

\* A batch has no published segment before it, but the one it was started at
\* and those of the fallback.
NonePublishedAhead ==
    live /\ dir /\ batch.state = "running" =>
        \A i \in completed : batch.at <= i /\ i < batch.end => i \in fallback \cup redone

\* What a batch has listed is written to the end.
ListedIsWritten ==
    batch # NoBatch => \A i \in Segments : batch.first <= i /\ i < batch.at => file[i] # "partial"

\* The threads and the lock; the files and the batch.
Control == OneHolder /\ Quiet /\ SlotOfNoBatch /\ SlotsCounted /\ OnFallback /\ ServedIsPublished
Data == /\ BatchShape /\ PrefetchShape /\ NoDirNoFile /\ PublishedIsThere
        /\ NonePublishedAhead /\ ListedIsWritten /\ PublishedIsWhole

PlaybackInv == TypeOK /\ Control /\ Data

-----------------------------------------------------------------------------
(* Helpers                                                                  *)

\* What the proofs need of the constants.
LEMMA PlaybackConstants ==
    /\ Last \in Nat /\ BatchLength \in Nat \ {0} /\ MaxAttempts \in Nat \ {0}
    /\ BackoffAfter \in Nat \ {0} /\ Slots \subseteq Nat
    /\ "preroll" \notin Requests /\ "preempt" \notin Requests
BY PlaybackAssumption

\* A file has a first segment.
LEMMA FirstSegment == 0 \in Segments
BY PlaybackConstants DEF Segments

\* A batch ends behind its first segment, and before the first published one.
LEMMA EndOfBatch ==
    ASSUME completed \subseteq Segments, NEW i \in Segments
    PROVE  /\ End(i) \in 0 .. Last + 1 /\ i < End(i)
           /\ (\A c \in completed : file[c] # "none") =>
                 \A c \in completed : i < c => ~(c < End(i))
<1>. USE PlaybackConstants
<1>. DEFINE far == Min2(i + BatchLength, Last + 1)
            done == {c \in i + 1 .. far - 1 : c \in completed}
            first == CHOOSE c \in done : \A d \in done : c <= d
<1>1. far \in 0 .. Last + 1 /\ i < far
  BY DEF Min2, Segments
<1>2. CASE done = {}
  <2>1. End(i) = far
    BY <1>2 DEF End
  <2>2. \A c \in completed : i < c => ~(c < far)
    BY <1>1, <1>2 DEF Segments
  <2>. QED
    BY <1>1, <2>1, <2>2
<1>3. CASE done # {}
  <2>1. first \in done /\ \A d \in done : first <= d
    <3>1. done \subseteq Nat
      BY DEF Segments
    <3>2. \E c \in done : \A d \in done : c <= d
      BY <1>3, <3>1, Least
    <3>. HIDE DEF done
    <3>. QED
      BY <3>2
  <2>2. End(i) = IF SegmentOk(first) THEN first ELSE far
    BY <1>3 DEF End
  <2>. HIDE DEF first
  <2>3. first \in completed /\ i < first /\ first < far /\ first \in Nat
    BY <1>1, <2>1 DEF Segments
  <2>4. \A c \in completed : i < c => c >= far \/ first <= c
    BY <1>1, <2>1 DEF Segments
  <2>5. (\A c \in completed : file[c] # "none") => End(i) = first
    BY <2>2, <2>3 DEF SegmentOk
  <2>. HIDE DEF far, done
  <2>6. End(i) \in {first, far}
    BY <2>2
  <2>7. End(i) \in 0 .. Last + 1 /\ i < End(i)
    BY <1>1, <2>3, <2>6
  <2>8. \A c \in completed : i < c => ~(c < first)
    BY <1>1, <2>3, <2>4 DEF Segments
  <2>. QED
    BY <2>5, <2>7, <2>8
<1>. QED
  BY <1>2, <1>3

\* Only segments without a file are forgotten.
LEMMA OnlyGoneForgotten ==
    ASSUME NEW i
    PROVE  /\ Forgotten(i) \subseteq completed
           /\ \A c \in completed : file[c] # "none" => c \in Forgotten(i)
BY DEF Forgotten, SegmentOk

\* A prefetch goes on inside the batch it follows, or at its end.
LEMMA ResumePoint ==
    ASSUME NEW p \in Ranges, p.first < p.end
    PROVE  ResumeAt(p) \in p.first .. p.end
<1>. DEFINE S == {s \in p.first .. p.end : s = p.end \/ ~SegmentOk(s)}
<1>. USE PlaybackConstants
<1>1. p.first \in Nat /\ p.end \in Nat
  BY DEF Ranges, Segments
<1>2. S \subseteq Nat /\ p.end \in S
  BY <1>1
<1>3. PICK s \in S : \A u \in S : s <= u
  BY <1>2, Least
<1>4. \A i \in p.first .. s - 1 : SegmentOk(i)
  <2>. SUFFICES ASSUME NEW i \in p.first .. s - 1, ~SegmentOk(i) PROVE FALSE
    OBVIOUS
  <2>1. s \in p.first .. p.end
    OBVIOUS
  <2>2. i \in S /\ i < s
    BY <1>1, <2>1
  <2>. QED
    BY <1>1, <1>3, <2>1, <2>2
<1>. QED
  BY <1>4 DEF ResumeAt

\* The batch goes on over the same segments, or stops.
SameBatch ==
    /\ batch' \in Encoder /\ BatchShape'
    /\ batch' = NoBatch <=> batch = NoBatch
    /\ batch'.first = batch.first /\ batch'.end = batch.end /\ batch'.at = batch.at
    /\ batch'.state = "running" => batch.state = "running"

\* The numbers of slots.
LEMMA SlotNumbers ==
    ASSUME PlaybackInv
    PROVE  slots \in Nat /\ left \in Nat /\ slots <= left
<1>1. left \in Slots /\ slots \in 0 .. left
  BY DEF PlaybackInv, TypeOK
<1>. QED
  BY <1>1, PlaybackConstants

\* A thread that is at work works for a session.
LEMMA SessionOfThread ==
    ASSUME PlaybackInv, NEW t \in Threads, pc[t] # "idle"
    PROVE  live
BY DEF PlaybackInv, Control, Quiet

\* A batch that is left alone, and one that is killed, goes on over its segments.
LEMMA BatchIsSame ==
    ASSUME PlaybackInv, UNCHANGED batch
    PROVE  SameBatch
BY DEF PlaybackInv, Data, TypeOK, SameBatch, BatchShape

\* The kill ends the process, not the range.
LEMMA BatchIsKilled ==
    ASSUME PlaybackInv, Killed
    PROVE  SameBatch
<1>1. CASE batch = NoBatch
  BY <1>1, BatchIsSame DEF Killed
<1>2. CASE batch # NoBatch
  <2>1. /\ batch \in Encoder /\ BatchShape
    BY DEF PlaybackInv, Data, TypeOK
  <2>2. batch' = [batch EXCEPT !.stopped = TRUE,
                               !.state = IF Alive(batch) THEN "failed" ELSE @]
    BY <1>2 DEF Killed
  <2>3. batch' \in Encoder /\ batch'.state \in {"exited", "failed"}
    BY <1>2, <2>1, <2>2 DEF Encoder, BatchShape, Alive
  <2>. QED
    BY <1>2, <2>1, <2>2, <2>3 DEF SameBatch, BatchShape, Encoder, NoBatch
<1>. QED
  BY <1>1, <1>2

-----------------------------------------------------------------------------
(* Steps of one thread                                                      *)

Moves(t, where) ==
    /\ Goto(t, where)
    /\ seg' \in {seg, [seg EXCEPT ![t] = 0]}
    /\ seg' # seg => where = "idle"

\* A thread that goes on takes the lock only when nobody has it, and brings
\* with it what the next step needs.
LEMMA ControlMoves ==
    ASSUME PlaybackInv, SameBatch, NEW t \in Threads, NEW where \in Steps, Moves(t, where),
           pc[t] # "idle", pc[t] # "encode", where # "encode",
           where \in Holding => LockFree \/ pc[t] \in Holding,
           where = "slot" => batch = NoBatch,
           where \in {"fallback", "fallback slot"} => seg[t] \in fallback,
           where = "served" => seg[t] \in completed',
           live /\ dir => \A r \in Requests \ {t} : pc[r] = "served" => seg[r] \in completed',
           fallback' = fallback, UNCHANGED <<live, dir, left, slots, prefetches>>
    PROVE  /\ Control'
           /\ pc' \in [Threads -> Steps] /\ seg' \in [Threads -> Segments]
<1>. USE PlaybackConstants
<1>1. /\ TypeOK /\ Control /\ live
  BY DEF PlaybackInv, Control, Quiet
<1>2. /\ pc \in [Threads -> Steps] /\ seg \in [Threads -> Segments]
  BY <1>1 DEF TypeOK
<1>3. pc' \in [Threads -> Steps] /\ seg' \in [Threads -> Segments]
  <2>1. 0 \in Segments
    BY FirstSegment
  <2>2. seg' = seg \/ seg' = [seg EXCEPT ![t] = 0]
    BY DEF Moves
  <2>. QED
    BY <1>2, <2>1, <2>2 DEF Moves, Goto
<1>4. /\ pc'[t] = where /\ \A u \in Threads \ {t} : pc'[u] = pc[u] /\ seg'[u] = seg[u]
      /\ where # "idle" => seg'[t] = seg[t]
  BY <1>2 DEF Moves, Goto
<1>5. OneHolder'
  BY <1>1, <1>4 DEF OneHolder, Control, LockFree
<1>6. Quiet'
  BY <1>1 DEF Quiet
<1>7. SlotOfNoBatch'
  BY <1>1, <1>4 DEF SlotOfNoBatch, Control, SameBatch
<1>8. Encoding' <=> Encoding
  BY <1>4 DEF Encoding
<1>9. SlotsCounted'
  BY <1>1, <1>8 DEF SlotsCounted, Control, SameBatch
<1>10. OnFallback'
  BY <1>1, <1>4 DEF OnFallback, Control
<1>11. ServedIsPublished'
  BY <1>1, <1>4 DEF ServedIsPublished, Control, Threads
<1>. QED
  BY <1>3, <1>5, <1>6, <1>7, <1>9, <1>10, <1>11 DEF Control

\* The files and the batch stay what they were when only a thread moves.
LEMMA DataStays ==
    ASSUME PlaybackInv, SameBatch,
           UNCHANGED <<copy, live, dir, file, completed, fallback, redone, prefetches>>
    PROVE  Data'
BY DEF PlaybackInv, Data, SameBatch, PrefetchShape, NoDirNoFile, PublishedIsThere,
       NonePublishedAhead, ListedIsWritten, PublishedIsWhole, Fresh

\* So a step that only moves its thread on keeps the invariant.
LEMMA ThreadMoves ==
    ASSUME PlaybackInv, SameBatch, NEW t \in Threads, NEW where \in Steps, Moves(t, where),
           pc[t] # "idle", pc[t] # "encode", where # "encode",
           where \in Holding => LockFree \/ pc[t] \in Holding,
           where = "slot" => batch = NoBatch,
           where \in {"fallback", "fallback slot"} => seg[t] \in fallback,
           where = "served" => seg[t] \in completed,
           UNCHANGED <<source, session, file, completed, fallback, redone, tries, failures, slots,
                       prefetches>>
    PROVE  PlaybackInv'
<1>1. Control' /\ pc' \in [Threads -> Steps] /\ seg' \in [Threads -> Segments]
  <2>1. live /\ dir => \A r \in Requests \ {t} : pc[r] = "served" => seg[r] \in completed'
    BY DEF PlaybackInv, Control, ServedIsPublished
  <2>. QED
    BY <2>1, ControlMoves DEF source, session
<1>2. Data'
  BY DataStays DEF source, session
<1>3. TypeOK'
  BY <1>1 DEF PlaybackInv, TypeOK, SameBatch, source, session
<1>. QED
  BY <1>1, <1>2, <1>3 DEF PlaybackInv

\* The steps that only move their thread on.
LEMMA WaitsKeep ==
    ASSUME PlaybackInv, NEW t \in Threads,
           \/ Serve(t) \/ ToFallback(t) \/ Waits(t) \/ WaitedEnough(t) \/ LocksFallback(t)
           \/ NoEncodeSlot(t) \/ NoSlot(t) \/ Done(t) \/ Ensure(t)
    PROVE  PlaybackInv'
<1>1. CASE Serve(t)
  BY <1>1, BatchIsSame, ThreadMoves DEF Serve, Moves, Steps, Holding, SegmentOk
<1>2. CASE ToFallback(t)
  BY <1>2, BatchIsSame, ThreadMoves DEF ToFallback, Moves, Steps, Holding
<1>3. CASE Waits(t)
  BY <1>3, BatchIsSame, ThreadMoves DEF Waits, Moves, Steps, Holding
<1>4. CASE WaitedEnough(t)
  BY <1>4, BatchIsSame, ThreadMoves DEF WaitedEnough, Moves, Steps, Holding
<1>5. CASE LocksFallback(t)
  BY <1>5, BatchIsSame, ThreadMoves
     DEF LocksFallback, Moves, Steps, Holding, PlaybackInv, Control, OnFallback
<1>6. CASE NoEncodeSlot(t)
  BY <1>6, BatchIsSame, ThreadMoves DEF NoEncodeSlot, Moves, Steps, Holding
<1>7. CASE NoSlot(t)
  BY <1>7, BatchIsSame, ThreadMoves DEF NoSlot, Moves, Steps, Holding
<1>8. CASE Done(t)
  BY <1>8, BatchIsSame, ThreadMoves DEF Done, Moves, Steps, Holding
<1>9. CASE Ensure(t)
  BY <1>9, BatchIsKilled, ThreadMoves DEF Ensure, Moves, Steps, Holding
<1>. QED
  BY <1>1, <1>2, <1>3, <1>4, <1>5, <1>6, <1>7, <1>8, <1>9

\* Pre-roll and pre-emption.
LEMMA PreemptKeeps ==
    ASSUME PlaybackInv, PrerollEnds \/ Preempts \/ Preempted
    PROVE  PlaybackInv'
<1>. "preroll" \in Threads /\ "preempt" \in Threads
  BY DEF Threads
<1>1. CASE PrerollEnds
  BY <1>1, BatchIsSame, ThreadMoves DEF PrerollEnds, Moves, Steps, Holding
<1>2. CASE Preempts
  BY <1>2, BatchIsKilled, ThreadMoves DEF Preempts, Moves, Steps, Holding
<1>3. CASE Preempted
  BY <1>3, BatchIsSame, ThreadMoves DEF Preempted, Moves, Steps, Holding
<1>. QED
  BY <1>1, <1>2, <1>3

-----------------------------------------------------------------------------
(* Steps of the session                                                     *)

\* A request, or the first playlist, finds the session or makes it anew.
LEMMA OpensKeeps ==
    ASSUME PlaybackInv, NEW t \in Threads, NEW i \in Segments,
           pc[t] = "idle", SessionThere, watched' = "this", Goto(t, "look"),
           seg' = [seg EXCEPT ![t] = i],
           UNCHANGED <<source, evicting, batch, slots, prefetches>>
    PROVE  PlaybackInv'
<1>. USE PlaybackConstants
<1>1. /\ TypeOK /\ Control /\ Data
  BY DEF PlaybackInv
<1>2. /\ pc \in [Threads -> Steps] /\ seg \in [Threads -> Segments]
  BY <1>1 DEF TypeOK
<1>3. /\ pc' \in [Threads -> Steps] /\ seg' \in [Threads -> Segments]
      /\ pc'[t] = "look" /\ \A u \in Threads \ {t} : pc'[u] = pc[u] /\ seg'[u] = seg[u]
  BY <1>2 DEF Goto, Steps
<1>4. /\ live' = TRUE /\ batch' = batch /\ slots' = slots /\ left' = left
      /\ copy' = copy /\ prefetches' = prefetches
  BY DEF SessionThere, source
<1>5. OneHolder'
  BY <1>1, <1>3 DEF OneHolder, Control, Holding
<1>6. Quiet' /\ SlotOfNoBatch'
  BY <1>1, <1>3, <1>4 DEF Quiet, SlotOfNoBatch, Control
<1>7. SlotsCounted'
  <2>1. Encoding' <=> Encoding
    BY <1>3 DEF Encoding
  <2>. QED
    BY <1>1, <1>4, <2>1 DEF SlotsCounted, Control
<1>8. CASE live
  <2>1. UNCHANGED <<live, dir, file, completed, fallback, redone, tries, failures>>
    BY <1>8 DEF SessionThere
  <2>2. OnFallback' /\ ServedIsPublished'
    BY <1>1, <1>3, <2>1 DEF OnFallback, ServedIsPublished, Control, Threads
  <2>3. Data'
    BY <1>4, <2>1, BatchIsSame, DataStays
  <2>4. TypeOK'
    BY <1>1, <1>3, <1>4, <2>1 DEF TypeOK, source
  <2>. QED
    BY <1>5, <1>6, <1>7, <2>2, <2>3, <2>4 DEF PlaybackInv, Control
<1>9. CASE ~live
  <2>1. /\ dir' = TRUE /\ file' = Fresh
        /\ completed' = {} /\ fallback' = {} /\ redone' = {}
        /\ tries' = [j \in Segments |-> 0] /\ failures' = 0
    BY <1>9 DEF SessionThere
  <2>2. /\ \A u \in Threads : pc[u] = "idle"
        /\ prefetches = {} /\ batch = NoBatch
    BY <1>1, <1>9 DEF Control, Quiet
  <2>3. OnFallback' /\ ServedIsPublished'
    BY <1>3, <2>2 DEF OnFallback, ServedIsPublished, Threads
  <2>4. Data'
    BY <1>4, <2>1, <2>2 DEF Data, BatchShape, PrefetchShape, NoDirNoFile, PublishedIsThere,
                            NonePublishedAhead, ListedIsWritten, PublishedIsWhole
  <2>5. TypeOK'
    <3>1. file' \in [Segments -> Files] /\ tries' \in [Segments -> 0 .. MaxAttempts]
      BY <2>1 DEF Fresh, Files
    <3>. QED
      BY <1>1, <1>3, <1>4, <2>1, <3>1 DEF TypeOK, source
  <2>. QED
    BY <1>5, <1>6, <1>7, <2>3, <2>4, <2>5 DEF PlaybackInv, Control
<1>. QED
  BY <1>8, <1>9

\* Another quality is selected: a thread goes and stops the batch.
LEMMA SwitchKeeps ==
    ASSUME PlaybackInv, Switch
    PROVE  PlaybackInv'
<1>. "preempt" \in Threads
  BY DEF Threads
<1>1. /\ TypeOK /\ Control /\ SameBatch
  BY BatchIsSame DEF PlaybackInv, Switch
<1>2. pc \in [Threads -> Steps]
  BY <1>1 DEF TypeOK
<1>3. /\ pc' \in [Threads -> Steps]
      /\ pc["preempt"] = "idle" /\ pc'["preempt"] = "stop"
      /\ \A u \in Threads \ {"preempt"} : pc'[u] = pc[u]
  BY <1>2 DEF Switch, Goto, Steps
<1>4. TypeOK'
  BY <1>1, <1>3 DEF TypeOK, Switch, source
<1>5. Encoding' <=> Encoding
  BY <1>3 DEF Encoding
<1>6. Control'
  BY <1>1, <1>3, <1>5 DEF Control, OneHolder, Quiet, SlotOfNoBatch, SlotsCounted, OnFallback,
                          ServedIsPublished, Switch, Holding, source, Threads
<1>7. Data'
  BY <1>1, DataStays DEF Switch, source
<1>. QED
  BY <1>4, <1>6, <1>7 DEF PlaybackInv

\* The reaper takes the session out, and later removes its files.
LEMMA ReaperKeeps ==
    ASSUME PlaybackInv, Evict \/ Remove
    PROVE  PlaybackInv'
<1>1. /\ TypeOK /\ Control /\ Data
  BY DEF PlaybackInv
<1>2. CASE Evict
  <2>1. TypeOK'
    BY <1>1, <1>2 DEF TypeOK, Evict, source
  <2>2. Encoding' <=> Encoding
    BY <1>2 DEF Encoding, Evict
  <2>3. Control'
    BY <1>1, <1>2, <2>2 DEF Control, OneHolder, Quiet, SlotOfNoBatch, SlotsCounted, OnFallback,
                            ServedIsPublished, Evict, source
  <2>4. Data'
    BY <1>1, <1>2 DEF Data, BatchShape, PrefetchShape, NoDirNoFile, PublishedIsThere,
                      NonePublishedAhead, ListedIsWritten, PublishedIsWhole, Evict, source, Fresh
  <2>. QED
    BY <2>1, <2>3, <2>4 DEF PlaybackInv
<1>3. CASE Remove
  <2>1. Fresh \in [Segments -> Files]
    BY DEF Fresh, Files
  <2>2. TypeOK'
    BY <1>1, <1>3, <2>1 DEF TypeOK, Remove, source
  <2>3. Encoding' <=> Encoding
    BY <1>3 DEF Encoding, Remove
  <2>4. Control'
    BY <1>1, <1>3, <2>3 DEF Control, OneHolder, Quiet, SlotOfNoBatch, SlotsCounted, OnFallback,
                            ServedIsPublished, Remove, source
  <2>5. Data'
    <3>1. \A i \in Segments : file'[i] = "none"
      BY <1>3 DEF Remove, Fresh
    <3>. QED
      BY <1>1, <1>3, <3>1 DEF Data, BatchShape, PrefetchShape, NoDirNoFile, PublishedIsThere,
                        NonePublishedAhead, ListedIsWritten, PublishedIsWhole, Remove, source, Fresh
  <2>. QED
    BY <2>2, <2>4, <2>5 DEF PlaybackInv
<1>. QED
  BY <1>2, <1>3

-----------------------------------------------------------------------------
(* Steps of the encoder and of its watcher                                  *)

\* A step that leaves the threads and the slots alone, and the published
\* segments published.
LEMMA ControlStays ==
    ASSUME PlaybackInv, completed \subseteq completed', fallback \subseteq fallback',
           batch' = NoBatch <=> batch = NoBatch,
           UNCHANGED <<live, dir, left, slots, pc, seg, prefetches>>
    PROVE  Control'
<1>1. Control
  BY DEF PlaybackInv
<1>2. Encoding' <=> Encoding
  BY DEF Encoding
<1>. QED
  BY <1>1, <1>2 DEF Control, OneHolder, Quiet, SlotOfNoBatch, SlotsCounted, OnFallback,
                    ServedIsPublished

\* The encoder closes a segment and opens the next one.
LEMMA BatchWritesKeeps ==
    ASSUME PlaybackInv, BatchWrites
    PROVE  PlaybackInv'
<1>. USE PlaybackConstants
<1>1. /\ TypeOK /\ Data /\ batch.state = "running" /\ batch \in Encoder /\ batch # NoBatch
  BY DEF PlaybackInv, BatchWrites, TypeOK, NoBatch
<1>2. UNCHANGED <<copy, live, dir, left, slots, pc, seg, prefetches, completed, fallback, redone,
                  tries, failures, broken, evicting, watched>>
  BY DEF BatchWrites, source, session
<1>3. CASE ~dir
  <2>1. batch' = [batch EXCEPT !.state = "failed"] /\ file' = file
    BY <1>3 DEF BatchWrites, Ends
  <2>2. SameBatch
    BY <1>1, <2>1 DEF SameBatch, BatchShape, Encoder, NoBatch, Data
  <2>3. Data'
    BY <1>2, <2>1, <2>2, DataStays
  <2>4. Control'
    BY <1>2, <2>2, ControlStays DEF SameBatch
  <2>5. TypeOK'
    BY <1>1, <1>2, <2>1, <2>2 DEF TypeOK, SameBatch
  <2>. QED
    BY <2>3, <2>4, <2>5 DEF PlaybackInv
<1>4. CASE dir
  <2>. DEFINE next == batch.at + 1
              s == IF next = batch.end THEN "exited" ELSE "running"
  <2>1. /\ batch.at \in Nat /\ batch.end \in Nat /\ batch.end <= Last + 1
        /\ batch.first \in Nat /\ batch.read \in Nat
        /\ batch.first < batch.end /\ batch.first <= batch.read /\ batch.read <= batch.at
        /\ batch.at < batch.end
    BY <1>1 DEF Data, BatchShape, Encoder, Segments
  <2>2. batch' = [batch EXCEPT !.at = next, !.state = s]
    BY <1>1, <1>4 DEF BatchWrites, Encoder
  <2>3. file' = [i \in Segments |->
                      IF i = batch.at THEN IF i \in broken THEN "bad" ELSE "good"
                      ELSE IF i = next /\ i < batch.end THEN "partial" ELSE file[i]]
    BY <1>4 DEF BatchWrites
  <2>4. /\ next \in 0 .. Last + 1 /\ next <= batch.end /\ next = batch.at + 1
        /\ s \in {"exited", "running"} /\ (s = "running" => next < batch.end)
    BY <2>1
  <2>. HIDE DEF next, s
  <2>5. /\ batch' \in Encoder /\ batch'.first = batch.first /\ batch'.end = batch.end
        /\ batch'.read = batch.read /\ batch'.at = next /\ batch'.state = s /\ batch' # NoBatch
    BY <1>1, <2>2, <2>4 DEF Encoder, NoBatch
  <2>6. BatchShape'
    BY <2>1, <2>4, <2>5 DEF BatchShape
  <2>7. file \in [Segments -> Files] /\ file' \in [Segments -> Files]
    BY <1>1, <2>3 DEF TypeOK, Files
  <2>8. TypeOK'
    BY <1>1, <1>2, <2>5, <2>7 DEF TypeOK
  <2>9. Control'
    BY <1>1, <1>2, <2>5, ControlStays
  <2>10. PrefetchShape' /\ NoDirNoFile'
    BY <1>1, <1>2, <1>4 DEF Data, PrefetchShape, NoDirNoFile
  <2>11. ASSUME NEW i \in completed, live
         PROVE  /\ file'[i] # "none"
                /\ batch.at <= i /\ i < batch.end => i \in fallback \cup redone
                /\ i \notin fallback \cup redone => file'[i] = file[i]
    <3>1. i \in Segments /\ i \in Nat /\ file[i] # "none"
      BY <1>1, <1>4, <2>11 DEF TypeOK, Segments, Data, PublishedIsThere
    <3>2. batch.at <= i /\ i < batch.end => i \in fallback \cup redone
      BY <1>1, <1>4, <2>11 DEF Data, NonePublishedAhead
    <3>. QED
      BY <2>1, <2>3, <2>4, <3>1, <3>2
  <2>12. PublishedIsThere' /\ PublishedIsWhole'
    BY <1>1, <1>2, <1>4, <2>11 DEF Data, PublishedIsThere, PublishedIsWhole
  <2>13. NonePublishedAhead'
    <3>1. \A i \in completed : i \in Nat
      BY <1>1 DEF TypeOK, Segments
    <3>. QED
      BY <1>2, <2>1, <2>4, <2>5, <2>11, <3>1 DEF NonePublishedAhead
  <2>14. ListedIsWritten'
    <3>. SUFFICES ASSUME NEW i \in Segments, batch.first <= i, i < next PROVE file'[i] # "partial"
      BY <2>5 DEF ListedIsWritten
    <3>1. CASE i = batch.at
      BY <2>3, <3>1
    <3>2. CASE i # batch.at
      <4>1. i < batch.at /\ i # next
        BY <2>1, <2>4, <3>2 DEF Segments
      <4>. QED
        BY <1>1, <2>3, <3>2, <4>1 DEF Data, ListedIsWritten
    <3>. QED
      BY <3>1, <3>2
  <2>. QED
    BY <2>6, <2>8, <2>9, <2>10, <2>12, <2>13, <2>14 DEF PlaybackInv, Data
<1>. QED
  BY <1>3, <1>4

\* It fails, or is killed.
LEMMA BatchFailsKeeps ==
    ASSUME PlaybackInv, BatchFails
    PROVE  PlaybackInv'
<1>1. /\ TypeOK /\ Data /\ batch.state = "running" /\ batch \in Encoder
      /\ batch' = [batch EXCEPT !.state = "failed"]
      /\ UNCHANGED <<copy, live, dir, left, slots, pc, seg, prefetches, completed, fallback, redone,
                     tries, failures, broken, evicting, watched, file>>
  BY DEF PlaybackInv, BatchFails, TypeOK, Ends, source, session
<1>2. SameBatch
  BY <1>1 DEF SameBatch, BatchShape, Encoder, NoBatch, Data
<1>3. Data'
  BY <1>1, <1>2, DataStays
<1>4. Control'
  BY <1>1, <1>2, ControlStays DEF SameBatch
<1>5. TypeOK'
  BY <1>1, <1>2 DEF TypeOK, SameBatch
<1>. QED
  BY <1>3, <1>4, <1>5 DEF PlaybackInv

\* The watcher takes a listed segment: it publishes it, or discards it.
LEMMA ConsumeKeeps ==
    ASSUME PlaybackInv, Consume
    PROVE  PlaybackInv'
<1>. USE PlaybackConstants
<1>. DEFINE i == batch.read
            n == batch.read + 1
<1>1. /\ TypeOK /\ Data /\ batch \in Encoder /\ batch # NoBatch /\ batch.read < batch.at
      /\ UNCHANGED <<copy, live, dir, left, slots, pc, seg, prefetches, redone,
                     failures, broken, evicting, watched>>
  BY DEF PlaybackInv, Consume, TypeOK, source, session
<1>2. batch' = [batch EXCEPT !.read = n]
  BY <1>1 DEF Consume, Encoder
<1>3. /\ batch.at \in Nat /\ batch.end \in Nat /\ batch.end <= Last + 1
      /\ batch.first \in Nat /\ batch.read \in Nat
      /\ batch.first < batch.end /\ batch.first <= batch.read /\ batch.at <= batch.end
      /\ n \in 0 .. Last + 1 /\ n <= batch.at /\ batch.first <= n
      /\ i \in Segments
  BY <1>1 DEF Data, BatchShape, Encoder, Segments
<1>4. SameBatch
  <2>. HIDE DEF n, i
  <2>1. /\ batch' \in Encoder /\ batch'.first = batch.first /\ batch'.end = batch.end
        /\ batch'.read = n /\ batch'.at = batch.at /\ batch'.state = batch.state
    BY <1>1, <1>2, <1>3 DEF Encoder
  <2>2. batch.state # "none"
    BY <1>1 DEF Data, BatchShape
  <2>3. batch' # NoBatch
    BY <2>1, <2>2 DEF NoBatch
  <2>. QED
    BY <1>1, <1>3, <2>1, <2>3 DEF SameBatch, BatchShape, Data
<1>5. file[i] # "partial" /\ file \in [Segments -> Files] /\ tries \in [Segments -> 0 .. MaxAttempts]
  BY <1>1, <1>3 DEF Data, ListedIsWritten, TypeOK
<1>6. \/ UNCHANGED <<file, completed, fallback, tries>>
      \/ /\ i \notin completed /\ dir /\ completed' = completed
         /\ file' = [file EXCEPT ![i] = "none"]
         /\ fallback' \in {fallback, fallback \cup {i}}
         /\ tries' \in [Segments -> 0 .. MaxAttempts]
      \/ /\ i \notin completed /\ file' = file /\ fallback' = fallback
         /\ completed' = completed \cup {i} /\ file[i] # "none"
         /\ file[i] = "good" \/ (~copy /\ file[i] = "bad")
         /\ tries' \in [Segments -> 0 .. MaxAttempts]
  <2>. HIDE DEF i
  <2>. DEFINE tried == tries[i] + 1
  <2>1. tried \in Nat /\ Min2(tried, MaxAttempts) \in 0 .. MaxAttempts
    BY <1>3, <1>5 DEF Min2
  <2>2. file[i] # "none" => dir
    BY <1>1, <1>3 DEF Data, NoDirNoFile, Fresh
  <2>3. file[i] \in Files
    BY <1>3, <1>5
  <2>4. \/ UNCHANGED <<file, completed, fallback, tries>>
        \/ /\ file[i] # "none" /\ i \notin completed
           /\ file' = [file EXCEPT ![i] = "none"]
           /\ fallback' = fallback \cup {i}
           /\ tries' = [tries EXCEPT ![i] = Min2(tried, MaxAttempts)]
           /\ UNCHANGED completed
        \/ /\ file[i] # "none" /\ i \notin completed
           /\ tried < MaxAttempts
           /\ file' = [file EXCEPT ![i] = "none"]
           /\ tries' = [tries EXCEPT ![i] = tried]
           /\ UNCHANGED <<completed, fallback>>
        \/ /\ file[i] # "none" /\ i \notin completed
           /\ file[i] = "good" \/ ~copy
           /\ completed' = completed \cup {i}
           /\ tries' = [tries EXCEPT ![i] = 0]
           /\ UNCHANGED <<file, fallback>>
    BY DEF Consume, Valid, i
  <2>. HIDE DEF tried
  <2>5. tried < MaxAttempts => tried \in 0 .. MaxAttempts
    BY <2>1
  <2>. QED
    BY <1>5, <2>1, <2>2, <2>3, <2>4, <2>5 DEF Files
<1>7. TypeOK'
  <2>. HIDE DEF i
  <2>1. /\ file' \in [Segments -> Files] /\ tries' \in [Segments -> 0 .. MaxAttempts]
        /\ completed' \subseteq Segments /\ fallback' \subseteq Segments
    BY <1>1, <1>3, <1>5, <1>6 DEF TypeOK, Files
  <2>. QED
    BY <1>1, <1>4, <2>1 DEF TypeOK, SameBatch
<1>8. Control'
  <2>. HIDE DEF i
  <2>1. completed \subseteq completed' /\ fallback \subseteq fallback'
    BY <1>6
  <2>. QED
    BY <1>1, <1>4, <2>1, ControlStays DEF SameBatch
<1>9. Data'
  <2>. HIDE DEF n
  <2>1. BatchShape' /\ PrefetchShape'
    BY <1>1, <1>4 DEF SameBatch, Data, PrefetchShape
  <2>2. NoDirNoFile'
    <3>. HIDE DEF i
    <3>. QED
      BY <1>1, <1>6 DEF Data, NoDirNoFile
  <2>3. \A j \in Segments : file'[j] = file[j] \/ (j = i /\ i \notin completed' /\ file'[j] = "none")
    <3>. HIDE DEF i
    <3>. QED
      BY <1>5, <1>6
  <2>4. PublishedIsThere' /\ PublishedIsWhole'
    <3>1. completed' \subseteq Segments /\ completed \subseteq Segments
      BY <1>1, <1>7 DEF TypeOK
    <3>2. fallback \subseteq fallback'
      <4>. HIDE DEF i
      <4>. QED
        BY <1>6
    <3>3. ASSUME live, dir, NEW c \in completed'
          PROVE  /\ file'[c] # "none"
                 /\ c \notin fallback' \cup redone =>
                      file'[c] = "good" \/ (~copy /\ file'[c] = "bad")
      <4>1. file'[c] = file[c]
        BY <2>3, <3>1, <3>3
      <4>2. CASE c \in completed
        BY <1>1, <3>2, <3>3, <4>1, <4>2 DEF Data, PublishedIsThere, PublishedIsWhole
      <4>3. CASE c \notin completed
        <5>. HIDE DEF i
        <5>. QED
          BY <1>6, <3>3, <4>1, <4>3
      <4>. QED
        BY <4>2, <4>3
    <3>. QED
      BY <1>1, <3>3 DEF PublishedIsThere, PublishedIsWhole
  <2>5. NonePublishedAhead'
    <3>1. completed' \subseteq completed \cup {i} /\ fallback \subseteq fallback'
      <4>. HIDE DEF i
      <4>. QED
        BY <1>6
    <3>2. ~(batch.at <= i)
      BY <1>1, <1>3
    <3>. HIDE DEF i
    <3>. QED
      BY <1>1, <1>4, <3>1, <3>2 DEF Data, NonePublishedAhead, SameBatch
  <2>6. ListedIsWritten'
    BY <1>1, <1>4, <2>3 DEF Data, ListedIsWritten, SameBatch
  <2>. QED
    BY <2>1, <2>2, <2>4, <2>5, <2>6 DEF Data
<1>. QED
  BY <1>7, <1>8, <1>9 DEF PlaybackInv

\* The watcher ends: the slot of the batch is free again.
LEMMA WatcherEndsKeeps ==
    ASSUME PlaybackInv, WatcherEnds
    PROVE  PlaybackInv'
<1>. USE PlaybackConstants
<1>1. /\ TypeOK /\ Data /\ Control /\ batch \in Encoder /\ batch # NoBatch
      /\ batch' = NoBatch /\ slots' = slots + 1
      /\ UNCHANGED <<copy, live, dir, left, pc, seg, redone, completed, fallback, file, tries,
                     broken, evicting, watched>>
  BY DEF PlaybackInv, WatcherEnds, TypeOK, NoBatch, source, session
<1>2. live
  BY <1>1 DEF Control, Quiet
<1>3. batch.first < batch.end
  BY <1>1 DEF Data, BatchShape
<1>4. \/ prefetches' = prefetches
      \/ prefetches' = prefetches \cup {[first |-> batch.first, end |-> batch.end]}
  BY DEF WatcherEnds
<1>5. [first |-> batch.first, end |-> batch.end] \in Ranges
  BY <1>1 DEF Encoder, Ranges
<1>6. prefetches' \subseteq Ranges /\ PrefetchShape'
  BY <1>1, <1>3, <1>4, <1>5 DEF TypeOK, Data, PrefetchShape
<1>7. SlotsCounted'
  <2>1. Encoding' <=> Encoding
    BY <1>1 DEF Encoding
  <2>2. slots \in Nat /\ left \in Nat
    BY <1>1 DEF TypeOK
  <2>. QED
    BY <1>1, <2>1, <2>2 DEF Control, SlotsCounted
<1>8. slots' \in 0 .. left
  <2>1. slots \in Nat /\ left \in Nat
    BY <1>1 DEF TypeOK
  <2>. QED
    BY <1>1, <2>1 DEF Control, SlotsCounted
<1>9. failures' \in 0 .. BackoffAfter
  <2>1. failures \in 0 .. BackoffAfter
    BY <1>1 DEF TypeOK
  <2>2. Min2(failures + 1, BackoffAfter) \in 0 .. BackoffAfter
    BY <2>1 DEF Min2
  <2>3. failures' \in {Min2(failures + 1, BackoffAfter), 0}
    BY DEF WatcherEnds
  <2>. QED
    BY <2>2, <2>3
<1>10. NoBatch \in Encoder
  BY FirstSegment DEF NoBatch, Encoder
<1>11. TypeOK'
  BY <1>1, <1>6, <1>8, <1>9, <1>10 DEF TypeOK
<1>12. Control'
  BY <1>1, <1>2, <1>7 DEF Control, OneHolder, Quiet, SlotOfNoBatch, OnFallback, ServedIsPublished
<1>13. Data'
  BY <1>1, <1>6 DEF Data, BatchShape, NoDirNoFile, PublishedIsThere, NonePublishedAhead,
                    ListedIsWritten, PublishedIsWhole, NoBatch, Fresh
<1>. QED
  BY <1>11, <1>12, <1>13 DEF PlaybackInv

-----------------------------------------------------------------------------
(* Starting a batch                                                         *)

\* The sweep leaves what is published.
LEMMA SweptKeeps ==
    ASSUME PlaybackInv
    PROVE  /\ Swept \in [Segments -> Files]
           /\ \A c \in completed : Swept[c] = file[c]
           /\ ~dir => Swept = Fresh
BY DEF PlaybackInv, Data, TypeOK, NoDirNoFile, Swept, Fresh, Files

\* A batch starts over what is kept of the files.
LEMMA BatchSpawns ==
    ASSUME PlaybackInv, NEW i \in Segments, NEW kept \in [Segments -> Files],
           \A c \in completed : kept[c] = file[c], ~dir => kept = Fresh,
           live, batch = NoBatch, slots > 0, Spawns(i, kept), completed' = completed \/ completed' = Forgotten(i),
           UNCHANGED <<source, live, dir, fallback>>, prefetches' \subseteq prefetches
    PROVE  /\ Data'
           /\ completed' \subseteq completed /\ (dir => completed' = completed)
           /\ batch' \in Encoder /\ file' \in [Segments -> Files] /\ redone' \subseteq Segments
           /\ slots' \in Nat /\ slots' <= left
           /\ slots' + (IF batch' = NoBatch THEN 0 ELSE 1) = slots
<1>. USE PlaybackConstants
<1>1. /\ TypeOK /\ Data /\ slots \in Nat /\ left \in Nat /\ slots <= left
  BY DEF PlaybackInv, TypeOK
<1>2. completed \subseteq Segments
  BY <1>1 DEF TypeOK
<1>3. completed' \subseteq completed /\ (dir => completed' = completed)
  BY <1>1, OnlyGoneForgotten DEF Data, PublishedIsThere
<1>4. copy' = copy /\ live' = live /\ dir' = dir /\ fallback' = fallback
  BY DEF source
<1>5. PrefetchShape'
  BY <1>1 DEF Data, PrefetchShape
<1>6. CASE ~dir
  <2>1. batch' = batch /\ slots' = slots /\ file' = kept /\ redone' = redone
    BY <1>6 DEF Spawns
  <2>2. Data'
    BY <1>1, <1>4, <1>5, <1>6, <2>1 DEF Data, BatchShape, NoDirNoFile, PublishedIsThere,
                        NonePublishedAhead, ListedIsWritten, PublishedIsWhole, Fresh
  <2>3. batch' \in Encoder /\ redone' \subseteq Segments
    BY <1>1, <2>1 DEF TypeOK
  <2>. QED
    BY <1>1, <1>3, <2>1, <2>2, <2>3
<1>7. CASE dir
  <2>. DEFINE e == End(i)
  <2>1. /\ e \in 0 .. Last + 1 /\ i < e /\ i \in Nat
        /\ \A c \in completed : i < c => ~(c < e)
    BY <1>1, <1>2, <1>7, EndOfBatch DEF Data, PublishedIsThere, Segments
  <2>2. /\ batch' = [first |-> i, end |-> e, at |-> i, state |-> "running",
                     stopped |-> FALSE, read |-> i]
        /\ file' = [kept EXCEPT ![i] = "partial"] /\ slots' = slots - 1
        /\ redone' = IF i \in completed THEN redone \cup {i} ELSE redone
    BY <1>7 DEF Spawns, Batch
  <2>. HIDE DEF e
  <2>3. /\ batch' \in Encoder /\ batch' # NoBatch /\ BatchShape'
    BY <2>1, <2>2 DEF Encoder, NoBatch, BatchShape, Segments
  <2>4. file' \in [Segments -> Files] /\ redone' \subseteq Segments /\ redone \subseteq redone'
    BY <1>1, <1>2, <2>2 DEF Files, TypeOK
  <2>5. \A c \in completed : c \in Nat
    BY <1>2 DEF Segments
  <2>6. NonePublishedAhead'
    BY <1>3, <2>1, <2>2, <2>5 DEF NonePublishedAhead
  <2>7. ListedIsWritten'
    BY <2>1, <2>2 DEF ListedIsWritten, Segments
  <2>8. NoDirNoFile' /\ PublishedIsThere' /\ PublishedIsWhole'
    BY <1>1, <1>2, <1>3, <1>4, <1>7, <2>2, <2>4
       DEF NoDirNoFile, PublishedIsThere, PublishedIsWhole, Data
  <2>9. slots' \in Nat /\ slots' <= left /\ slots' + 1 = slots
    BY <1>1, <2>2
  <2>. QED
    BY <1>3, <1>5, <2>3, <2>4, <2>6, <2>7, <2>8, <2>9 DEF Data
<1>. QED
  BY <1>6, <1>7

\* A thread that has the lock and a slot starts its batch.
LEMMA StartKeeps ==
    ASSUME PlaybackInv, NEW t \in Threads, Start(t)
    PROVE  PlaybackInv'
<1>. USE PlaybackConstants
<1>1. /\ TypeOK /\ Control /\ Data /\ pc[t] = "slot" /\ batch = NoBatch /\ live
      /\ slots \in Nat /\ left \in Nat
      /\ pc \in [Threads -> Steps] /\ seg \in [Threads -> Segments] /\ seg[t] \in Segments
  BY DEF PlaybackInv, Control, SlotOfNoBatch, Quiet, Start, TypeOK
<1>2. UNCHANGED <<copy, broken, left, live, evicting, dir, watched, completed, fallback, tries,
                  failures, seg, prefetches>>
  BY DEF Start, source, session
<1>3. /\ Data' /\ batch' \in Encoder /\ file' \in [Segments -> Files] /\ redone' \subseteq Segments
      /\ slots' \in Nat /\ slots' <= left
      /\ slots' + (IF batch' = NoBatch THEN 0 ELSE 1) = slots
  <2>1. file \in [Segments -> Files] /\ (~dir => file = Fresh) /\ slots > 0
    BY <1>1 DEF TypeOK, Data, NoDirNoFile, Start, SlotFree
  <2>2. Spawns(seg[t], file) /\ UNCHANGED source
    BY DEF Start
  <2>. QED
    BY <1>1, <1>2, <2>1, <2>2, BatchSpawns
<1>4. PICK w \in {"idle", "wait", "refused"} : Goto(t, w)
  BY DEF Start
<1>5. /\ pc' \in [Threads -> Steps] /\ pc'[t] = w
      /\ \A u \in Threads \ {t} : pc'[u] = pc[u]
  BY <1>1, <1>4 DEF Goto, Steps
<1>6. OneHolder' /\ Quiet' /\ OnFallback' /\ ServedIsPublished'
  BY <1>1, <1>2, <1>5 DEF Control, OneHolder, Quiet, OnFallback, ServedIsPublished, Holding, Threads
<1>7. SlotOfNoBatch'
  BY <1>1, <1>5 DEF Control, OneHolder, SlotOfNoBatch, Holding
<1>8. SlotsCounted'
  <2>1. Encoding' <=> Encoding
    BY <1>1, <1>5 DEF Encoding
  <2>2. slots + 0 + (IF Encoding THEN 1 ELSE 0) = left
    BY <1>1 DEF Control, SlotsCounted
  <2>. DEFINE a == IF batch' = NoBatch THEN 0 ELSE 1
              e == IF Encoding THEN 1 ELSE 0
  <2>3. a \in Nat /\ e \in Nat
    OBVIOUS
  <2>4. slots' + a = slots /\ slots + 0 + e = left /\ left' = left
    BY <1>2, <1>3, <2>2
  <2>6. slots' \in Nat
    BY <1>3
  <2>5. slots' + a + e = left
    <3>. HIDE DEF a, e
    <3>. QED
      BY <2>3, <2>4, <2>6, SlotNumbers
  <2>. QED
    BY <2>1, <2>4, <2>5 DEF SlotsCounted
<1>9. TypeOK'
  BY <1>1, <1>2, <1>3, <1>5 DEF TypeOK
<1>. QED
  BY <1>3, <1>6, <1>7, <1>8, <1>9 DEF PlaybackInv, Control

\* After the join: what is not published is swept, and a slot is waited for.
LEMMA JoinedKeeps ==
    ASSUME PlaybackInv, NEW t \in Threads, Joined(t)
    PROVE  PlaybackInv'
<1>. USE PlaybackConstants
<1>1. /\ TypeOK /\ Control /\ Data /\ pc[t] = "join" /\ batch = NoBatch /\ file' = Swept
  BY DEF PlaybackInv, Joined
<1>2. UNCHANGED <<source, session, fallback, redone, tries, batch, slots, seg, prefetches>>
  BY DEF Joined
<1>3. PICK w \in {"slot", "refused", "idle"} : Goto(t, w)
  BY DEF Joined
<1>4. completed' \subseteq completed /\ (live /\ dir => completed' = completed)
  <2>1. live /\ dir => Forgotten(seg[t]) = completed
    BY <1>1, OnlyGoneForgotten DEF Data, PublishedIsThere
  <2>2. live /\ dir /\ seg[t] \in completed => SegmentOk(seg[t])
    BY <1>1 DEF Data, PublishedIsThere, SegmentOk
  <2>3. \/ completed' = IF SegmentOk(seg[t]) THEN completed ELSE completed \ {seg[t]}
        \/ completed' = Forgotten(seg[t])
    BY DEF Joined
  <2>. QED
    BY <2>1, <2>2, <2>3, OnlyGoneForgotten
<1>5. SameBatch
  BY <1>2, BatchIsSame
<1>6. /\ Control' /\ pc' \in [Threads -> Steps] /\ seg' \in [Threads -> Segments]
  <2>1. Moves(t, w) /\ w \in Steps /\ w \notin {"encode", "fallback", "fallback slot", "served"}
    BY <1>2, <1>3 DEF Moves, Steps
  <2>2. pc[t] \in Holding /\ pc[t] # "idle" /\ pc[t] # "encode"
    BY <1>1 DEF Holding
  <2>3. live /\ dir => \A r \in Requests \ {t} : pc[r] = "served" => seg[r] \in completed'
    BY <1>1, <1>4 DEF Control, ServedIsPublished
  <2>. QED
    BY <1>1, <1>2, <1>5, <2>1, <2>2, <2>3, ControlMoves DEF source, session
<1>7. Data'
  <2>1. /\ \A c \in completed' : file'[c] = file[c]
        /\ ~dir => file' = Fresh
    BY <1>1, <1>4, SweptKeeps
  <2>. QED
    BY <1>1, <1>2, <1>4, <2>1
       DEF Data, BatchShape, PrefetchShape, NoDirNoFile, PublishedIsThere, NonePublishedAhead,
           ListedIsWritten, PublishedIsWhole, source, session, Fresh
<1>8. TypeOK'
  <2>1. file' \in [Segments -> Files] /\ completed' \subseteq Segments
    BY <1>1, <1>4, SweptKeeps DEF TypeOK
  <2>2. failures' \in 0 .. BackoffAfter
    BY <1>1 DEF Joined, TypeOK
  <2>. QED
    BY <1>1, <1>2, <1>6, <2>1, <2>2 DEF TypeOK, source, session
<1>. QED
  BY <1>6, <1>7, <1>8 DEF PlaybackInv

\* The watcher of an ended batch goes on with the next one, or does not.
LEMMA PrefetchKeeps ==
    ASSUME PlaybackInv, NEW p \in prefetches, PrefetchStarts(p) \/ PrefetchEnds(p)
    PROVE  PlaybackInv'
<1>. USE PlaybackConstants
<1>1. /\ TypeOK /\ Control /\ Data /\ p \in Ranges /\ p.first < p.end
  BY DEF PlaybackInv, TypeOK, Data, PrefetchShape
<1>2. CASE PrefetchEnds(p)
  <2>1. /\ prefetches' \subseteq prefetches
        /\ UNCHANGED <<source, session, file, completed, fallback, redone, tries, failures, batch,
                       slots, pc, seg>>
    BY <1>2 DEF PrefetchEnds
  <2>2. Encoding' <=> Encoding
    BY <2>1 DEF Encoding
  <2>3. Control'
    BY <1>1, <2>1, <2>2 DEF Control, OneHolder, Quiet, SlotOfNoBatch, SlotsCounted, OnFallback,
                            ServedIsPublished, source, session
  <2>4. Data'
    BY <1>1, <2>1 DEF Data, BatchShape, PrefetchShape, NoDirNoFile, PublishedIsThere,
                      NonePublishedAhead, ListedIsWritten, PublishedIsWhole, source, session, Fresh
  <2>5. TypeOK'
    BY <1>1, <2>1 DEF TypeOK, source, session
  <2>. QED
    BY <2>3, <2>4, <2>5 DEF PlaybackInv
<1>3. CASE PrefetchStarts(p)
  <2>. DEFINE s == ResumeAt(p)
  <2>1. /\ LockFree /\ live /\ batch = NoBatch /\ slots > 0 /\ s <= Last
        /\ completed' = Forgotten(s) /\ Spawns(s, Swept)
        /\ UNCHANGED <<source, session, fallback, tries, failures, pc, seg>>
        /\ prefetches' \subseteq prefetches
    BY <1>3 DEF PrefetchStarts, SlotFree
  <2>2. s \in Segments
    BY <1>1, <2>1, ResumePoint DEF Ranges, Segments
  <2>. HIDE DEF s
  <2>3. /\ Data'
        /\ completed' \subseteq completed /\ (dir => completed' = completed)
        /\ batch' \in Encoder /\ file' \in [Segments -> Files] /\ redone' \subseteq Segments
        /\ slots' \in Nat /\ slots' <= left
        /\ slots' + (IF batch' = NoBatch THEN 0 ELSE 1) = slots
    BY <2>1, <2>2, SweptKeeps, BatchSpawns DEF session
  <2>4. SlotsCounted'
    <3>1. Encoding' <=> Encoding
      BY <2>1 DEF Encoding
    <3>2. slots \in Nat /\ left \in Nat /\ left' = left
      BY <1>1, <2>1 DEF TypeOK, source
    <3>. DEFINE a == IF batch' = NoBatch THEN 0 ELSE 1
                e == IF Encoding THEN 1 ELSE 0
    <3>3. a \in Nat /\ e \in Nat
      OBVIOUS
    <3>4. slots + 0 + e = left
      BY <1>1, <2>1 DEF Control, SlotsCounted
    <3>5. slots' + a = slots
      BY <2>3
    <3>7. slots' \in Nat
      BY <2>3
    <3>6. slots' + a + e = left
      <4>. HIDE DEF a, e
      <4>. QED
        BY <3>3, <3>4, <3>5, <3>7, SlotNumbers
    <3>. QED
      BY <3>1, <3>2, <3>6 DEF SlotsCounted
  <2>5. Control'
    <3>1. \A t \in Threads : pc[t] # "slot"
      BY <2>1 DEF LockFree, Holding
    <3>. QED
      BY <1>1, <2>1, <2>3, <2>4, <3>1 DEF Control, OneHolder, Quiet, SlotOfNoBatch, OnFallback,
                                          ServedIsPublished, session
  <2>6. TypeOK'
    BY <1>1, <2>1, <2>3 DEF TypeOK, source, session
  <2>. QED
    BY <2>3, <2>5, <2>6 DEF PlaybackInv
<1>. QED
  BY <1>2, <1>3

-----------------------------------------------------------------------------
(* The encode of one segment                                                *)

\* A file that is there is taken for the segment.
LEMMA TrustsKeeps ==
    ASSUME PlaybackInv, NEW r \in Requests, Trusts(r)
    PROVE  PlaybackInv'
<1>1. /\ TypeOK /\ Control /\ Data /\ r \in Threads /\ pc[r] = "fallback" /\ live
  BY DEF PlaybackInv, Trusts, Threads, Control, Quiet
<1>2. /\ UNCHANGED <<source, session, file, fallback, redone, tries, failures, batch, slots, seg,
                     prefetches>>
      /\ completed' = completed \cup {seg[r]} /\ Goto(r, "served") /\ file[seg[r]] # "none"
  BY DEF Trusts
<1>3. seg[r] \in fallback /\ seg[r] \in Segments
  BY <1>1 DEF Control, OnFallback, TypeOK
<1>4. SameBatch
  BY <1>2, BatchIsSame
<1>5. /\ Control' /\ pc' \in [Threads -> Steps] /\ seg' \in [Threads -> Segments]
  <2>1. Moves(r, "served") /\ "served" \in Steps /\ "served" \notin Holding
    BY <1>2 DEF Moves, Steps, Holding
  <2>2. live /\ dir => \A u \in Requests \ {r} : pc[u] = "served" => seg[u] \in completed'
    BY <1>1, <1>2 DEF Control, ServedIsPublished
  <2>. QED
    BY <1>1, <1>2, <1>4, <2>1, <2>2, ControlMoves DEF source, session
<1>6. Data'
  BY <1>1, <1>2, <1>3 DEF Data, BatchShape, PrefetchShape, NoDirNoFile, PublishedIsThere,
        NonePublishedAhead, ListedIsWritten, PublishedIsWhole, source, session, Fresh
<1>7. TypeOK'
  BY <1>1, <1>2, <1>3, <1>5 DEF TypeOK, source, session
<1>. QED
  BY <1>5, <1>6, <1>7 DEF PlaybackInv

\* The encode takes a slot.
LEMMA StartsEncodeKeeps ==
    ASSUME PlaybackInv, NEW r \in Requests, StartsEncode(r)
    PROVE  PlaybackInv'
<1>. r \in Threads
  BY DEF Threads
<1>1. /\ TypeOK /\ Control /\ Data /\ pc[r] = "fallback slot" /\ live
      /\ pc \in [Threads -> Steps] /\ slots \in Nat /\ left \in Nat /\ slots <= left
  <2>1. pc[r] = "fallback slot"
    BY DEF StartsEncode
  <2>. QED
    BY <2>1, SessionOfThread, SlotNumbers DEF PlaybackInv, TypeOK
<1>2. /\ UNCHANGED <<source, session, file, completed, fallback, redone, tries, failures, batch, seg,
                     prefetches>>
      /\ slots > 0 /\ slots' = slots - 1 /\ Goto(r, "encode")
  BY DEF StartsEncode, SlotFree
<1>3. /\ pc' \in [Threads -> Steps] /\ pc'[r] = "encode"
      /\ \A u \in Threads \ {r} : pc'[u] = pc[u]
  BY <1>1, <1>2 DEF Goto, Steps
<1>4. /\ ~Encoding /\ Encoding'
  BY <1>1, <1>3 DEF Encoding, Control, OneHolder, Holding
<1>5. slots' \in 0 .. left
  <2>1. slots > 0 /\ slots' = slots - 1
    BY <1>2
  <2>2. slots' \in Nat /\ slots' <= left /\ slots' + 1 = slots
    BY <2>1, SlotNumbers
  <2>. QED
    BY <2>2, SlotNumbers
<1>6. SlotsCounted'
  <2>1. slots > 0 /\ slots' = slots - 1 /\ batch' = batch /\ left' = left
    BY <1>2 DEF source
  <2>2. slots + (IF batch = NoBatch THEN 0 ELSE 1) + 0 = left
    BY <1>1, <1>4 DEF Control, SlotsCounted
  <2>3. slots' + (IF batch = NoBatch THEN 0 ELSE 1) + 1 = left
    BY <2>1, <2>2, SlotNumbers
  <2>. QED
    BY <1>4, <2>1, <2>3 DEF SlotsCounted
<1>7. Control'
  BY <1>1, <1>2, <1>3, <1>6 DEF Control, OneHolder, Quiet, SlotOfNoBatch, OnFallback,
                                ServedIsPublished, Holding, source, session, Threads
<1>8. Data'
  BY <1>2, BatchIsSame, DataStays DEF source, session
<1>9. TypeOK'
  BY <1>1, <1>2, <1>3, <1>5 DEF TypeOK, source, session
<1>. QED
  BY <1>7, <1>8, <1>9 DEF PlaybackInv

\* The encode ends, with a segment or without, and gives its slot back.
LEMMA EncodedKeeps ==
    ASSUME PlaybackInv, NEW r \in Requests, Encoded(r)
    PROVE  PlaybackInv'
<1>. r \in Threads
  BY DEF Threads
<1>1. /\ TypeOK /\ Control /\ Data /\ pc[r] = "encode" /\ live
      /\ pc \in [Threads -> Steps] /\ slots \in Nat /\ left \in Nat /\ slots <= left
  <2>1. pc[r] = "encode"
    BY DEF Encoded
  <2>. QED
    BY <2>1, SessionOfThread, SlotNumbers DEF PlaybackInv, TypeOK
<1>2. /\ UNCHANGED <<source, session, fallback, redone, tries, failures, batch, seg, prefetches>>
      /\ slots' = slots + 1
      /\ \/ /\ dir /\ file' = [file EXCEPT ![seg[r]] = "good"]
            /\ completed' = completed \cup {seg[r]} /\ Goto(r, "served")
         \/ /\ Goto(r, "refused") /\ file' = file /\ completed' = completed
  BY DEF Encoded
<1>3. seg[r] \in fallback /\ seg[r] \in Segments
  BY <1>1 DEF Control, OnFallback, TypeOK
<1>4. PICK w \in {"served", "refused"} : /\ Goto(r, w)
                                         /\ w = "served" => seg[r] \in completed'
  BY <1>2
<1>5. /\ pc' \in [Threads -> Steps] /\ pc'[r] = w
      /\ \A u \in Threads \ {r} : pc'[u] = pc[u]
  BY <1>1, <1>4 DEF Goto, Steps
<1>6. Encoding /\ ~Encoding'
  BY <1>1, <1>5 DEF Encoding, Control, OneHolder, Holding
<1>7. SlotsCounted' /\ slots' \in 0 .. left
  BY <1>1, <1>2, <1>6 DEF Control, SlotsCounted, source
<1>8. /\ completed \subseteq completed' /\ completed' \subseteq completed \cup {seg[r]}
      /\ seg[r] \in completed' => file'[seg[r]] = "good" \/ seg[r] \in completed
      /\ file' \in [Segments -> Files] /\ \A i \in Segments \ {seg[r]} : file'[i] = file[i]
      /\ file'[seg[r]] = "good" \/ file' = file
      /\ ~dir => file' = file
  BY <1>1, <1>2, <1>3 DEF TypeOK, Files
<1>9. Control'
  BY <1>1, <1>2, <1>4, <1>5, <1>7, <1>8
     DEF Control, OneHolder, Quiet, SlotOfNoBatch, OnFallback, ServedIsPublished, Holding, source,
         session, Threads
<1>10. Data'
  <2>1. completed \subseteq Segments
    BY <1>1 DEF TypeOK
  <2>2. BatchShape' /\ PrefetchShape' /\ NoDirNoFile'
    BY <1>1, <1>2, <1>8 DEF Data, BatchShape, PrefetchShape, NoDirNoFile, source, session, Fresh
  <2>3. PublishedIsThere' /\ PublishedIsWhole'
    BY <1>1, <1>2, <1>3, <1>8, <2>1 DEF Data, PublishedIsThere, PublishedIsWhole, source, session
  <2>4. NonePublishedAhead'
    BY <1>1, <1>2, <1>3, <1>8 DEF Data, NonePublishedAhead, source, session
  <2>5. ListedIsWritten'
    BY <1>1, <1>2, <1>3, <1>8 DEF Data, ListedIsWritten
  <2>. QED
    BY <2>2, <2>3, <2>4, <2>5 DEF Data
<1>11. TypeOK'
  BY <1>1, <1>2, <1>3, <1>5, <1>7, <1>8 DEF TypeOK, source, session
<1>. QED
  BY <1>9, <1>10, <1>11 DEF PlaybackInv

-----------------------------------------------------------------------------
(* The invariant and what follows from it                                   *)

\* Nobody plays yet.
LEMMA PlaybackStarts == Init => PlaybackInv
<1>. SUFFICES ASSUME Init PROVE PlaybackInv
  OBVIOUS
<1>. USE PlaybackConstants
<1>1. NoBatch \in Encoder /\ 0 \in Segments
  BY FirstSegment DEF NoBatch, Encoder
<1>2. TypeOK
  <2>1. file \in [Segments -> Files] /\ tries \in [Segments -> 0 .. MaxAttempts]
    BY DEF Init, Fresh, Files
  <2>2. pc \in [Threads -> Steps] /\ seg \in [Threads -> Segments]
    BY <1>1 DEF Init, Steps
  <2>3. left \in Nat /\ left \in Slots /\ slots \in 0 .. left
    BY DEF Init
  <2>4. failures \in 0 .. BackoffAfter
    BY DEF Init
  <2>. QED
    BY <1>1, <2>1, <2>2, <2>3, <2>4 DEF Init, TypeOK
<1>3. ~Encoding
  BY DEF Init, Encoding
<1>4. SlotsCounted
  BY <1>2, <1>3 DEF Init, SlotsCounted, TypeOK
<1>5. Control
  BY <1>4 DEF Init, Control, OneHolder, Quiet, SlotOfNoBatch, OnFallback, ServedIsPublished, Holding
<1>6. Data
  BY DEF Init, Data, BatchShape, PrefetchShape, NoDirNoFile, PublishedIsThere, NonePublishedAhead,
         ListedIsWritten, PublishedIsWhole
<1>. QED
  BY <1>2, <1>5, <1>6 DEF PlaybackInv

\* Every step keeps the invariant.
LEMMA PlaybackGoesOn == PlaybackInv /\ [Next]_vars => PlaybackInv'
<1>. SUFFICES ASSUME PlaybackInv, [Next]_vars PROVE PlaybackInv'
  OBVIOUS
<1>1. CASE UNCHANGED vars
  <2>1. UNCHANGED <<copy, live, dir, file, completed, fallback, redone, batch, prefetches>>
    BY <1>1 DEF vars
  <2>2. Data'
    BY <2>1, BatchIsSame, DataStays
  <2>3. Control'
    BY <1>1, ControlStays DEF vars
  <2>4. TypeOK'
    BY <1>1 DEF vars, PlaybackInv, TypeOK
  <2>. QED
    BY <2>2, <2>3, <2>4 DEF PlaybackInv
<1>. \A r \in Requests : r \in Threads
  BY DEF Threads
<1>. "preroll" \in Threads
  BY DEF Threads
<1>2. ASSUME NEW r \in Requests, NEW i \in Segments, Ask(r, i) PROVE PlaybackInv'
  BY <1>2, OpensKeeps DEF Ask
<1>3. ASSUME NEW r \in Requests, Answer(r) \/ Done(r) PROVE PlaybackInv'
  BY <1>3, WaitsKeep, TrustsKeeps, StartsEncodeKeeps, EncodedKeeps DEF Answer
<1>4. ASSUME NEW t \in Requests \cup {"preroll"}, Resolve(t) PROVE PlaybackInv'
  BY <1>4, WaitsKeep, JoinedKeeps, StartKeeps DEF Resolve
<1>5. CASE Playlist
  BY <1>5, FirstSegment, OpensKeeps DEF Playlist
<1>6. CASE PrerollEnds \/ Preempts \/ Preempted
  BY <1>6, PreemptKeeps
<1>7. CASE Switch
  BY <1>7, SwitchKeeps
<1>8. CASE Evict \/ Remove
  BY <1>8, ReaperKeeps
<1>9. CASE BatchWrites \/ BatchFails \/ Consume \/ WatcherEnds
  BY <1>9, BatchWritesKeeps, BatchFailsKeeps, ConsumeKeeps, WatcherEndsKeeps
<1>10. ASSUME NEW p \in prefetches, PrefetchStarts(p) \/ PrefetchEnds(p) PROVE PlaybackInv'
  BY <1>10, PrefetchKeeps
<1>. QED
  BY <1>1, <1>2, <1>3, <1>4, <1>5, <1>6, <1>7, <1>8, <1>9, <1>10 DEF Next

\* The inductive invariant of the session holds throughout.
THEOREM PlaybackInvariant == Spec => []PlaybackInv
BY PlaybackStarts, PlaybackGoesOn, PTL DEF Spec

\* The variables keep their types: a batch stays inside the file, and no job
\* slot is given back twice.
THEOREM PlaybackTyped == Spec => []TypeOK
<1>1. PlaybackInv => TypeOK
  BY DEF PlaybackInv
<1>. QED
  BY <1>1, PlaybackInvariant, PTL

\* Every path of a batch and of an encode gives its job slot back, once
\* (playback.py: _start_batch, the watcher's end, _stop_batch, the fallback encode).
THEOREM SlotsAreConserved == Spec => []SlotsConserved
<1>1. PlaybackInv => SlotsConserved
  <2>. SUFFICES ASSUME PlaybackInv PROVE SlotsConserved
    OBVIOUS
  <2>. DEFINE E == {t \in Threads : pc[t] = "encode"}
  <2>1. OneHolder /\ SlotsCounted
    BY DEF PlaybackInv, Control
  <2>2. CASE Encoding
    <3>1. PICK t \in Threads : pc[t] = "encode"
      BY <2>2 DEF Encoding
    <3>2. E = {t}
      BY <2>1, <3>1 DEF OneHolder, Holding
    <3>3. Cardinality(E) = 1
      BY <3>2, FS_Singleton
    <3>. QED
      BY <2>1, <2>2, <3>3 DEF SlotsCounted, SlotsConserved
  <2>3. CASE ~Encoding
    <3>1. E = {}
      BY <2>3 DEF Encoding
    <3>2. Cardinality(E) = 0
      BY <3>1, FS_EmptySet
    <3>. QED
      BY <2>1, <2>3, <3>2 DEF SlotsCounted, SlotsConserved
  <2>. QED
    BY <2>2, <2>3
<1>. QED
  BY <1>1, PlaybackInvariant, PTL

\* What is published stays whole, whatever is swept, started or killed after it
\* (playback.py: the watcher, _ensure_batch), with the exceptions it names.
THEOREM PublishedStaysWhole == Spec => []PublishedIsWhole
<1>1. PlaybackInv => PublishedIsWhole
  BY DEF PlaybackInv, Data
<1>. QED
  BY <1>1, PlaybackInvariant, PTL

\* A step that opens, sweeps or encodes a segment leaves the one that is sent.
LEMMA SentIsLeft ==
    ASSUME PlaybackInv, PlaybackInv', Next, NEW r \in Requests,
           pc[r] = "served", pc'[r] = "served", seg[r] \notin fallback \cup redone', ~evicting
    PROVE  file'[seg[r]] = file[seg[r]]
<1>. USE PlaybackConstants
<1>. DEFINE c == seg[r]
<1>1. /\ TypeOK /\ Control /\ Data /\ r \in Threads /\ c \in Segments
      /\ file \in [Segments -> Files]
  BY DEF PlaybackInv, TypeOK, Threads
<1>2. live
  BY <1>1, SessionOfThread
<1>3. dir' = dir
  BY <1>2 DEF Next, Ask, Playlist, SessionThere, PrerollEnds, Switch, Preempts, Preempted, Evict,
        Remove, BatchWrites, BatchFails, Consume, WatcherEnds, PrefetchStarts, PrefetchEnds,
        Answer, Serve, ToFallback, Waits, WaitedEnough, Trusts, LocksFallback, StartsEncode,
        NoEncodeSlot, Encoded, Done, Resolve, Ensure, Joined, Start, NoSlot, session
<1>4. CASE ~dir
  BY <1>1, <1>3, <1>4 DEF PlaybackInv, Data, NoDirNoFile, Fresh
<1>5. CASE dir
  <2>1. c \in completed /\ c \notin fallback /\ c \notin redone'
    BY <1>1, <1>2, <1>5 DEF Control, ServedIsPublished
  <2>17. c \in Segments /\ file \in [Segments -> Files]
    BY <1>1
  <2>. SUFFICES file'[c] = file[c]
    OBVIOUS
  <2>. HIDE DEF c
  <2>2. ASSUME NEW q \in Requests, NEW i \in Segments, Ask(q, i) PROVE file'[c] = file[c]
    BY <1>2, <2>2 DEF Ask, SessionThere
  <2>3. CASE Playlist
    BY <1>2, <2>3 DEF Playlist, SessionThere
  <2>4. CASE BatchWrites
    <3>1. redone' = redone /\ batch.state = "running"
      BY <2>4 DEF BatchWrites
    <3>2. ~(batch.at <= c /\ c < batch.end)
      BY <1>1, <1>2, <1>5, <2>1, <3>1 DEF Data, NonePublishedAhead
    <3>3. /\ file' = [i \in Segments |->
                      IF i = batch.at THEN IF i \in broken THEN "bad" ELSE "good"
                      ELSE IF i = batch.at + 1 /\ i < batch.end THEN "partial" ELSE file[i]]
          /\ batch.at < batch.end /\ batch.at \in Nat /\ batch.end \in Nat /\ c \in Nat
      BY <1>1, <1>5, <2>4, <3>1
         DEF BatchWrites, Data, BatchShape, TypeOK, Encoder, NoBatch, Segments
    <3>4. c # batch.at /\ ~(c = batch.at + 1 /\ c < batch.end)
      BY <3>2, <3>3
    <3>. QED
      BY <2>17, <3>3, <3>4
  <2>5. CASE Consume
    <3>1. file' = file \/ (batch.read \notin completed /\ file' = [file EXCEPT ![batch.read] = "none"])
      BY <2>5 DEF Consume
    <3>2. c # batch.read \/ file' = file
      BY <2>1, <3>1
    <3>. QED
      BY <2>17, <3>1, <3>2
  <2>6. ASSUME NEW t \in Threads, Joined(t) PROVE file'[c] = file[c]
    BY <2>1, <2>6, SweptKeeps DEF Joined
  <2>7. ASSUME NEW i, NEW kept \in [Segments -> Files], kept[c] = file[c], Spawns(i, kept)
        PROVE  file'[c] = file[c]
    BY <1>1, <1>5, <2>1, <2>7 DEF Spawns
  <2>8. ASSUME NEW t \in Threads, Start(t) PROVE file'[c] = file[c]
    BY <1>1, <2>7, <2>8 DEF Start
  <2>9. ASSUME NEW p \in prefetches, PrefetchStarts(p) PROVE file'[c] = file[c]
    <3>1. Spawns(ResumeAt(p), Swept)
      BY <2>9 DEF PrefetchStarts
    <3>. QED
      BY <2>1, <2>7, <3>1, SweptKeeps
  <2>10. ASSUME NEW q \in Requests, Encoded(q) PROVE file'[c] = file[c]
    <3>1. seg[q] \in fallback
      BY <1>1, <2>10 DEF Encoded, Control, OnFallback, Threads
    <3>. QED
      BY <1>1, <2>1, <2>10, <3>1 DEF Encoded
  <2>11. ASSUME NEW q \in Requests, Answer(q) \/ Done(q) PROVE file'[c] = file[c]
    BY <2>10, <2>11 DEF Answer, Done, Serve, ToFallback, Waits, WaitedEnough, Trusts,
                       LocksFallback, StartsEncode, NoEncodeSlot
  <2>12. ASSUME NEW t \in Requests \cup {"preroll"}, Resolve(t) PROVE file'[c] = file[c]
    BY <2>6, <2>8, <2>12 DEF Resolve, Ensure, NoSlot, Threads
  <2>13. CASE PrerollEnds \/ Preempts \/ Preempted \/ Switch \/ Evict \/ BatchFails \/ WatcherEnds
    BY <2>13 DEF PrerollEnds, Preempts, Preempted, Switch, Evict, BatchFails, WatcherEnds
  <2>14. ~Remove
    BY DEF Remove
  <2>15. ASSUME NEW p \in prefetches, PrefetchEnds(p) PROVE file'[c] = file[c]
    BY <2>15 DEF PrefetchEnds
  <2>. QED
    <3>1. CASE \E q \in Requests : (\E i \in Segments : Ask(q, i)) \/ Answer(q) \/ Done(q)
      BY <2>2, <2>11, <3>1
    <3>2. CASE \E p \in prefetches : PrefetchStarts(p) \/ PrefetchEnds(p)
      BY <2>9, <2>15, <3>2
    <3>3. CASE \E t \in Requests \cup {"preroll"} : Resolve(t)
      BY <2>12, <3>3
    <3>4. CASE Playlist \/ BatchWrites \/ Consume
      BY <2>3, <2>4, <2>5, <3>4
    <3>. QED
      BY <2>13, <2>14, <3>1, <3>2, <3>3, <3>4 DEF Next
<1>. QED
  BY <1>4, <1>5

\* A segment that is being sent is neither written to nor removed, by whatever
\* thread, batch or sweep, with the exceptions it names (playback.py: "Never
\* overwrite an artifact a player may be reading").
THEOREM SentIsNotTouched == Spec => NotUnderAReader
<1>1. PlaybackInv /\ PlaybackInv' /\ [Next]_vars =>
        [\A r \in Requests :
          pc[r] = "served" /\ pc'[r] = "served" /\ seg[r] \notin fallback \cup redone' /\ ~evicting
          => file'[seg[r]] = file[seg[r]]]_vars
  BY SentIsLeft
<1>. QED
  BY <1>1, PlaybackInvariant, PTL DEF Spec, NotUnderAReader

-----------------------------------------------------------------------------
(* Renders: the invariant                                                   *)

\* The deletes that are open.
Deleting == {d \in Deleters : deleter[d].pc # "idle"}

\* The job a quality names is one of its own.
JobOfQuality == \A q \in Qualities : jobs[q] # 0 => job[jobs[q]].q = q /\ job[jobs[q]].state # "none"

\* The dispatcher works for a job that is there, and that it has begun.
JobOfDispatcher ==
    /\ disp.pc = "idle" => disp = Idle
    /\ disp.pc # "idle" => /\ disp.id \in Ids /\ job[disp.id].q \in Qualities
                           /\ job[disp.id].state # "none"
    /\ disp.pc \notin {"idle", "begin"} => job[disp.id].state = "rendering"

\* A job is in the queue once, until the dispatcher takes it.
JobsInQueue ==
    \A k \in 1 .. Len(queue) :
        /\ job[queue[k]].q \in Qualities /\ job[queue[k]].state # "none"
        /\ disp.pc # "idle" => queue[k] # disp.id
        /\ \A m \in 1 .. Len(queue) : queue[k] = queue[m] => k = m

\* A delete is of a quality.
QualityOfDelete == \A d \in Deleting : deleter[d].q \in Qualities

\* A job that was cancelled before it began ends with its video; one that was
\* cancelled later keeps deletes out, for its quality still names it.
CanceledIsEarly ==
    ~raced /\ disp.pc # "idle" /\ job[disp.id].cancel =>
        disp.pc \in {"begin", "video"} \/ jobs[job[disp.id].q] = disp.id

\* What a delete finds at work was cancelled and publishes nothing.
DeletesAlone ==
    ~raced /\ Deleting # {} /\ disp.pc # "idle" =>
        disp.pc \in {"begin", "video"} /\ job[disp.id].cancel

\* A delete removes all the files of its quality.
DeletedFiles ==
    ~raced => \A d \in Deleting :
        /\ deleter[d].pc = "remove" => segs[deleter[d].q] \subseteq deleter[d].names
        /\ deleter[d].pc = "unlist" => segs[deleter[d].q] = {}

\* A directory with the last segment has them all, unless its removal goes on or
\* was cut short.
LastIsLast ==
    ~raced => \A q \in Qualities \ torn :
        LastRendered \in segs[q] /\ ~BeingRemoved(q) => segs[q] = RenderSegments

\* The segments are published in order.
PublishedInOrder ==
    ~raced => /\ disp.pc = "publish" => segs[Mine.q] = {i \in RenderSegments : i < disp.next}
              /\ disp.pc \in {"list", "finish"} => segs[Mine.q] = RenderSegments

\* The audio is there before the first quality is listed.
AudioFirst ==
    ~raced => /\ manifest.qualities # {} => AudioReady
              /\ disp.pc \in {"stage", "replace"} => manifest.qualities = {}
              /\ disp.pc = "list audio" => audio
              /\ disp.pc \in {"clear", "publish", "list", "finish"} => AudioReady

\* The jobs; the deletes and the dispatcher; the store.
Book == RendersTypeOK /\ JobOfQuality /\ JobOfDispatcher /\ JobsInQueue /\ QualityOfDelete
Apart == CanceledIsEarly /\ DeletesAlone
Store == DeletedFiles /\ LastIsLast /\ PublishedInOrder /\ AudioFirst

RendersInv == Book /\ Apart /\ Store

-----------------------------------------------------------------------------
(* Helpers                                                                  *)

\* A file has a first and a last segment.
LEMMA RendersConstants == LastRendered \in RenderSegments /\ 0 \in RenderSegments /\ LastRendered \in Nat
BY RendersAssumption DEF RenderSegments

\* Zero is the id of no job.
LEMMA ZeroIsNoId == 0 \notin Ids
BY RendersAssumption DEF Ids

\* The jobs behind the first move up.
LEMMA QueueTail ==
    ASSUME NEW q \in Seq(Ids), q # <<>>
    PROVE  /\ Tail(q) \in Seq(Ids) /\ Head(q) \in Ids /\ Head(q) = q[1] /\ 1 \in 1 .. Len(q)
           /\ \A k \in 1 .. Len(Tail(q)) :
                 k + 1 \in 1 .. Len(q) /\ k + 1 # 1 /\ Tail(q)[k] = q[k + 1]
<1>1. Len(q) \in Nat /\ Len(q) > 0 /\ Len(Tail(q)) = Len(q) - 1
  OBVIOUS
<1>. QED
  BY <1>1

\* A job is added behind the others.
LEMMA QueueAppend ==
    ASSUME NEW q \in Seq(Ids), NEW i \in Ids
    PROVE  /\ Append(q, i) \in Seq(Ids)
           /\ \A k \in 1 .. Len(Append(q, i)) :
                 \/ k \in 1 .. Len(q) /\ Append(q, i)[k] = q[k]
                 \/ k = Len(q) + 1 /\ Append(q, i)[k] = i
<1>1. Len(Append(q, i)) = Len(q) + 1 /\ Len(q) \in Nat
  OBVIOUS
<1>. QED
  BY <1>1

\* The members of the queue are ids of jobs that are there.
LEMMA Queued ==
    ASSUME Book, NEW k \in 1 .. Len(queue)
    PROVE  queue[k] \in Ids
BY DEF Book, RendersTypeOK

-----------------------------------------------------------------------------
(* Steps of the dispatcher                                                  *)

StoreTyped ==
    /\ dirs \subseteq Qualities /\ segs \in [Qualities -> SUBSET RenderSegments]
    /\ audio \in BOOLEAN /\ staged \in BOOLEAN /\ manifest \in Manifests /\ torn \subseteq Qualities

\* A job that has begun goes on: no delete is open, unless one raced with it.
LEMMA JobGoesOn ==
    ASSUME RendersInv, disp' \in Dispatches, disp'.id = disp.id,
           disp.pc \notin {"idle", "begin"}, disp'.pc \notin {"idle", "begin"},
           disp.pc = "video" => ~job[disp.id].cancel,
           StoreTyped', UNCHANGED <<job, jobs, queue, deleter, raced>>
    PROVE  Book' /\ Apart' /\ (~raced => Deleting = {} /\ Deleting' = {})
<1>1. Book /\ Apart
  BY DEF RendersInv
<1>2. Deleting' = Deleting
  BY DEF Deleting
<1>3. ~raced => Deleting = {}
  BY <1>1 DEF Apart, DeletesAlone
<1>4. Apart'
  BY <1>1, <1>2, <1>3 DEF Apart, CanceledIsEarly, DeletesAlone
<1>5. Book'
  <2>1. RendersTypeOK'
    BY <1>1 DEF Book, RendersTypeOK, StoreTyped
  <2>2. JobOfQuality' /\ QualityOfDelete'
    BY <1>1, <1>2 DEF Book, JobOfQuality, QualityOfDelete
  <2>3. JobOfDispatcher' /\ JobsInQueue'
    BY <1>1 DEF Book, JobOfDispatcher, JobsInQueue
  <2>. QED
    BY <2>1, <2>2, <2>3 DEF Book
<1>. QED
  BY <1>2, <1>3, <1>4, <1>5

\* What a step of the dispatcher finds.
LEMMA AtWork ==
    ASSUME RendersInv
    PROVE  /\ StoreTyped /\ disp \in Dispatches
           /\ disp.pc # "idle" => disp.id \in Ids /\ Mine.q \in Qualities
           /\ disp \in [pc : {disp.pc}, id : Ids \cup {0}, next : RenderSegments]
BY DEF RendersInv, Book, RendersTypeOK, StoreTyped, JobOfDispatcher, Mine, Dispatches

\* The audio: rendered once, before anything is published.
LEMMA AudioKeeps ==
    ASSUME RendersInv,
           Video \/ AudioThere \/ AudioMissing \/ AudioStaged \/ AudioReplaced \/ AudioListed
    PROVE  RendersInv'
<1>1. Store /\ StoreTyped /\ disp \in Dispatches
  BY AtWork DEF RendersInv
<1>2. PICK w \in {"audio", "clear", "stage", "replace", "list audio"} :
           /\ disp' = [disp EXCEPT !.pc = w]
           /\ \/ w = "audio" /\ disp.pc = "video" /\ ~Mine.cancel /\ UNCHANGED store
              \/ w = "clear" /\ disp.pc = "audio" /\ AudioReady /\ UNCHANGED store
              \/ /\ w = "stage" /\ disp.pc = "audio" /\ ~AudioReady /\ staged' = TRUE
                 /\ UNCHANGED <<dirs, segs, audio, manifest>>
              \/ /\ w = "replace" /\ disp.pc = "stage" /\ audio' = FALSE
                 /\ UNCHANGED <<dirs, segs, staged, manifest>>
              \/ /\ w = "list audio" /\ disp.pc = "replace" /\ audio' = TRUE /\ staged' = FALSE
                 /\ UNCHANGED <<dirs, segs, manifest>>
              \/ /\ w = "clear" /\ disp.pc = "list audio"
                 /\ manifest' = [manifest EXCEPT !.there = TRUE, !.audio = TRUE]
                 /\ UNCHANGED <<dirs, segs, audio, staged>>
  BY DEF Video, AudioThere, AudioMissing, AudioStaged, AudioReplaced, AudioListed, Step
<1>3. UNCHANGED <<job, jobs, queue, deleter, raced, torn>>
  BY DEF Video, AudioThere, AudioMissing, AudioStaged, AudioReplaced, AudioListed
<1>4. disp' \in Dispatches /\ disp'.id = disp.id /\ disp'.pc = w
  BY <1>1, <1>2 DEF Dispatches
<1>5. StoreTyped'
  BY <1>1, <1>2, <1>3 DEF StoreTyped, store, Manifests
<1>6. Book' /\ Apart' /\ (~raced => Deleting = {} /\ Deleting' = {})
  BY <1>2, <1>3, <1>4, <1>5, JobGoesOn DEF Mine
<1>7. segs' = segs /\ manifest'.qualities = manifest.qualities
  BY <1>1, <1>2 DEF store, StoreTyped, Manifests
<1>8. DeletedFiles' /\ LastIsLast'
  <2>1. \A q \in Qualities : ~BeingRemoved(q)' => ~BeingRemoved(q)
    BY <1>2, <1>3 DEF BeingRemoved
  <2>. QED
    BY <1>1, <1>3, <1>6, <1>7, <2>1 DEF Store, DeletedFiles, LastIsLast
<1>9. PublishedInOrder'
  BY <1>2, <1>4 DEF PublishedInOrder
<1>10. AudioFirst'
  BY <1>1, <1>2, <1>3, <1>4, <1>7 DEF Store, AudioFirst, AudioReady, store, StoreTyped, Manifests
<1>. QED
  BY <1>6, <1>8, <1>9, <1>10 DEF RendersInv, Store

\* The quality: its old files removed one by one, then filled in order and listed.
LEMMA ClearRemovesKeeps ==
    ASSUME RendersInv, ClearRemoves
    PROVE  RendersInv'
<1>1. Store /\ StoreTyped /\ disp \in Dispatches /\ disp.pc = "clear" /\ Mine.q \in Qualities
  BY AtWork DEF RendersInv, ClearRemoves
<1>2. PICK i \in segs[Mine.q] : segs' = [segs EXCEPT ![Mine.q] = @ \ {i}]
  BY DEF ClearRemoves
<1>3. UNCHANGED <<job, jobs, queue, disp, deleter, dirs, audio, staged, manifest, raced, torn>>
  BY DEF ClearRemoves
<1>4. StoreTyped' /\ \A q \in Qualities \ {Mine.q} : segs'[q] = segs[q]
  BY <1>1, <1>2, <1>3 DEF StoreTyped
<1>5. Book' /\ Apart' /\ (~raced => Deleting = {} /\ Deleting' = {})
  BY <1>1, <1>3, <1>4, JobGoesOn
<1>6. DeletedFiles'
  BY <1>3, <1>5 DEF DeletedFiles
<1>7. LastIsLast'
  <2>1. BeingRemoved(Mine.q)'
    BY <1>1, <1>3 DEF BeingRemoved, Mine
  <2>2. \A q \in Qualities : BeingRemoved(q)' <=> BeingRemoved(q)
    BY <1>3 DEF BeingRemoved
  <2>3. Mine' = Mine
    BY <1>3 DEF Mine
  <2>. QED
    BY <1>1, <1>3, <1>4, <2>1, <2>2, <2>3 DEF Store, LastIsLast
<1>8. PublishedInOrder' /\ AudioFirst'
  BY <1>1, <1>3 DEF Store, PublishedInOrder, AudioFirst, AudioReady
<1>. QED
  BY <1>5, <1>6, <1>7, <1>8 DEF RendersInv, Store

\* With the directory made again nothing is torn.
LEMMA ClearKeeps ==
    ASSUME RendersInv, Clear
    PROVE  RendersInv'
<1>1. Store /\ StoreTyped /\ disp \in Dispatches /\ disp.pc = "clear" /\ Mine.q \in Qualities
  BY AtWork DEF RendersInv, Clear
<1>2. /\ UNCHANGED <<job, jobs, queue, deleter, segs, audio, staged, manifest, raced>>
      /\ dirs' = dirs \cup {Mine.q} /\ torn' = torn \ {Mine.q} /\ segs[Mine.q] = {}
      /\ disp' = [disp EXCEPT !.pc = "publish", !.next = 0]
  BY DEF Clear
<1>3. /\ disp' \in Dispatches /\ disp'.id = disp.id /\ disp'.pc = "publish" /\ disp'.next = 0
  BY <1>1, <1>2, RendersConstants DEF Dispatches
<1>4. StoreTyped'
  BY <1>1, <1>2 DEF StoreTyped
<1>5. Book' /\ Apart' /\ (~raced => Deleting = {} /\ Deleting' = {})
  BY <1>1, <1>2, <1>3, <1>4, JobGoesOn
<1>6. DeletedFiles' /\ LastIsLast'
  <2>1. \A q \in Qualities \ {Mine.q} : ~BeingRemoved(q)' => ~BeingRemoved(q)
    BY <1>1, <1>2 DEF BeingRemoved, Mine
  <2>2. \A q \in Qualities \ {Mine.q} : q \notin torn' => q \notin torn
    BY <1>2
  <2>3. LastRendered \notin segs'[Mine.q]
    BY <1>2
  <2>. QED
    BY <1>1, <1>2, <1>5, <2>1, <2>2, <2>3 DEF Store, DeletedFiles, LastIsLast
<1>7. PublishedInOrder'
  <2>1. {i \in RenderSegments : i < 0} = {}
    BY DEF RenderSegments
  <2>2. Mine' = Mine
    BY <1>2, <1>3 DEF Mine
  <2>. QED
    BY <1>2, <1>3, <2>1, <2>2 DEF PublishedInOrder
<1>8. AudioFirst'
  BY <1>1, <1>2, <1>3 DEF Store, AudioFirst, AudioReady
<1>. QED
  BY <1>5, <1>6, <1>7, <1>8 DEF RendersInv, Store

\* The next segment is published, and after the last one the quality is listed.
LEMMA PublishKeeps ==
    ASSUME RendersInv, Publish
    PROVE  RendersInv'
<1>. DEFINE last == disp.next = LastRendered
            w == IF last THEN "list" ELSE "publish"
            n == IF last THEN 0 ELSE disp.next + 1
<1>1. Store /\ StoreTyped /\ disp \in Dispatches /\ disp.pc = "publish" /\ Mine.q \in Qualities
  BY AtWork DEF RendersInv, Publish
<1>2. /\ UNCHANGED <<job, jobs, queue, deleter, dirs, audio, staged, manifest, raced, torn>>
      /\ segs' = [segs EXCEPT ![Mine.q] = @ \cup {disp.next}]
      /\ disp' = [disp EXCEPT !.pc = w, !.next = n]
  BY <1>1 DEF Publish, Dispatches
<1>3. disp.next \in RenderSegments /\ disp.next \in Nat /\ disp.next <= LastRendered
  <2>1. disp.next \in RenderSegments
    BY <1>1 DEF Dispatches
  <2>. QED
    BY <2>1, RendersConstants DEF RenderSegments
<1>4. n \in RenderSegments
  BY <1>3, RendersConstants DEF RenderSegments
<1>5. w \in {"list", "publish"} /\ (w = "list" <=> last) /\ (~last => n = disp.next + 1)
  OBVIOUS
<1>. HIDE DEF n, w
<1>6. /\ disp' \in Dispatches /\ disp'.id = disp.id /\ disp'.pc = w /\ disp'.next = n
  BY <1>1, <1>2, <1>4, <1>5 DEF Dispatches
<1>7. /\ StoreTyped' /\ segs'[Mine.q] = segs[Mine.q] \cup {disp.next}
      /\ \A q \in Qualities \ {Mine.q} : segs'[q] = segs[q]
  BY <1>1, <1>2, <1>3 DEF StoreTyped
<1>8. Book' /\ Apart' /\ (~raced => Deleting = {} /\ Deleting' = {})
  BY <1>1, <1>2, <1>5, <1>6, <1>7, JobGoesOn
<1>9. Mine' = Mine
  BY <1>2, <1>6 DEF Mine
<1>10. ~raced => segs[Mine.q] = {i \in RenderSegments : i < disp.next}
  BY <1>1 DEF Store, PublishedInOrder
<1>11. /\ ~last => {i \in RenderSegments : i < disp.next} \cup {disp.next}
                      = {i \in RenderSegments : i < n}
       /\ last => {i \in RenderSegments : i < disp.next} \cup {disp.next} = RenderSegments
  BY <1>3, <1>5, RendersConstants DEF RenderSegments
<1>12. PublishedInOrder'
  BY <1>2, <1>5, <1>6, <1>7, <1>9, <1>10, <1>11 DEF PublishedInOrder
<1>13. LastIsLast'
  <2>1. ~last => LastRendered \notin {i \in RenderSegments : i < n}
    BY <1>3, <1>5, RendersConstants
  <2>2. ~raced => \A q \in Qualities : ~BeingRemoved(q) /\ ~BeingRemoved(q)'
    BY <1>1, <1>5, <1>6, <1>8 DEF Deleting, BeingRemoved
  <2>. QED
    BY <1>1, <1>2, <1>7, <1>10, <1>11, <2>1, <2>2 DEF Store, LastIsLast
<1>14. DeletedFiles' /\ AudioFirst'
  BY <1>1, <1>2, <1>5, <1>6, <1>8 DEF Store, DeletedFiles, AudioFirst, AudioReady
<1>. QED
  BY <1>8, <1>12, <1>13, <1>14 DEF RendersInv, Store

\* The quality is listed.
LEMMA ListKeeps ==
    ASSUME RendersInv, List
    PROVE  RendersInv'
<1>1. Store /\ StoreTyped /\ disp \in Dispatches /\ disp.pc = "list" /\ Mine.q \in Qualities
  BY AtWork DEF RendersInv, List
<1>2. /\ UNCHANGED <<job, jobs, queue, deleter, dirs, segs, audio, staged, raced, torn>>
      /\ manifest' = [manifest EXCEPT !.there = TRUE, !.qualities = @ \cup {Mine.q}]
      /\ disp' = [disp EXCEPT !.pc = "finish"]
  BY DEF List, Step
<1>3. /\ disp' \in Dispatches /\ disp'.id = disp.id /\ disp'.pc = "finish"
  BY <1>1, <1>2 DEF Dispatches
<1>4. StoreTyped' /\ manifest'.audio = manifest.audio
  BY <1>1, <1>2 DEF StoreTyped, Manifests
<1>5. Book' /\ Apart' /\ (~raced => Deleting = {} /\ Deleting' = {})
  BY <1>1, <1>2, <1>3, <1>4, JobGoesOn
<1>6. Mine' = Mine
  BY <1>2, <1>3 DEF Mine
<1>7. DeletedFiles' /\ LastIsLast' /\ PublishedInOrder'
  BY <1>1, <1>2, <1>3, <1>5, <1>6
     DEF Store, DeletedFiles, LastIsLast, BeingRemoved, Deleting, PublishedInOrder
<1>8. AudioFirst'
  BY <1>1, <1>2, <1>3, <1>4 DEF Store, AudioFirst, AudioReady
<1>. QED
  BY <1>5, <1>7, <1>8 DEF RendersInv, Store

\* A job that ends, well or not, leaves the store as it is.
LEMMA LeavesKeeps ==
    ASSUME RendersInv, Canceled \/ Fails \/ Finish
    PROVE  RendersInv'
<1>1. /\ Book /\ Store /\ StoreTyped /\ disp.pc \notin {"idle", "clear"} /\ disp.id \in Ids
      /\ job \in [Ids -> Jobs] /\ jobs \in [Qualities -> Ids \cup {0}] /\ queue \in Seq(Ids)
  BY AtWork DEF RendersInv, Canceled, Fails, Finish, Book, RendersTypeOK
<1>2. /\ job' = [job EXCEPT ![disp.id] = NoJob]
      /\ jobs' = [q \in Qualities |-> IF jobs[q] = disp.id THEN 0 ELSE jobs[q]]
      /\ disp' = Idle
      /\ UNCHANGED <<queue, deleter, dirs, segs, audio, manifest, raced, torn>>
      /\ staged' \in {staged, FALSE}
  BY DEF Canceled, Fails, Finish, LeavesQueue, Without, store
<1>3. NoJob \in Jobs /\ Idle \in Dispatches /\ Idle.pc = "idle"
  BY RendersConstants DEF NoJob, Jobs, Idle, Dispatches
<1>4. RendersTypeOK'
  BY <1>1, <1>2, <1>3 DEF Book, RendersTypeOK
<1>5. JobOfQuality'
  BY <1>1, <1>2 DEF Book, JobOfQuality
<1>6. JobOfDispatcher'
  BY <1>2, <1>3 DEF JobOfDispatcher
<1>7. JobsInQueue'
  BY <1>1, <1>2, <1>3, Queued DEF Book, JobsInQueue
<1>8. QualityOfDelete'
  BY <1>1, <1>2 DEF Book, QualityOfDelete, Deleting
<1>9. Apart'
  BY <1>2, <1>3 DEF Apart, CanceledIsEarly, DeletesAlone
<1>10. Store'
  BY <1>1, <1>2, <1>3 DEF Store, DeletedFiles, LastIsLast, BeingRemoved, Deleting, PublishedInOrder,
                          AudioFirst, AudioReady
<1>. QED
  BY <1>4, <1>5, <1>6, <1>7, <1>8, <1>9, <1>10 DEF RendersInv, Book

\* A job that was cancelled in the queue is begun all the same.
LEMMA BeginKeeps ==
    ASSUME RendersInv, Begin
    PROVE  RendersInv'
<1>1. /\ Book /\ Apart /\ Store /\ disp.pc = "begin" /\ disp.id \in Ids /\ disp \in Dispatches
      /\ job \in [Ids -> Jobs] /\ queue \in Seq(Ids)
  BY AtWork DEF RendersInv, Begin, Book, RendersTypeOK
<1>2. /\ job' = [job EXCEPT ![disp.id].state = "rendering"]
      /\ disp' = [disp EXCEPT !.pc = "video"]
      /\ UNCHANGED <<jobs, queue, deleter, dirs, segs, audio, staged, manifest, raced, torn>>
  BY DEF Begin, Step, store
<1>3. disp' \in Dispatches /\ disp'.id = disp.id /\ disp'.pc = "video"
  BY <1>1, <1>2 DEF Dispatches
<1>4. /\ job' \in [Ids -> Jobs]
      /\ \A i \in Ids : /\ job'[i].q = job[i].q /\ job'[i].cancel = job[i].cancel
                        /\ job[i].state # "none" => job'[i].state # "none"
      /\ job'[disp.id].state = "rendering"
  BY <1>1, <1>2 DEF Jobs
<1>5. RendersTypeOK'
  BY <1>1, <1>2, <1>3, <1>4 DEF Book, RendersTypeOK
<1>6. JobOfQuality'
  BY <1>1, <1>2, <1>4 DEF Book, JobOfQuality, RendersTypeOK
<1>7. JobOfDispatcher'
  BY <1>1, <1>3, <1>4 DEF Book, JobOfDispatcher
<1>8. JobsInQueue'
  BY <1>1, <1>2, <1>3, <1>4, Queued DEF Book, JobsInQueue
<1>9. QualityOfDelete' /\ Deleting' = Deleting
  BY <1>1, <1>2 DEF Book, QualityOfDelete, Deleting
<1>10. Apart'
  BY <1>1, <1>2, <1>3, <1>4, <1>9 DEF Apart, CanceledIsEarly, DeletesAlone
<1>11. Store'
  BY <1>1, <1>2, <1>3 DEF Store, DeletedFiles, LastIsLast, BeingRemoved, Deleting, PublishedInOrder,
                          AudioFirst, AudioReady
<1>. QED
  BY <1>5, <1>6, <1>7, <1>8, <1>9, <1>10, <1>11 DEF RendersInv, Book

\* The next job of the queue, unless it was cancelled there.
LEMMA TakeKeeps ==
    ASSUME RendersInv, Take
    PROVE  RendersInv'
<1>. DEFINE i == Head(queue)
<1>1. /\ Book /\ Store /\ disp = Idle /\ queue # <<>>
      /\ job \in [Ids -> Jobs] /\ jobs \in [Qualities -> Ids \cup {0}] /\ queue \in Seq(Ids)
  BY DEF RendersInv, Take, Book, RendersTypeOK
<1>2. /\ queue' = Tail(queue) /\ UNCHANGED <<deleter, dirs, segs, audio, staged, manifest>>
      /\ raced' = (raced \/ (~job[i].cancel /\ deleter # [d \in Deleters |-> NoDelete]))
      /\ torn' = IF raced' THEN {} ELSE torn
      /\ \/ /\ job[i].cancel /\ disp' = disp
            /\ job' = [job EXCEPT ![i] = NoJob]
            /\ jobs' = [q \in Qualities |-> IF jobs[q] = i THEN 0 ELSE jobs[q]]
         \/ /\ ~job[i].cancel /\ disp' = [pc |-> "begin", id |-> i, next |-> 0]
            /\ UNCHANGED <<job, jobs>>
  BY DEF Take, Without, store, Overlap
<1>. HIDE DEF i
<1>3. /\ queue' \in Seq(Ids) /\ i \in Ids /\ i = queue[1] /\ 1 \in 1 .. Len(queue)
      /\ \A k \in 1 .. Len(queue') :
            k + 1 \in 1 .. Len(queue) /\ k + 1 # 1 /\ queue'[k] = queue[k + 1]
  BY <1>1, <1>2, QueueTail DEF i
<1>4. job[i].q \in Qualities /\ job[i].state # "none"
  BY <1>1, <1>3 DEF Book, JobsInQueue
<1>5. \A k \in 1 .. Len(queue') :
         /\ queue'[k] \in Ids /\ queue'[k] # i
         /\ job[queue'[k]].q \in Qualities /\ job[queue'[k]].state # "none"
         /\ \A m \in 1 .. Len(queue') : queue'[k] = queue'[m] => k = m
  <2>. SUFFICES ASSUME NEW k \in 1 .. Len(queue')
                PROVE  /\ queue'[k] \in Ids /\ queue'[k] # i
                       /\ job[queue'[k]].q \in Qualities /\ job[queue'[k]].state # "none"
                       /\ \A m \in 1 .. Len(queue') : queue'[k] = queue'[m] => k = m
    OBVIOUS
  <2>1. JobsInQueue
    BY <1>1 DEF Book
  <2>2. k + 1 \in 1 .. Len(queue) /\ k + 1 # 1 /\ queue'[k] = queue[k + 1]
    BY <1>3
  <2>3. queue[k + 1] \in Ids /\ queue[k + 1] # i
    BY <1>1, <1>3, <2>1, <2>2, Queued DEF JobsInQueue
  <2>4. ASSUME NEW m \in 1 .. Len(queue'), queue'[k] = queue'[m] PROVE k = m
    <3>1. m + 1 \in 1 .. Len(queue) /\ queue'[m] = queue[m + 1]
      BY <1>3
    <3>2. k + 1 = m + 1
      BY <2>1, <2>2, <2>4, <3>1 DEF JobsInQueue
    <3>. QED
      BY <3>2
  <2>. QED
    BY <2>1, <2>2, <2>3, <2>4 DEF JobsInQueue
<1>6. NoJob \in Jobs /\ Idle \in Dispatches /\ Idle.pc = "idle"
  BY RendersConstants DEF NoJob, Jobs, Idle, Dispatches
<1>7. CASE job[i].cancel
  <2>1. /\ disp' = Idle /\ job' = [job EXCEPT ![i] = NoJob] /\ raced' = raced
        /\ jobs' = [q \in Qualities |-> IF jobs[q] = i THEN 0 ELSE jobs[q]]
    BY <1>1, <1>2, <1>7 DEF Book, RendersTypeOK
  <2>2. RendersTypeOK'
    BY <1>1, <1>2, <1>3, <1>6, <2>1 DEF Book, RendersTypeOK
  <2>3. JobOfQuality' /\ JobOfDispatcher'
    BY <1>1, <1>6, <2>1 DEF Book, JobOfQuality, JobOfDispatcher
  <2>4. JobsInQueue'
    BY <1>1, <1>5, <1>6, <2>1 DEF JobsInQueue
  <2>5. QualityOfDelete' /\ Deleting' = Deleting
    BY <1>1, <1>2 DEF Book, QualityOfDelete, Deleting
  <2>6. Apart'
    BY <1>6, <2>1 DEF Apart, CanceledIsEarly, DeletesAlone
  <2>7. Store'
    BY <1>1, <1>2, <1>6, <2>1 DEF Store, DeletedFiles, LastIsLast, BeingRemoved, Deleting,
                                  PublishedInOrder, AudioFirst, AudioReady
  <2>. QED
    BY <2>2, <2>3, <2>4, <2>5, <2>6, <2>7 DEF RendersInv, Book
<1>8. CASE ~job[i].cancel
  <2>1. /\ disp' = [pc |-> "begin", id |-> i, next |-> 0] /\ job' = job /\ jobs' = jobs
        /\ ~raced' => ~raced /\ deleter = [d \in Deleters |-> NoDelete]
    BY <1>2, <1>8
  <2>2. disp' \in Dispatches /\ disp'.pc = "begin" /\ disp'.id = i
    BY <1>3, <2>1, RendersConstants DEF Dispatches
  <2>3. RendersTypeOK'
    BY <1>1, <1>2, <1>3, <2>1, <2>2 DEF Book, RendersTypeOK
  <2>4. JobOfQuality' /\ JobOfDispatcher'
    BY <1>1, <1>3, <1>4, <2>1, <2>2 DEF Book, JobOfQuality, JobOfDispatcher
  <2>5. JobsInQueue'
    BY <1>5, <2>1, <2>2 DEF JobsInQueue
  <2>6. QualityOfDelete' /\ Deleting' = Deleting
    BY <1>1, <1>2 DEF Book, QualityOfDelete, Deleting
  <2>7. ~raced' => Deleting' = {}
    BY <2>1, <2>6 DEF Deleting, NoDelete
  <2>8. Apart'
    BY <2>2, <2>7 DEF Apart, CanceledIsEarly, DeletesAlone
  <2>9. Store'
    <3>1. \A q \in Qualities : ~BeingRemoved(q)' => ~BeingRemoved(q)
      BY <1>1, <1>2, <1>6 DEF BeingRemoved
    <3>2. ~raced' => ~raced /\ torn' = torn
      BY <1>2
    <3>3. LastIsLast'
      BY <1>1, <1>2, <3>1, <3>2 DEF Store, LastIsLast
    <3>. QED
      BY <1>1, <1>2, <2>1, <2>2, <2>7, <3>3 DEF Store, DeletedFiles, PublishedInOrder,
                                                AudioFirst, AudioReady
  <2>. QED
    BY <2>3, <2>4, <2>5, <2>6, <2>8, <2>9 DEF RendersInv, Book
<1>. QED
  BY <1>7, <1>8

-----------------------------------------------------------------------------
(* Requests                                                                 *)

\* A render is queued.
LEMMA StartRenderKeeps ==
    ASSUME RendersInv, NEW q \in Qualities, StartRender(q)
    PROVE  RendersInv'
<1>1. /\ Book /\ Apart /\ Store /\ jobs[q] \notin Active
      /\ job \in [Ids -> Jobs] /\ jobs \in [Qualities -> Ids \cup {0}] /\ queue \in Seq(Ids)
      /\ disp \in Dispatches
  BY DEF RendersInv, StartRender, Book, RendersTypeOK
<1>. DEFINE new == [q |-> q, state |-> "queued", cancel |-> FALSE]
<1>2. PICK i \in Ids : /\ job[i] = NoJob
                       /\ job' = [job EXCEPT ![i] = new]
                       /\ jobs' = [jobs EXCEPT ![q] = i]
                       /\ queue' = Append(queue, i)
                       /\ UNCHANGED <<disp, deleter, dirs, segs, audio, staged, manifest, raced, torn>>
  BY DEF StartRender, Free, store
<1>3. new \in Jobs /\ new.q = q /\ new.state = "queued" /\ NoJob.state = "none"
  BY DEF Jobs, NoJob
<1>. HIDE DEF new
<1>4. job'[i] = new /\ (\A k \in Ids \ {i} : job'[k] = job[k]) /\ job' \in [Ids -> Jobs]
  BY <1>1, <1>2, <1>3
<1>5. /\ queue' \in Seq(Ids)
      /\ \A k \in 1 .. Len(queue') : \/ k \in 1 .. Len(queue) /\ queue'[k] = queue[k]
                                     \/ k = Len(queue) + 1 /\ queue'[k] = i
  BY <1>1, <1>2, QueueAppend
<1>6. \A k \in 1 .. Len(queue) : queue[k] \in Ids /\ queue[k] # i
  BY <1>1, <1>2, <1>3, Queued DEF Book, JobsInQueue
<1>7. disp.pc # "idle" => disp.id \in Ids /\ disp.id # i
  BY <1>1, <1>2, <1>3 DEF Book, JobOfDispatcher
<1>8. RendersTypeOK'
  BY <1>1, <1>2, <1>4, <1>5 DEF Book, RendersTypeOK
<1>9. JobOfQuality'
  BY <1>1, <1>2, <1>3, <1>4, ZeroIsNoId DEF Book, JobOfQuality
<1>10. JobOfDispatcher'
  BY <1>1, <1>2, <1>4, <1>7 DEF Book, JobOfDispatcher
<1>11. JobsInQueue'
  BY <1>1, <1>2, <1>3, <1>4, <1>5, <1>6, <1>7 DEF Book, JobsInQueue
<1>12. QualityOfDelete' /\ Deleting' = Deleting
  BY <1>1, <1>2 DEF Book, QualityOfDelete, Deleting
<1>13. Apart'
  <2>1. disp.pc \notin {"idle", "begin"} => disp.id \in Active
    BY <1>1 DEF Book, JobOfDispatcher, Active
  <2>. QED
    BY <1>1, <1>2, <1>4, <1>7, <1>12, <2>1 DEF Apart, CanceledIsEarly, DeletesAlone
<1>14. Store'
  BY <1>1, <1>2, <1>4, <1>7 DEF Store, DeletedFiles, LastIsLast, BeingRemoved, Deleting,
                          PublishedInOrder, AudioFirst, AudioReady, Mine
<1>. QED
  BY <1>8, <1>9, <1>10, <1>11, <1>12, <1>13, <1>14 DEF RendersInv, Book

\* A render is cancelled, in the queue or at work.
LEMMA CancelKeeps ==
    ASSUME RendersInv, NEW q \in Qualities, Cancel(q)
    PROVE  RendersInv'
<1>. DEFINE i == jobs[q]
<1>1. /\ Book /\ Apart /\ Store /\ i \in Ids /\ job[i].state \in {"queued", "rendering"}
      /\ job \in [Ids -> Jobs] /\ jobs \in [Qualities -> Ids \cup {0}] /\ queue \in Seq(Ids)
      /\ disp \in Dispatches
  BY DEF RendersInv, Cancel, Book, RendersTypeOK, Active
<1>2. UNCHANGED <<queue, disp, deleter, dirs, segs, audio, staged, manifest, raced, torn>>
  BY DEF Cancel, store
<1>3. \/ /\ job[i].state = "queued" /\ jobs' = [jobs EXCEPT ![q] = 0]
         /\ job' = [job EXCEPT ![i].cancel = TRUE, ![i].state = "canceled"]
      \/ /\ job[i].state = "rendering" /\ jobs' = jobs
         /\ job' = [job EXCEPT ![i].cancel = TRUE]
  BY <1>1 DEF Cancel
<1>4. job[i].q = q
  BY <1>1, ZeroIsNoId DEF Book, JobOfQuality
<1>5. /\ job' \in [Ids -> Jobs] /\ \A k \in Ids \ {i} : job'[k] = job[k]
      /\ job'[i].q = q /\ job'[i].cancel /\ job'[i].state # "none"
      /\ job[i].state = "rendering" => job'[i].state = "rendering"
  <2>. HIDE DEF i
  <2>1. CASE job' = [job EXCEPT ![i].cancel = TRUE, ![i].state = "canceled"] /\ job[i].state = "queued"
    BY <1>1, <1>4, <2>1 DEF Jobs
  <2>2. CASE job' = [job EXCEPT ![i].cancel = TRUE] /\ job[i].state = "rendering"
    BY <1>1, <1>4, <2>2 DEF Jobs
  <2>. QED
    BY <1>3, <2>1, <2>2
<1>6. RendersTypeOK'
  BY <1>1, <1>2, <1>3, <1>5 DEF Book, RendersTypeOK
<1>7. JobOfQuality'
  <2>1. \A p \in Qualities : jobs'[p] = jobs[p] \/ jobs'[p] = 0
    BY <1>1, <1>3
  <2>. QED
    BY <1>1, <1>4, <1>5, <2>1 DEF Book, JobOfQuality
<1>8. JobOfDispatcher'
  <2>1. \A k \in Ids : /\ job'[k].q = job[k].q
                       /\ job[k].state # "none" => job'[k].state # "none"
                       /\ job[k].state = "rendering" => job'[k].state = "rendering"
    BY <1>4, <1>5
  <2>. QED
    BY <1>1, <1>2, <2>1 DEF Book, JobOfDispatcher
<1>9. JobsInQueue'
  <2>1. \A k \in Ids : job'[k].q = job[k].q /\ (job[k].state # "none" => job'[k].state # "none")
    BY <1>4, <1>5
  <2>. QED
    BY <1>1, <1>2, <2>1, Queued DEF Book, JobsInQueue
<1>10. QualityOfDelete' /\ Deleting' = Deleting
  BY <1>1, <1>2 DEF Book, QualityOfDelete, Deleting
<1>11. CanceledIsEarly'
  <2>. SUFFICES ASSUME ~raced, disp.pc \notin {"idle", "begin", "video"}, job'[disp.id].cancel
                PROVE  jobs'[job'[disp.id].q] = disp.id
    BY <1>2 DEF CanceledIsEarly
  <2>1. disp.id \in Ids /\ job[disp.id].state = "rendering" /\ job[disp.id].q \in Qualities
    BY <1>1 DEF Book, JobOfDispatcher
  <2>2. CASE disp.id = i
    <3>1. jobs' = jobs
      BY <1>3, <2>1, <2>2
    <3>. QED
      BY <1>5, <2>2, <3>1
  <2>3. CASE disp.id # i
    <3>1. job'[disp.id] = job[disp.id]
      BY <1>5, <2>1, <2>3
    <3>2. jobs[job[disp.id].q] = disp.id
      BY <1>1, <3>1 DEF Apart, CanceledIsEarly
    <3>3. job[disp.id].q # q
      BY <2>3, <3>2
    <3>. QED
      BY <1>1, <1>3, <2>1, <3>1, <3>2, <3>3
  <2>. QED
    BY <2>2, <2>3
<1>12. DeletesAlone'
  <2>1. \A k \in Ids : job[k].cancel => job'[k].cancel
    BY <1>5
  <2>. QED
    BY <1>1, <1>2, <1>10, <2>1 DEF Book, JobOfDispatcher, Apart, DeletesAlone
<1>13. Store'
  <2>1. disp.pc # "idle" => Mine'.q = Mine.q
    BY <1>1, <1>2, <1>4, <1>5 DEF Book, JobOfDispatcher, Mine
  <2>2. \A p \in Qualities : BeingRemoved(p)' <=> BeingRemoved(p)
    BY <1>2, <2>1 DEF BeingRemoved, Mine
  <2>. QED
    BY <1>1, <1>2, <2>1, <2>2 DEF Store, DeletedFiles, LastIsLast, Deleting,
                                  PublishedInOrder, AudioFirst, AudioReady
<1>. QED
  BY <1>6, <1>7, <1>8, <1>9, <1>10, <1>11, <1>12, <1>13 DEF RendersInv, Book, Apart

-----------------------------------------------------------------------------
(* Deletes                                                                  *)

\* A delete that goes on leaves the jobs and the dispatcher alone.
LEMMA DeleteGoesOn ==
    ASSUME RendersInv, NEW d \in Deleters, deleter[d].pc # "idle",
           NEW r \in Deletions, r.pc # "idle", r.q = deleter[d].q,
           deleter' = [deleter EXCEPT ![d] = r],
           StoreTyped', UNCHANGED <<job, jobs, queue, disp, raced>>
    PROVE  /\ Book' /\ Apart' /\ Deleting' = Deleting /\ d \in Deleting
           /\ deleter'[d] = r /\ \A e \in Deleters \ {d} : deleter'[e] = deleter[e]
           /\ deleter[d].q \in Qualities
<1>1. /\ Book /\ Apart /\ deleter \in [Deleters -> Deletions]
  BY DEF RendersInv, Book, RendersTypeOK
<1>2. /\ deleter'[d] = r /\ \A e \in Deleters \ {d} : deleter'[e] = deleter[e]
      /\ deleter' \in [Deleters -> Deletions]
  BY <1>1
<1>3. Deleting' = Deleting /\ d \in Deleting
  BY <1>2 DEF Deleting
<1>4. Apart'
  BY <1>1, <1>3 DEF Apart, CanceledIsEarly, DeletesAlone
<1>5. RendersTypeOK'
  BY <1>1, <1>2 DEF Book, RendersTypeOK, StoreTyped
<1>6. JobOfQuality' /\ JobOfDispatcher' /\ JobsInQueue'
  BY <1>1 DEF Book, JobOfQuality, JobOfDispatcher, JobsInQueue
<1>7. QualityOfDelete' /\ deleter[d].q \in Qualities
  BY <1>1, <1>2, <1>3 DEF Book, QualityOfDelete
<1>. QED
  BY <1>2, <1>3, <1>4, <1>5, <1>6, <1>7 DEF Book

\* Nothing is published while a delete is open that does not race.
LEMMA NothingPublished ==
    ASSUME RendersInv, NEW d \in Deleting, ~raced
    PROVE  disp.pc \in {"idle", "begin", "video"}
BY DEF RendersInv, Apart, DeletesAlone

\* A delete begins when no job of the file is active.
LEMMA DeleteTestsKeeps ==
    ASSUME RendersInv, NEW d \in Deleters, NEW q \in Qualities, DeleteTests(d, q)
    PROVE  RendersInv'
<1>. DEFINE r == [pc |-> "scan", q |-> q, names |-> {}]
<1>1. /\ Book /\ Apart /\ Store /\ deleter \in [Deleters -> Deletions]
      /\ deleter[d].pc = "idle" /\ \A p \in Qualities : jobs[p] \notin Active
  BY DEF RendersInv, DeleteTests, Book, RendersTypeOK, NoDelete
<1>2. /\ deleter' = [deleter EXCEPT ![d] = r]
      /\ raced' = (raced \/ (disp # Idle /\ ~job[disp.id].cancel))
      /\ torn' = IF raced' THEN {} ELSE torn
      /\ UNCHANGED <<job, jobs, queue, disp, dirs, segs, audio, staged, manifest>>
  BY DEF DeleteTests, store, Overlap
<1>3. r \in Deletions /\ r.pc = "scan" /\ r.q = q
  BY DEF Deletions
<1>. HIDE DEF r
<1>4. /\ deleter'[d] = r /\ \A e \in Deleters \ {d} : deleter'[e] = deleter[e]
      /\ deleter' \in [Deleters -> Deletions]
  BY <1>1, <1>2, <1>3
<1>5. RendersTypeOK'
  BY <1>1, <1>2, <1>4 DEF Book, RendersTypeOK
<1>6. JobOfQuality' /\ JobOfDispatcher' /\ JobsInQueue'
  BY <1>1, <1>2 DEF Book, JobOfQuality, JobOfDispatcher, JobsInQueue
<1>7. QualityOfDelete'
  BY <1>1, <1>3, <1>4 DEF Book, QualityOfDelete, Deleting
<1>8. ~raced' => ~raced /\ (disp = Idle \/ job[disp.id].cancel)
  BY <1>2
<1>9. ~raced' /\ disp.pc # "idle" => disp.pc \in {"begin", "video"} /\ job[disp.id].cancel
  <2>. SUFFICES ASSUME ~raced', disp.pc \notin {"idle", "begin", "video"} PROVE FALSE
    BY <1>8 DEF Idle
  <2>1. /\ disp.id \in Ids /\ job[disp.id].q \in Qualities /\ disp.id \in Active
    BY <1>1 DEF Book, JobOfDispatcher, Active
  <2>2. jobs[job[disp.id].q] = disp.id
    BY <1>1, <1>8 DEF Apart, CanceledIsEarly, Idle
  <2>. QED
    BY <1>1, <2>1, <2>2
<1>10. Apart'
  BY <1>2, <1>9 DEF Apart, CanceledIsEarly, DeletesAlone
<1>11. DeletedFiles'
  BY <1>1, <1>2, <1>3, <1>4, <1>8 DEF Store, DeletedFiles, Deleting
<1>12. LastIsLast'
  BY <1>1, <1>2, <1>3, <1>4, <1>8 DEF Store, LastIsLast, BeingRemoved
<1>13. PublishedInOrder' /\ AudioFirst'
  BY <1>1, <1>2, <1>8 DEF Store, PublishedInOrder, AudioFirst, AudioReady, Mine
<1>. QED
  BY <1>5, <1>6, <1>7, <1>10, <1>11, <1>12, <1>13 DEF RendersInv, Book, Store

\* It reads the names of the files, and when all are removed, the directory goes.
LEMMA DeleteStepsKeep ==
    ASSUME RendersInv, NEW d \in Deleters, DeleteScans(d) \/ DeleteEmpties(d)
    PROVE  RendersInv'
<1>1. /\ Store /\ StoreTyped /\ deleter \in [Deleters -> Deletions] /\ deleter[d] \in Deletions
  BY AtWork DEF RendersInv, Book, RendersTypeOK
<1>2. UNCHANGED <<job, jobs, queue, disp, raced, torn, segs, audio, staged, manifest>>
  BY DEF DeleteScans, DeleteEmpties, store
<1>3. CASE DeleteScans(d)
  <2>. DEFINE n == segs[deleter[d].q]
              r == [deleter[d] EXCEPT !.pc = "remove", !.names = n]
  <2>1. deleter[d].pc = "scan" /\ deleter' = [deleter EXCEPT ![d] = r] /\ dirs' = dirs
    BY <1>1, <1>3 DEF DeleteScans, store
  <2>2. n \in SUBSET RenderSegments
    BY <1>1, <2>1 DEF StoreTyped, RendersInv, Book, QualityOfDelete, Deleting
  <2>. HIDE DEF n
  <2>3. r \in Deletions /\ r.pc = "remove" /\ r.q = deleter[d].q /\ r.names = n
    BY <1>1, <2>2 DEF Deletions
  <2>. HIDE DEF r
  <2>4. /\ Book' /\ Apart' /\ Deleting' = Deleting /\ d \in Deleting
        /\ deleter'[d] = r /\ \A e \in Deleters \ {d} : deleter'[e] = deleter[e]
    BY <1>1, <1>2, <2>1, <2>3, DeleteGoesOn DEF StoreTyped
  <2>5. DeletedFiles'
    BY <1>1, <1>2, <2>3, <2>4 DEF Store, DeletedFiles, Deleting, n
  <2>6. LastIsLast'
    BY <1>1, <1>2, <2>1, <2>3, <2>4 DEF Store, LastIsLast, BeingRemoved
  <2>7. PublishedInOrder' /\ AudioFirst'
    BY <1>1, <1>2 DEF Store, PublishedInOrder, AudioFirst, AudioReady, Mine
  <2>. QED
    BY <2>4, <2>5, <2>6, <2>7 DEF RendersInv, Store
<1>4. CASE DeleteEmpties(d)
  <2>. DEFINE r == [deleter[d] EXCEPT !.pc = "unlist"]
  <2>1. /\ deleter[d].pc = "remove" /\ deleter[d].names = {} /\ deleter' = [deleter EXCEPT ![d] = r]
        /\ dirs' \subseteq dirs
    BY <1>1, <1>4 DEF DeleteEmpties
  <2>2. r \in Deletions /\ r.pc = "unlist" /\ r.q = deleter[d].q
    BY <1>1 DEF Deletions
  <2>. HIDE DEF r
  <2>3. /\ Book' /\ Apart' /\ Deleting' = Deleting /\ d \in Deleting
        /\ deleter'[d] = r /\ \A e \in Deleters \ {d} : deleter'[e] = deleter[e]
        /\ deleter[d].q \in Qualities
    BY <1>1, <1>2, <2>1, <2>2, DeleteGoesOn DEF StoreTyped
  <2>4. ~raced => segs[deleter[d].q] = {}
    BY <1>1, <2>1, <2>3 DEF Store, DeletedFiles, StoreTyped
  <2>5. DeletedFiles'
    BY <1>1, <1>2, <2>2, <2>3, <2>4 DEF Store, DeletedFiles, Deleting
  <2>6. LastIsLast'
    BY <1>1, <1>2, <2>1, <2>2, <2>3, <2>4 DEF Store, LastIsLast, BeingRemoved
  <2>7. PublishedInOrder' /\ AudioFirst'
    BY <1>1, <1>2 DEF Store, PublishedInOrder, AudioFirst, AudioReady, Mine
  <2>. QED
    BY <2>3, <2>5, <2>6, <2>7 DEF RendersInv, Store
<1>. QED
  BY <1>3, <1>4

\* It removes one file.
LEMMA DeleteRemovesKeeps ==
    ASSUME RendersInv, NEW d \in Deleters, DeleteRemoves(d)
    PROVE  RendersInv'
<1>1. /\ Store /\ StoreTyped /\ deleter \in [Deleters -> Deletions] /\ deleter[d] \in Deletions
      /\ deleter[d].pc = "remove"
  BY AtWork DEF RendersInv, Book, RendersTypeOK, DeleteRemoves
<1>2. UNCHANGED <<job, jobs, queue, disp, raced, torn, dirs, audio, staged, manifest>>
  BY DEF DeleteRemoves
<1>. DEFINE q == deleter[d].q
<1>3. PICK i \in deleter[d].names :
         /\ segs' = [segs EXCEPT ![q] = @ \ {i}]
         /\ deleter' = [deleter EXCEPT ![d].names = @ \ {i}]
  BY DEF DeleteRemoves
<1>. DEFINE n == deleter[d].names \ {i}
            r == [deleter[d] EXCEPT !.names = n]
<1>4. deleter' = [deleter EXCEPT ![d] = r]
  BY <1>1, <1>3
<1>5. n \in SUBSET RenderSegments
  BY <1>1 DEF Deletions
<1>6. n = deleter[d].names \ {i}
  OBVIOUS
<1>. HIDE DEF n
<1>7. r \in Deletions /\ r.pc = "remove" /\ r.q = deleter[d].q /\ r.names = n
  BY <1>1, <1>5 DEF Deletions
<1>. HIDE DEF r
<1>8. q \in Qualities
  BY <1>1 DEF RendersInv, Book, QualityOfDelete, Deleting
<1>9. StoreTyped'
  BY <1>1, <1>2, <1>3, <1>8 DEF StoreTyped
<1>10. /\ Book' /\ Apart' /\ Deleting' = Deleting /\ d \in Deleting
       /\ deleter'[d] = r /\ \A e \in Deleters \ {d} : deleter'[e] = deleter[e]
  BY <1>1, <1>2, <1>4, <1>7, <1>9, DeleteGoesOn
<1>. HIDE DEF q
<1>11. /\ segs'[q] = segs[q] \ {i} /\ \A p \in Qualities : segs'[p] \subseteq segs[p]
       /\ \A p \in Qualities \ {q} : segs'[p] = segs[p]
  BY <1>1, <1>3, <1>8 DEF StoreTyped
<1>12. DeletedFiles'
  <2>. SUFFICES ASSUME ~raced, NEW e \in Deleting
                PROVE  /\ deleter'[e].pc = "remove" => segs'[deleter'[e].q] \subseteq deleter'[e].names
                       /\ deleter'[e].pc = "unlist" => segs'[deleter'[e].q] = {}
    BY <1>2, <1>10 DEF DeletedFiles
  <2>1. /\ deleter[e].pc = "remove" => segs[deleter[e].q] \subseteq deleter[e].names
        /\ deleter[e].pc = "unlist" => segs[deleter[e].q] = {}
    BY <1>1 DEF Store, DeletedFiles
  <2>2. deleter[e].q \in Qualities /\ e \in Deleters
    BY DEF RendersInv, Book, QualityOfDelete, Deleting
  <2>3. CASE e = d
    BY <1>1, <1>6, <1>7, <1>10, <1>11, <2>1, <2>3 DEF q
  <2>4. CASE e # d
    BY <1>10, <1>11, <2>1, <2>2, <2>4
  <2>. QED
    BY <2>3, <2>4
<1>13. LastIsLast'
  <2>1. \A p \in Qualities : p = q => BeingRemoved(p)'
    BY <1>7, <1>10 DEF BeingRemoved, q
  <2>2. \A p \in Qualities : BeingRemoved(p)' <=> BeingRemoved(p)
    BY <1>1, <1>2, <1>7, <1>10 DEF BeingRemoved
  <2>3. \A p \in Qualities : BeingRemoved(p) => BeingRemoved(p)'
    BY <2>2
  <2>. QED
    <3>. SUFFICES ASSUME ~raced, NEW p \in Qualities \ torn, LastRendered \in segs'[p],
                         ~BeingRemoved(p)'
                  PROVE  segs'[p] = RenderSegments
      BY <1>2 DEF LastIsLast
    <3>1. p # q
      BY <2>1
    <3>2. segs'[p] = segs[p] /\ ~BeingRemoved(p)
      BY <1>11, <2>3, <3>1
    <3>. QED
      BY <1>1, <3>2 DEF Store, LastIsLast
<1>14. PublishedInOrder'
  BY <1>2, <1>10, NothingPublished DEF PublishedInOrder
<1>15. AudioFirst'
  BY <1>1, <1>2 DEF Store, AudioFirst, AudioReady
<1>. QED
  BY <1>10, <1>12, <1>13, <1>14, <1>15 DEF RendersInv, Store

\* The manifest forgets the quality; without any the whole store goes.
LEMMA DeleteUnlistsKeeps ==
    ASSUME RendersInv, NEW d \in Deleters, DeleteUnlists(d)
    PROVE  RendersInv'
<1>. DEFINE q == deleter[d].q
            rest == manifest.qualities \ {q}
            gone == manifest.there /\ rest = {}
<1>1. /\ Book /\ Apart /\ Store /\ StoreTyped /\ deleter \in [Deleters -> Deletions]
      /\ deleter[d].pc = "unlist" /\ jobs \in [Qualities -> Ids \cup {0}]
  BY AtWork DEF RendersInv, Book, RendersTypeOK, DeleteUnlists
<1>2. /\ manifest' = IF gone THEN NoManifest ELSE [manifest EXCEPT !.qualities = rest]
      /\ dirs' = IF gone THEN {} ELSE dirs
      /\ segs' = IF gone THEN [p \in Qualities |-> {}] ELSE segs
      /\ audio' = (audio /\ ~gone)
      /\ staged' = (staged /\ ~gone)
      /\ jobs' = [jobs EXCEPT ![q] = 0]
      /\ deleter' = [deleter EXCEPT ![d] = NoDelete]
      /\ UNCHANGED <<job, queue, disp, raced, torn>>
  BY DEF DeleteUnlists
<1>3. rest \subseteq manifest.qualities /\ rest \in SUBSET Qualities
  BY <1>1 DEF StoreTyped, Manifests
<1>4. gone \in BOOLEAN /\ (gone => rest = {})
  OBVIOUS
<1>5. d \in Deleting /\ q \in Qualities
  BY <1>1 DEF Book, QualityOfDelete, Deleting
<1>. HIDE DEF rest, gone, q
<1>6. /\ manifest' \in Manifests
      /\ manifest'.qualities # {} => /\ ~gone /\ manifest.qualities # {}
                                     /\ manifest'.audio = manifest.audio
  BY <1>1, <1>2, <1>3, <1>4 DEF StoreTyped, Manifests, NoManifest
<1>7. segs' \in [Qualities -> SUBSET RenderSegments] /\ (segs' = segs \/ \A p \in Qualities : segs'[p] = {})
  BY <1>1, <1>2, <1>4 DEF StoreTyped
<1>8. StoreTyped'
  <2>1. dirs' \subseteq Qualities /\ audio' \in BOOLEAN /\ staged' \in BOOLEAN
    BY <1>1, <1>2, <1>4 DEF StoreTyped
  <2>. QED
    BY <1>1, <1>2, <1>6, <1>7, <2>1 DEF StoreTyped
<1>9. NoDelete \in Deletions /\ NoDelete.pc = "idle"
  BY DEF NoDelete, Deletions
<1>10. /\ deleter' \in [Deleters -> Deletions] /\ deleter'[d].pc = "idle"
       /\ \A e \in Deleters \ {d} : deleter'[e] = deleter[e]
  BY <1>1, <1>2, <1>9
<1>11. Deleting' = Deleting \ {d}
  BY <1>10 DEF Deleting
<1>12. RendersTypeOK'
  BY <1>1, <1>2, <1>5, <1>8, <1>10 DEF Book, RendersTypeOK, StoreTyped
<1>13. JobOfQuality'
  BY <1>1, <1>2, <1>5 DEF Book, JobOfQuality
<1>14. JobOfDispatcher' /\ JobsInQueue'
  BY <1>1, <1>2 DEF Book, JobOfDispatcher, JobsInQueue
<1>15. QualityOfDelete'
  BY <1>1, <1>10, <1>11 DEF Book, QualityOfDelete, Deleting
<1>16. ~raced => disp.pc \in {"idle", "begin", "video"}
  BY <1>5, NothingPublished
<1>17. Apart'
  BY <1>1, <1>2, <1>11, <1>16 DEF Apart, CanceledIsEarly, DeletesAlone
<1>18. DeletedFiles'
  BY <1>1, <1>2, <1>7, <1>10, <1>11 DEF Store, DeletedFiles, Deleting, Book, QualityOfDelete
<1>19. LastIsLast'
  <2>1. \A p : BeingRemoved(p)' <=> BeingRemoved(p)
    BY <1>1, <1>2, <1>10 DEF BeingRemoved
  <2>. QED
    BY <1>1, <1>2, <1>7, <2>1 DEF Store, LastIsLast
<1>20. PublishedInOrder'
  BY <1>2, <1>16 DEF PublishedInOrder
<1>21. AudioFirst'
  <2>1. ~raced /\ manifest'.qualities # {} => AudioReady'
    BY <1>1, <1>2, <1>6 DEF Store, AudioFirst, AudioReady
  <2>. QED
    BY <1>2, <1>16, <2>1 DEF AudioFirst
<1>. QED
  BY <1>12, <1>13, <1>14, <1>15, <1>17, <1>18, <1>19, <1>20, <1>21 DEF RendersInv, Book, Store

\* The worker starts again with what is on the disk.
LEMMA RestartKeeps ==
    ASSUME RendersInv, Restart
    PROVE  RendersInv'
<1>1. /\ Book /\ Store /\ StoreTyped
  BY AtWork DEF RendersInv
<1>2. /\ job' = [i \in Ids |-> NoJob] /\ jobs' = [q \in Qualities |-> 0]
      /\ queue' = <<>> /\ disp' = Idle
      /\ deleter' = [d \in Deleters |-> NoDelete] /\ staged' = FALSE
      /\ torn' = torn \cup {q \in Qualities : /\ ~raced /\ BeingRemoved(q)
                                              /\ LastRendered \in segs[q] /\ segs[q] # RenderSegments}
      /\ UNCHANGED <<dirs, segs, audio, manifest, raced>>
  BY DEF Restart, Stops
<1>3. /\ NoJob \in Jobs /\ Idle \in Dispatches /\ Idle.pc = "idle"
      /\ NoDelete \in Deletions /\ NoDelete.pc = "idle"
  BY RendersConstants DEF NoJob, Jobs, Idle, Dispatches, NoDelete, Deletions
<1>4. Deleting' = {}
  BY <1>2, <1>3 DEF Deleting
<1>5. RendersTypeOK'
  <2>1. queue' \in Seq(Ids)
    BY <1>2
  <2>. QED
    BY <1>1, <1>2, <1>3, <2>1 DEF Book, RendersTypeOK
<1>6. JobOfQuality' /\ JobOfDispatcher' /\ JobsInQueue' /\ QualityOfDelete'
  BY <1>2, <1>3, <1>4 DEF JobOfQuality, JobOfDispatcher, JobsInQueue, QualityOfDelete
<1>7. Apart'
  BY <1>2, <1>3 DEF Apart, CanceledIsEarly, DeletesAlone
<1>8. LastIsLast'
  <2>. SUFFICES ASSUME ~raced, NEW q \in Qualities \ torn', LastRendered \in segs[q]
                PROVE  segs[q] = RenderSegments
    BY <1>2 DEF LastIsLast
  <2>1. CASE BeingRemoved(q)
    BY <1>2, <2>1
  <2>2. CASE ~BeingRemoved(q)
    BY <1>1, <1>2, <2>2 DEF Store, LastIsLast
  <2>. QED
    BY <2>1, <2>2
<1>9. Store'
  BY <1>1, <1>2, <1>3, <1>4, <1>8 DEF Store, DeletedFiles, PublishedInOrder, AudioFirst, AudioReady
<1>. QED
  BY <1>5, <1>6, <1>7, <1>9 DEF RendersInv, Book

\* The worker ends while the store is removed: nothing is said of what is left.
LEMMA StoreCutShortKeeps ==
    ASSUME RendersInv, NEW d \in Deleters, StoreCutShort(d)
    PROVE  RendersInv'
<1>1. StoreTyped
  BY AtWork
<1>2. /\ job' = [i \in Ids |-> NoJob] /\ jobs' = [q \in Qualities |-> 0]
      /\ queue' = <<>> /\ disp' = Idle
      /\ deleter' = [e \in Deleters |-> NoDelete] /\ staged' = FALSE
      /\ raced' = TRUE /\ torn' = {}
      /\ dirs' \in SUBSET dirs /\ segs' \in [Qualities -> SUBSET RenderSegments]
      /\ audio' \in {audio, FALSE} /\ manifest' \in {manifest, NoManifest}
  BY DEF StoreCutShort, Stops, Overlap
<1>3. /\ NoJob \in Jobs /\ Idle \in Dispatches /\ Idle.pc = "idle" /\ NoManifest \in Manifests
      /\ NoDelete \in Deletions /\ NoDelete.pc = "idle"
  BY RendersConstants DEF NoJob, Jobs, Idle, Dispatches, NoDelete, Deletions, NoManifest, Manifests
<1>4. RendersTypeOK'
  <2>1. queue' \in Seq(Ids)
    BY <1>2
  <2>2. dirs' \subseteq Qualities /\ audio' \in BOOLEAN /\ manifest' \in Manifests
    BY <1>1, <1>2, <1>3 DEF StoreTyped
  <2>. QED
    BY <1>2, <1>3, <2>1, <2>2 DEF RendersTypeOK
<1>5. JobOfQuality' /\ JobOfDispatcher' /\ JobsInQueue' /\ QualityOfDelete'
  BY <1>2, <1>3 DEF JobOfQuality, JobOfDispatcher, JobsInQueue, QualityOfDelete, Deleting
<1>6. Apart' /\ Store'
  BY <1>2 DEF Apart, CanceledIsEarly, DeletesAlone, Store, DeletedFiles, LastIsLast,
              PublishedInOrder, AudioFirst
<1>. QED
  BY <1>4, <1>5, <1>6 DEF RendersInv, Book

-----------------------------------------------------------------------------
(* The invariant and what follows from it                                   *)

\* The store is empty, and nothing was asked for.
LEMMA RendersStart == RendersInit => RendersInv
<1>. SUFFICES ASSUME RendersInit PROVE RendersInv
  OBVIOUS
<1>1. /\ NoJob \in Jobs /\ Idle \in Dispatches /\ Idle.pc = "idle"
      /\ NoDelete \in Deletions /\ NoDelete.pc = "idle" /\ NoManifest \in Manifests
  BY RendersConstants DEF NoJob, Jobs, Idle, Dispatches, NoDelete, Deletions, NoManifest, Manifests
<1>2. Deleting = {}
  BY <1>1 DEF RendersInit, Deleting
<1>3. RendersTypeOK
  <2>1. queue \in Seq(Ids)
    BY DEF RendersInit
  <2>. QED
    BY <1>1, <2>1 DEF RendersInit, RendersTypeOK
<1>4. JobOfQuality /\ JobOfDispatcher /\ JobsInQueue /\ QualityOfDelete
  BY <1>1, <1>2 DEF RendersInit, JobOfQuality, JobOfDispatcher, JobsInQueue, QualityOfDelete
<1>5. Apart
  BY <1>1, <1>2 DEF RendersInit, Apart, CanceledIsEarly, DeletesAlone
<1>6. Store
  BY <1>1, <1>2 DEF RendersInit, Store, DeletedFiles, LastIsLast, PublishedInOrder, AudioFirst,
                    NoManifest
<1>. QED
  BY <1>3, <1>4, <1>5, <1>6 DEF RendersInv, Book

\* Every step keeps the invariant.
LEMMA RendersGoOn == RendersInv /\ [RendersNext]_renderVars => RendersInv'
<1>. SUFFICES ASSUME RendersInv, [RendersNext]_renderVars PROVE RendersInv'
  OBVIOUS
<1>1. CASE UNCHANGED renderVars
  <2>1. /\ UNCHANGED <<job, jobs, queue, disp, deleter, dirs, segs, audio, staged, manifest>>
        /\ UNCHANGED <<raced, torn>>
    BY <1>1 DEF renderVars
  <2>2. Book'
    BY <2>1 DEF RendersInv, Book, RendersTypeOK, JobOfQuality, JobOfDispatcher, JobsInQueue,
                QualityOfDelete, Deleting
  <2>3. Apart'
    BY <2>1 DEF RendersInv, Apart, CanceledIsEarly, DeletesAlone, Deleting
  <2>4. Store'
    BY <2>1 DEF RendersInv, Store, DeletedFiles, LastIsLast, PublishedInOrder, AudioFirst,
                AudioReady, Mine, Deleting, BeingRemoved
  <2>. QED
    BY <2>2, <2>3, <2>4 DEF RendersInv
<1>2. ASSUME NEW q \in Qualities, StartRender(q) \/ Cancel(q) PROVE RendersInv'
  BY <1>2, StartRenderKeeps, CancelKeeps
<1>3. ASSUME NEW d \in Deleters, NEW q \in Qualities, DeleteTests(d, q) PROVE RendersInv'
  BY <1>3, DeleteTestsKeeps
<1>4. ASSUME NEW d \in Deleters,
             \/ DeleteScans(d) \/ DeleteRemoves(d) \/ DeleteEmpties(d) \/ DeleteUnlists(d)
             \/ StoreCutShort(d)
      PROVE  RendersInv'
  BY <1>4, DeleteStepsKeep, DeleteRemovesKeeps, DeleteUnlistsKeeps, StoreCutShortKeeps
<1>5. CASE Dispatcher
  BY <1>5, TakeKeeps, BeginKeeps, LeavesKeeps, AudioKeeps, ClearRemovesKeeps, ClearKeeps, PublishKeeps, ListKeeps
     DEF Dispatcher
<1>6. CASE Fails
  BY <1>6, LeavesKeeps
<1>7. CASE Restart
  BY <1>7, RestartKeeps
<1>. QED
  BY <1>1, <1>2, <1>3, <1>4, <1>5, <1>6, <1>7 DEF RendersNext

\* The inductive invariant of the renders holds throughout.
THEOREM RendersInvariant == RendersSpec => []RendersInv
BY RendersStart, RendersGoOn, PTL DEF RendersSpec

\* The variables keep their types: the dispatcher and the qualities name jobs
\* that there are, and no segment is published beyond the last.
THEOREM RendersTyped == RendersSpec => []RendersTypeOK
<1>1. RendersInv => RendersTypeOK
  BY DEF RendersInv, Book
<1>. QED
  BY <1>1, RendersInvariant, PTL

\* A quality that is ready has all its segments and its audio, though only the
\* last segment is looked at (renders.py: _quality_ready, _publish_quality,
\* delete), whatever is cancelled or fails, and whenever the worker starts again:
\* but for a quality that is being removed or whose removal was cut short, and
\* after a delete and a render that overlapped.
THEOREM ReadyMeansWhole == RendersSpec => []ReadyIsWhole
<1>1. RendersInv => ReadyIsWhole
  <2>. SUFFICES ASSUME RendersInv, ~raced, NEW q \in Qualities, QualityReady(q)
                PROVE  /\ q \notin torn /\ ~BeingRemoved(q) => segs[q] = RenderSegments
                       /\ AudioReady
    BY DEF ReadyIsWhole
  <2>1. LastIsLast /\ AudioFirst
    BY DEF RendersInv, Store
  <2>. QED
    BY <2>1 DEF LastIsLast, AudioFirst, QualityReady
<1>. QED
  BY <1>1, RendersInvariant, PTL
=============================================================================

---------------------------- MODULE WatchPlayer -----------------------------
(* The player of a page (MediaPlayerDialog.tsx, MediaPlayer.tsx,            *)
(* useMediaEngine.ts): which source it asks for, the watchdog that holds a  *)
(* frozen video, and the position it saves.                                 *)
(*                                                                          *)
(* The media element is external, as HTML describes it: play, pause and     *)
(* seek act at once and queue an event, load() drops the queue and rejects  *)
(* the promises of play().  The file is cut in stretches longer than the    *)
(* buffer the watchdog wants, the last one is shorter; resuming starts in   *)
(* neither the first nor the last.                                          *)
EXTENDS Naturals, Sequences, FiniteSets

CONSTANTS
    Last,           \* number of stretches
    MaxActs,        \* bound on what the viewer does
    MaxRetries      \* bound on the sources that are lost or asked for again

\* Resuming starts in a stretch that is neither the first nor the last.
ASSUME PlayerAssumption == Last \in Nat /\ Last > 2 /\ MaxActs \in Nat /\ MaxRetries \in Nat

VARIABLES
    source,     \* prop of MediaPlayer: kind of source, or "none"
    pipe,       \* the effect that asks for one
    forced,     \* forceWorkerRef, forceHlsRef
    retries,
    bad,        \* stretches whose video cannot be decoded
    el,         \* the media element
    loaded,     \* stretches it has
    queue,      \* events it has queued
    promise,    \* a play() of the watchdog is not settled
    guard,      \* refs of the watchdog
    armed,      \* videoFrameCallbackRef
    hidden,     \* the tab is in the background
    last,       \* lastPositionRef
    saved,      \* position in localStorage, 0: none
    applied,    \* resumeAppliedRef
    wants,      \* history: what the viewer asked for last; the end is a pause
    acts

pageVars == <<source, pipe, forced, retries>>
elVars == <<el, loaded, queue, promise>>
keepVars == <<last, saved, applied>>
viewVars == <<hidden, wants, acts>>
playerVars == <<pageVars, bad, elVars, guard, armed, keepVars, viewVars>>

Stretches == 1 .. Last
Events == {"play", "playing", "pause", "seeked", "time", "ended", "meta", "reject"}
\* auto: hls.js has still to call play(); going: "playing" was fired since.
Element == [paused : BOOLEAN, seeking : BOOLEAN, ended : BOOLEAN, meta : BOOLEAN,
            auto : BOOLEAN, going : BOOLEAN, pos : Stretches]
\* held: guardPausedRef; awake: guardWakeAtRef has passed; stale: no frame for
\* VIDEO_STALL_THRESHOLD_MS; seen: a frame since guardFrameBaselineRef.
Guard == [held : BOOLEAN, awake : BOOLEAN, stale : BOOLEAN, seen : BOOLEAN, repeat : 0 .. 2]

Empty == [paused |-> TRUE, seeking |-> FALSE, ended |-> FALSE, meta |-> FALSE,
          auto |-> FALSE, going |-> FALSE, pos |-> 1]
NoGuard == [held |-> FALSE, awake |-> FALSE, stale |-> FALSE, seen |-> FALSE, repeat |-> 0]

Ready == source # "none" /\ el.meta /\ el.pos \in loaded
Shows == ~el.paused /\ ~el.seeking /\ ~el.ended /\ Ready /\ el.pos \notin bad
\* VIDEO_GUARD_MIN_BUFFER_S.
Enough == el.pos < Last /\ {el.pos, el.pos + 1} \subseteq loaded

-----------------------------------------------------------------------------
(* The media element                                                         *)

Played(e) == [e EXCEPT !.paused = FALSE, !.ended = FALSE, !.seeking = @ \/ e.ended,
                       !.pos = IF e.ended THEN 1 ELSE @]
Stopped(e) == [e EXCEPT !.paused = TRUE, !.going = FALSE]
Sought(e, p) == [e EXCEPT !.pos = p, !.seeking = TRUE, !.ended = FALSE, !.going = FALSE]
PlayQueued == IF el.paused THEN <<"play">> ELSE <<>>
PauseQueued == IF el.paused THEN <<>> ELSE IF promise THEN <<"pause", "reject">> ELSE <<"pause">>

Plays == el' = Played(el) /\ queue' = queue \o PlayQueued /\ UNCHANGED promise
PlaysForGuard == el' = Played(el) /\ queue' = queue \o PlayQueued /\ promise' = TRUE
Pauses == el' = Stopped(el) /\ queue' = queue \o PauseQueued /\ promise' = FALSE

\* pause() and load(): what was queued is dropped, what is rejected is heard first.
Emptied ==
    /\ loaded' = {} /\ promise' = FALSE
    /\ queue' = (IF promise \/ \E i \in DOMAIN queue : queue[i] = "reject" THEN <<"reject">> ELSE <<>>)
                \o (IF el.pos > 1 THEN <<"time">> ELSE <<>>)

\* Time passes only when no event waits.
Quiet == queue = <<>>
Queued(e) == queue' = Append(queue, e)

Loads ==
    /\ Quiet /\ source # "none" /\ pipe = "given" /\ ~el.auto
    /\ \E p \in el.pos .. Last : (el.pos .. p - 1) \subseteq loaded /\ p \notin loaded /\ loaded' = loaded \cup {p}
    /\ UNCHANGED <<pageVars, bad, el, queue, promise, guard, armed, keepVars, viewVars>>

MetaKnown ==
    /\ Quiet /\ source # "none" /\ pipe = "given" /\ ~el.auto /\ ~el.meta
    /\ el' = [el EXCEPT !.meta = TRUE] /\ Queued("meta")
    /\ UNCHANGED <<pageVars, bad, loaded, promise, guard, armed, keepVars, viewVars>>

Starts ==
    /\ ~el.paused /\ ~el.going /\ ~el.seeking /\ ~el.ended /\ Ready
    /\ el' = [el EXCEPT !.going = TRUE] /\ Queued("playing") /\ promise' = FALSE
    /\ UNCHANGED <<pageVars, bad, loaded, guard, armed, keepVars, viewVars>>

SeekEnds ==
    /\ Quiet /\ el.seeking /\ Ready
    /\ el' = [el EXCEPT !.seeking = FALSE] /\ Queued("seeked")
    /\ UNCHANGED <<pageVars, bad, loaded, promise, guard, armed, keepVars, viewVars>>

\* A frame is presented: a pending frame callback marks it and asks for the next.
FrameShown == [guard EXCEPT !.seen = TRUE, !.stale = IF armed THEN FALSE ELSE @]
Frame ==
    /\ Quiet /\ Shows /\ guard # FrameShown
    /\ guard' = FrameShown
    /\ UNCHANGED <<pageVars, bad, elVars, armed, keepVars, viewVars>>

\* One presented while paused, after a seek, ends the chain of callbacks.
FrameWhilePaused ==
    /\ armed /\ el.paused /\ Ready /\ el.pos \notin bad
    /\ armed' = FALSE
    /\ UNCHANGED <<pageVars, bad, elVars, guard, keepVars, viewVars>>

\* The sound takes the playhead on, over a damaged stretch too.
Advances ==
    /\ Quiet /\ ~el.paused /\ ~el.seeking /\ ~el.ended /\ Ready
    /\ IF el.pos < Last
       THEN /\ el' = [el EXCEPT !.pos = @ + 1, !.going = el.pos + 1 \in loaded]
            /\ queue' = <<"time">> /\ UNCHANGED wants
       ELSE /\ el' = [Stopped(el) EXCEPT !.ended = TRUE]
            /\ queue' = <<"time", "pause", "ended">> /\ wants' = "pause"
    /\ UNCHANGED <<pageVars, bad, loaded, promise, guard, armed, keepVars, hidden, acts>>

\* No frame for VIDEO_STALL_THRESHOLD_MS.
FramesLate ==
    /\ Quiet /\ el.meta /\ ~el.paused /\ ~el.seeking /\ ~el.ended /\ ~guard.stale
    /\ ~(Shows /\ armed /\ ~hidden)
    /\ guard' = [guard EXCEPT !.stale = TRUE]
    /\ UNCHANGED <<pageVars, bad, elVars, armed, keepVars, viewVars>>

WakeTimePasses ==
    /\ Quiet /\ guard.held /\ ~guard.awake
    /\ guard' = [guard EXCEPT !.awake = TRUE]
    /\ UNCHANGED <<pageVars, bad, elVars, armed, keepVars, viewVars>>

-----------------------------------------------------------------------------
(* The watchdog                                                              *)

Released == [guard EXCEPT !.held = FALSE, !.awake = FALSE, !.stale = FALSE, !.seen = FALSE]

\* enterGuard
Holds ==
    /\ ~guard.held /\ guard.stale /\ ~el.paused /\ el.meta
    /\ guard' = [guard EXCEPT !.held = TRUE, !.awake = FALSE, !.seen = FALSE,
                              !.repeat = IF guard.seen THEN 0 ELSE IF @ = 2 THEN 2 ELSE @ + 1]
    /\ armed' = FALSE
    /\ Pauses

\* resumeGuard, when two resumes showed no frame: skipStalledFragment.
Skips ==
    /\ guard.held /\ guard.awake /\ guard.repeat = 2
    /\ guard' = [Released EXCEPT !.repeat = 0]
    /\ el' = Played(Sought(el, IF el.pos < Last THEN el.pos + 1 ELSE Last))
    /\ queue' = queue \o PlayQueued /\ promise' = TRUE
    /\ UNCHANGED armed

\* resumeGuard, when there is enough to play.
Resumes ==
    /\ guard.held /\ guard.awake /\ guard.repeat < 2
    /\ Ready /\ Enough
    /\ guard' = Released
    /\ PlaysForGuard
    /\ UNCHANGED armed

\* watchdogTick
Tick ==
    /\ ~el.seeking /\ ~el.ended
    /\ \/ hidden /\ guard.stale /\ guard' = [guard EXCEPT !.stale = FALSE] /\ UNCHANGED <<el, queue, promise, armed>>
       \/ ~hidden /\ (Holds \/ Skips \/ Resumes)
    /\ UNCHANGED <<pageVars, bad, loaded, keepVars, viewVars>>

-----------------------------------------------------------------------------
(* Events of the element                                                     *)

\* A play that comes while the watchdog holds is paused again.
PausedAgain ==
    /\ guard.held
    /\ el' = Stopped(el) /\ queue' = Tail(queue) \o PauseQueued /\ promise' = FALSE
    /\ UNCHANGED <<guard, armed, keepVars>>

\* Faulty variants of onPlay: without the test of the watchdog; without a frame
\* callback; one that forgets the run of stalls.
OnPlayUnheld ==
    /\ guard' = [guard EXCEPT !.seen = FALSE, !.stale = FALSE]
    /\ armed' = (armed \/ ~el.paused)
    /\ UNCHANGED <<el, promise, keepVars>> /\ queue' = Tail(queue)
OnPlayForgets ==
    \/ PausedAgain
    \/ /\ ~guard.held /\ guard' = [guard EXCEPT !.seen = FALSE, !.stale = FALSE, !.repeat = 0]
       /\ armed' = (armed \/ ~el.paused)
       /\ UNCHANGED <<el, promise, keepVars>> /\ queue' = Tail(queue)

OnPlay ==
    \/ PausedAgain
    \/ /\ ~guard.held
       /\ guard' = [guard EXCEPT !.seen = FALSE, !.stale = FALSE]
       /\ armed' = (armed \/ ~el.paused)
       /\ UNCHANGED <<el, promise, keepVars>> /\ queue' = Tail(queue)

OnPlaying ==
    \/ PausedAgain
    \/ /\ ~guard.held
       /\ guard' = [guard EXCEPT !.stale = FALSE]
       /\ armed' = (armed \/ ~el.paused)
       /\ UNCHANGED <<el, promise, keepVars>> /\ queue' = Tail(queue)

OnPause ==
    /\ IF guard.held THEN UNCHANGED <<guard, armed, keepVars>>
       ELSE /\ guard' = [guard EXCEPT !.repeat = 0, !.seen = FALSE]
            /\ armed' = FALSE
            /\ IF el.pos > 1 /\ ~el.ended
               THEN last' = el.pos /\ saved' = el.pos /\ UNCHANGED applied
               ELSE UNCHANGED keepVars
    /\ UNCHANGED <<el, promise>> /\ queue' = Tail(queue)

OnSeeked ==
    /\ last' = el.pos /\ UNCHANGED <<saved, applied, armed>>
    /\ guard' = [Released EXCEPT !.repeat = 0]
    /\ IF guard.held
       THEN el' = Played(el) /\ queue' = Tail(queue) \o PlayQueued
       ELSE UNCHANGED el /\ queue' = Tail(queue)
    /\ UNCHANGED promise

\* The position is saved every five seconds while playing.
OnTimeUpdate ==
    /\ last' = el.pos
    /\ \/ saved' = saved
       \/ ~el.paused /\ el.pos > 1 /\ saved' = el.pos
    /\ UNCHANGED <<el, promise, guard, armed, applied>> /\ queue' = Tail(queue)

OnEnded ==
    /\ guard' = [guard EXCEPT !.held = FALSE, !.awake = FALSE, !.repeat = 0, !.seen = FALSE]
    /\ armed' = FALSE /\ last' = 0 /\ saved' = 0
    /\ \/ UNCHANGED el /\ queue' = Tail(queue)
       \/ el' = Played(Sought(el, 1)) /\ queue' = Tail(queue) \o PlayQueued
    /\ UNCHANGED <<promise, applied>>

OnLoadedMetadata ==
    /\ applied' = TRUE
    /\ IF applied THEN UNCHANGED <<el, last>>
       ELSE IF saved > 1 /\ saved < Last
            THEN el' = Sought(el, saved) /\ last' = saved
            ELSE UNCHANGED el /\ last' = 0
    /\ UNCHANGED <<promise, guard, armed, saved>> /\ queue' = Tail(queue)

\* A play() of the watchdog was rejected: it holds again.
OnReject ==
    /\ guard' = [guard EXCEPT !.held = TRUE, !.awake = FALSE]
    /\ UNCHANGED <<el, promise, armed, keepVars>> /\ queue' = Tail(queue)

Dispatch ==
    /\ queue # <<>>
    /\ LET e == Head(queue) IN
       \/ e = "play" /\ OnPlay
       \/ e = "playing" /\ OnPlaying
       \/ e = "pause" /\ OnPause
       \/ e = "seeked" /\ OnSeeked
       \/ e = "time" /\ OnTimeUpdate
       \/ e = "ended" /\ OnEnded
       \/ e = "meta" /\ OnLoadedMetadata
       \/ e = "reject" /\ OnReject
    /\ wants' = IF Head(queue) = "ended" /\ ~el'.paused THEN "play" ELSE wants
    /\ UNCHANGED <<pageVars, bad, loaded, hidden, acts>>

-----------------------------------------------------------------------------
(* The source                                                                *)

\* The effects of a new source: the engine loads it, the position is saved and the
\* watchdog starts afresh.
Given(kind) ==
    /\ source' = kind /\ pipe' = "given"
    /\ loaded' = {} /\ promise' = FALSE
    /\ el' = IF kind = "hls" THEN [Empty EXCEPT !.auto = TRUE] ELSE [Empty EXCEPT !.paused = FALSE]
    /\ queue' = (IF promise \/ \E i \in DOMAIN queue : queue[i] = "reject" THEN <<"reject">> ELSE <<>>)
                \o (IF kind = "hls" THEN <<>> ELSE <<"play">>)
    /\ saved' = IF last > 1 THEN last ELSE saved
    /\ applied' = FALSE
    /\ guard' = [guard EXCEPT !.held = FALSE, !.awake = FALSE, !.stale = FALSE]
    /\ UNCHANGED <<forced, retries, bad, armed, last, viewVars>>

\* The ticket: the file as it is, HLS, or a copy the worker prepares first.
Answered ==
    /\ pipe = "asking"
    /\ \/ "worker" \notin forced /\ Given("direct")
       \/ Given("hls")
       \/ /\ "hls" \notin forced /\ pipe' = "preparing"
          /\ UNCHANGED <<source, forced, retries, bad, elVars, guard, armed, keepVars, viewVars>>

Prepared == pipe = "preparing" /\ Given("progressive")

\* The ticket, the preparation or HLS fails: an error is shown until the viewer retries.
AskFails ==
    /\ pipe \in {"asking", "preparing"} /\ retries < MaxRetries
    /\ pipe' = "failed"
    /\ UNCHANGED <<source, forced, retries, bad, elVars, guard, armed, keepVars, viewVars>>

HlsFatal ==
    /\ source = "hls" /\ pipe = "given" /\ retries < MaxRetries
    /\ pipe' = "failed"
    /\ el' = Empty /\ Emptied
    /\ UNCHANGED <<source, forced, retries, bad, guard, armed, keepVars, viewVars>>

\* A new attempt: the source becomes null, which tears the engine down.
Again ==
    /\ retries < MaxRetries /\ retries' = retries + 1
    /\ pipe' = "asking" /\ source' = "none"
    /\ el' = Empty /\ Emptied
    /\ UNCHANGED <<bad, guard, armed, keepVars, viewVars>>

SourceError ==
    /\ pipe = "given" /\ source \in {"direct", "progressive"}
    /\ forced' = forced \cup {IF source = "direct" THEN "worker" ELSE "hls"}
    /\ Again

Retry == pipe = "failed" /\ UNCHANGED forced /\ Again

\* hls.js has parsed the manifest.
HlsPlays ==
    /\ el.auto /\ pipe = "given"
    /\ el' = [Played(el) EXCEPT !.auto = FALSE] /\ queue' = queue \o PlayQueued
    /\ UNCHANGED <<pageVars, bad, loaded, promise, guard, armed, keepVars, viewVars>>

-----------------------------------------------------------------------------
(* The viewer                                                                *)

Acts == acts < MaxActs /\ acts' = acts + 1

\* A click or the spacebar; the pause of the watchdog becomes the viewer's.
TogglePlay ==
    /\ Acts /\ source # "none" /\ pipe = "given"
    /\ IF guard.held
       THEN /\ guard' = [guard EXCEPT !.held = FALSE, !.awake = FALSE]
            /\ wants' = "pause" /\ UNCHANGED <<el, queue, promise>>
       ELSE /\ IF el.paused THEN wants' = "play" /\ Plays ELSE wants' = "pause" /\ Pauses
            /\ UNCHANGED guard
    /\ UNCHANGED <<pageVars, bad, loaded, armed, keepVars, hidden>>

\* The keys of the system, which act on the element.
MediaKey ==
    /\ Acts /\ source # "none" /\ pipe = "given"
    /\ \/ wants' = "play" /\ Plays
       \/ ~el.paused /\ wants' = "pause" /\ Pauses
    /\ UNCHANGED <<pageVars, bad, loaded, guard, armed, keepVars, hidden>>

Seek ==
    /\ Acts /\ el.meta
    /\ \E p \in Stretches : el' = Sought(el, p) /\ last' = p
    /\ UNCHANGED <<pageVars, bad, loaded, queue, promise, guard, armed, saved, applied, hidden, wants>>

\* The tab goes to the background, or comes back: the frame clock starts afresh.
SwitchTab ==
    /\ Acts /\ hidden' = ~hidden
    /\ guard' = [guard EXCEPT !.stale = @ /\ ~hidden]
    /\ UNCHANGED <<pageVars, bad, elVars, armed, keepVars, wants>>

-----------------------------------------------------------------------------
Init ==
    /\ source = "none" /\ pipe = "asking" /\ forced = {} /\ retries = 0
    /\ bad \in {{}, {2}}
    /\ el = Empty /\ loaded = {} /\ queue = <<>> /\ promise = FALSE
    /\ guard = NoGuard /\ armed = FALSE
    /\ last = 0 /\ saved \in {0, 2} /\ applied = FALSE
    /\ hidden = FALSE /\ wants = "play" /\ acts = 0

Browser ==
    \/ Loads \/ MetaKnown \/ Starts \/ SeekEnds \/ Frame \/ FrameWhilePaused \/ Advances
    \/ FramesLate \/ WakeTimePasses
Player == Tick \/ Dispatch \/ Answered \/ Prepared \/ AskFails \/ HlsFatal \/ SourceError \/ Retry \/ HlsPlays
Viewer == TogglePlay \/ MediaKey \/ Seek \/ SwitchTab

Next == Browser \/ Player \/ Viewer
Spec == Init /\ [][Next]_playerVars

\* The network and the decoder go on, the event loop serves timers and events.
Fairness ==
    /\ WF_playerVars(Loads) /\ WF_playerVars(MetaKnown) /\ WF_playerVars(Starts)
    /\ WF_playerVars(SeekEnds) /\ WF_playerVars(Frame) /\ WF_playerVars(Shows /\ Advances)
    /\ WF_playerVars(FramesLate) /\ WF_playerVars(WakeTimePasses)
    /\ WF_playerVars(Tick) /\ WF_playerVars(Dispatch) /\ WF_playerVars(Answered)
    /\ WF_playerVars(Prepared) /\ WF_playerVars(HlsPlays)

FairSpec == Spec /\ Fairness

-----------------------------------------------------------------------------
(* Correctness *)

TypeOK ==
    /\ source \in {"none", "direct", "progressive", "hls"}
    /\ pipe \in {"asking", "preparing", "given", "failed"}
    /\ forced \subseteq {"worker", "hls"} /\ retries \in 0 .. MaxRetries
    /\ bad \subseteq Stretches /\ loaded \subseteq Stretches
    /\ el \in Element /\ guard \in Guard /\ queue \in Seq(Events)
    /\ {promise, armed, hidden, applied} \subseteq BOOLEAN
    /\ last \in 0 .. Last /\ saved \in 0 .. Last
    /\ wants \in {"play", "pause"} /\ acts \in 0 .. MaxActs

\* While the watchdog holds a frozen video its sound is silent, however late a play()
\* of hls.js, of the viewer or of its own comes (MediaPlayer.tsx:902-912, 960-968).
HeldIsSilent == guard.held /\ Quiet => el.paused

\* Playback does not stay in a stretch for good while the viewer wants to watch, be it
\* damaged or late; the last stretch is another matter (MediaPlayer.tsx:729-789).
StaysIn(p) == el.pos = p /\ wants = "play" /\ ~hidden /\ source # "none" /\ pipe = "given"
PlaysOn == \A p \in 1 .. Last - 1 : []<>~StaysIn(p)

\* ... "keep the UI in its loading state so the automatic resume is visible"
\* (MediaPlayer.tsx:934-935).
EndIsReached == []<>~(StaysIn(Last) /\ ~el.ended)

\* "leave it paused": what the viewer paused does not start by itself
\* (MediaPlayer.tsx:376-378).
PauseHolds == wants = "pause" /\ Quiet /\ ~el.auto => el.paused \/ guard.held

\* "Use the tracked position: engine teardown may reset currentTime first": where the
\* viewer was outlives the source (MediaPlayer.tsx:1102-1111).
PositionOutlivesSource == [][source = "none" => last' = last]_playerVars
=============================================================================

---------------------------- MODULE CloudPlayback ---------------------------
(* Playing a saved cloud file (CloudMediaPlayerDialog.tsx, cloudStream.ts,  *)
(* mega-stream-sw.js): the page registers the item with the service worker, *)
(* probes it, plays the ranges the worker decrypts, and falls back to a     *)
(* download of the whole file.                                              *)
(*                                                                          *)
(* What the worker knows is in its memory: the browser may stop it whenever *)
(* it has nothing to do.  Messages of the page reach it in order.  Every    *)
(* start of the page's effect is a run; when the item, the mode or the      *)
(* attempt changes, the run is cancelled and a new one starts.              *)
EXTENDS Naturals, Sequences, FiniteSets

CONSTANTS
    Items,
    MaxRuns,        \* bound on the runs of the effect
    MaxWorkerStops  \* bound on the stops of the worker

ASSUME CloudAssumption == "none" \notin Items /\ MaxRuns \in Nat /\ MaxWorkerStops \in Nat

VARIABLES
    item,       \* the prop, or "none"
    mode,       \* "stream" or "blob"
    status,
    media,      \* the source the player has: "none", "stream" or "blob"
    current,    \* the run that is not cancelled, or 0
    runs,       \* runs started
    step,       \* where it waits
    waits,      \* the item a run waits to hear registered, or "none"
    box,        \* messages to the worker
    acks,       \* runs whose registration was answered
    streams,    \* items the worker knows
    verdicts,   \* integrityCache
    broken,     \* items whose file is zero-filled
    downloads,  \* runs that download the whole file
    blobUrl,    \* the run whose object URL is alive, or 0
    workerStops,
    crossed     \* history: a late answer unregistered the item that is open

cloudVars == <<item, mode, status, media, current, runs, step, waits, box, acks, streams, verdicts,
               broken, downloads, blobUrl, workerStops, crossed>>
worker == <<streams, verdicts, workerStops>>
dialog == <<item, mode, status, media, current, runs, step, downloads, blobUrl>>

Runs == 1 .. MaxRuns
Registers(i, r) == [type |-> "register", item |-> i, run |-> r]
Unregisters(i) == [type |-> "unregister", item |-> i, run |-> 0]

-----------------------------------------------------------------------------
(* The effect of the dialog                                                  *)

\* Faulty variants: a clean-up that leaves the item registered, or the object URL alive.
KeepsItem == /\ box' = box /\ downloads' = downloads \ {current} /\ blobUrl' = 0

Cleanup ==
    /\ box' = IF current # 0 /\ mode = "stream" THEN Append(box, Unregisters(item)) ELSE box
    /\ downloads' = downloads \ {current} /\ blobUrl' = 0

\* A new item starts on the streaming path.
RunStarts(i, m) ==
    /\ item' = i /\ media' = "none"
    /\ IF i = "none"
       THEN current' = 0 /\ step' = "idle" /\ UNCHANGED <<mode, status, runs>>
       ELSE /\ runs' = runs + 1 /\ current' = runs + 1
            /\ mode' = m
            /\ IF m = "stream" THEN step' = "worker" /\ status' = "connecting"
               ELSE step' = "confirm" /\ status' = "preparing"
    /\ Cleanup

Falls == RunStarts(item, "blob")

\* ensureWatchStreamWorker and the message; without a worker the file is downloaded.
WorkerReady ==
    /\ step = "worker"
    /\ \/ /\ step' = "register"
          /\ waits' = [waits EXCEPT ![current] = item]
          /\ box' = Append(box, Registers(item, current))
          /\ UNCHANGED <<item, mode, status, media, current, runs, downloads, blobUrl>>
       \/ Falls /\ UNCHANGED waits
    /\ UNCHANGED <<acks, worker, broken, crossed>>

Probes == step' = "probe" /\ UNCHANGED <<item, mode, status, media, current, runs, downloads, blobUrl>>

\* Faulty variant: the answer to a cancelled run is taken for the current one's.
RegisterAnsweredAny(r) ==
    /\ r \in acks /\ acks' = acks \ {r} /\ waits' = [waits EXCEPT ![r] = "none"]
    /\ IF step = "register" THEN Probes ELSE UNCHANGED dialog
    /\ UNCHANGED <<box, worker, broken, crossed>>

\* A registration is answered; that of a cancelled run is taken back.
RegisterAnswered(r) ==
    /\ r \in acks /\ acks' = acks \ {r} /\ waits' = [waits EXCEPT ![r] = "none"]
    /\ IF r = current
       THEN Probes /\ UNCHANGED <<box, crossed>>
       ELSE /\ box' = Append(box, Unregisters(waits[r]))
            /\ crossed' = (crossed \/ waits[r] = item)
            /\ UNCHANGED dialog
    /\ UNCHANGED <<worker, broken>>

\* 1.5 s without an answer; one that comes later is not heard.
RegisterUnanswered(r) ==
    /\ waits[r] # "none" /\ acks' = acks \ {r} /\ waits' = [waits EXCEPT ![r] = "none"]
    /\ IF r = current THEN Falls ELSE UNCHANGED <<dialog, box>>
    /\ UNCHANGED <<worker, broken, crossed>>

\* verifyMegaHead: a head that is read and corrupt is remembered, a failed read passes.
HeadChecked(i) ==
    IF i \in verdicts THEN {<<"corrupt", verdicts>>}
    ELSE {<<"ok", verdicts>>} \cup (IF i \in broken THEN {<<"corrupt", verdicts \cup {i}>>} ELSE {})

\* What the worker answers a request with, and what it remembers then.
Verdict(i) ==
    IF i \in streams
    THEN HeadChecked(i) \cup {<<"upstream", verdicts>>, <<"not-found", verdicts>>}
    ELSE {<<"not-registered", verdicts>>}

\* probeWatchStream: quota, a missing and a corrupt file are shown, the rest is downloaded.
Probed ==
    /\ step = "probe"
    /\ \E v \in Verdict(item) :
        /\ verdicts' = v[2]
        /\ \/ /\ v[1] \in {"ok", "not-found", "corrupt"} /\ step' = "idle"
              /\ IF v[1] = "ok" THEN status' = "loading" /\ media' = "stream"
                 ELSE status' = "error" /\ UNCHANGED media
              /\ UNCHANGED <<item, mode, current, runs, box, downloads, blobUrl>>
           \/ v[1] \in {"not-registered", "upstream"} /\ Falls
    /\ UNCHANGED <<waits, acks, streams, workerStops, broken, crossed>>

\* A file of more than 2 GB is downloaded if the viewer agrees.
Downloads ==
    /\ step = "confirm"
    /\ \/ step' = "download" /\ downloads' = downloads \cup {current} /\ UNCHANGED status
       \/ step' = "idle" /\ status' = "error" /\ UNCHANGED downloads
    /\ UNCHANGED <<item, mode, media, current, runs, waits, box, acks, worker, broken, blobUrl, crossed>>

\* downloadCloudFileToBlob ends; a corrupt head that is read fails it.
Downloaded ==
    /\ step = "download" /\ step' = "idle" /\ downloads' = downloads \ {current}
    /\ \/ blobUrl' = current /\ media' = "blob" /\ status' = "loading"
       \/ status' = "error" /\ UNCHANGED <<blobUrl, media>>
    /\ UNCHANGED <<item, mode, current, runs, waits, box, acks, worker, broken, crossed>>

-----------------------------------------------------------------------------
(* The player                                                                *)

\* loadeddata
PlayerReady ==
    /\ media = "blob" \/ (media = "stream" /\ item \in streams)
    /\ status = "loading" /\ status' = "ready"
    /\ UNCHANGED <<item, mode, media, current, runs, step, waits, box, acks, worker, broken, downloads,
                   blobUrl, crossed>>

\* The element reports an error: a range was refused, or it cannot decode the file.
PlayerFails ==
    /\ media # "none" /\ status # "error"
    /\ IF mode = "stream" THEN Falls
       ELSE status' = "error" /\ UNCHANGED <<item, mode, media, current, runs, step, box, downloads, blobUrl>>
    /\ UNCHANGED <<waits, acks, worker, broken, crossed>>

\* 30 s without a source that plays.
Slow ==
    /\ item # "none" /\ mode = "stream" /\ status \notin {"ready", "error"}
    /\ Falls /\ UNCHANGED <<waits, acks, worker, broken, crossed>>

-----------------------------------------------------------------------------
(* The viewer, who leaves room for the run that falls back                   *)

Room == runs + 1 < MaxRuns

\* Another item, or the dialog is closed.
Changes ==
    /\ \E i \in (Items \cup {"none"}) \ {item} : (i = "none" \/ Room) /\ RunStarts(i, "stream")
    /\ UNCHANGED <<waits, acks, worker, broken, crossed>>

TryAgain ==
    /\ status = "error" /\ item # "none" /\ Room /\ RunStarts(item, "stream")
    /\ UNCHANGED <<waits, acks, worker, broken, crossed>>

-----------------------------------------------------------------------------
(* The service worker                                                        *)

Hears ==
    /\ box # <<>> /\ box' = Tail(box)
    /\ LET m == Head(box) IN
       IF m.type = "register"
       THEN /\ streams' = streams \cup {m.item}
            /\ acks' = IF waits[m.run] = "none" THEN acks ELSE acks \cup {m.run}
       ELSE streams' = streams \ {m.item} /\ UNCHANGED acks
    /\ UNCHANGED <<dialog, waits, verdicts, workerStops, broken, crossed>>

\* Nothing keeps it: the maps are gone.
WorkerStops ==
    /\ workerStops < MaxWorkerStops /\ workerStops' = workerStops + 1
    /\ box = <<>> /\ step # "probe"
    /\ streams' = {} /\ verdicts' = {}
    /\ UNCHANGED <<dialog, waits, box, acks, broken, crossed>>

-----------------------------------------------------------------------------
CloudInit ==
    /\ item = "none" /\ mode = "stream" /\ status = "connecting" /\ media = "none"
    /\ current = 0 /\ runs = 0 /\ step = "idle"
    /\ waits = [r \in Runs |-> "none"] /\ box = <<>> /\ acks = {}
    /\ streams = {} /\ verdicts = {} /\ broken \in SUBSET Items
    /\ downloads = {} /\ blobUrl = 0 /\ workerStops = 0 /\ crossed = FALSE

CloudPage ==
    \/ WorkerReady \/ Probed \/ Downloads \/ Downloaded \/ Slow
    \/ \E r \in Runs : RegisterAnswered(r) \/ RegisterUnanswered(r)
CloudNext == CloudPage \/ PlayerReady \/ PlayerFails \/ Changes \/ TryAgain \/ Hears \/ WorkerStops
CloudSpec == CloudInit /\ [][CloudNext]_cloudVars

\* The timers fire, the cloud answers, and an element that is given a whole file says
\* whether it plays it; nothing says that it ever plays the ranges.
CloudFairness ==
    /\ WF_cloudVars(CloudPage) /\ WF_cloudVars(Slow) /\ WF_cloudVars(Hears)
    /\ WF_cloudVars(media = "blob" /\ status = "loading" /\ (PlayerReady \/ PlayerFails))
CloudFairSpec == CloudSpec /\ CloudFairness

-----------------------------------------------------------------------------
CloudTypeOK ==
    /\ item \in Items \cup {"none"} /\ mode \in {"stream", "blob"}
    /\ status \in {"connecting", "preparing", "loading", "ready", "error"}
    /\ media \in {"none", "stream", "blob"} /\ current \in 0 .. MaxRuns /\ runs \in 0 .. MaxRuns
    /\ step \in {"idle", "worker", "register", "probe", "confirm", "download"}
    /\ waits \in [Runs -> Items \cup {"none"}] /\ acks \subseteq Runs
    /\ streams \subseteq Items /\ verdicts \subseteq broken /\ broken \subseteq Items
    /\ downloads \subseteq Runs /\ blobUrl \in 0 .. MaxRuns
    /\ workerStops \in 0 .. MaxWorkerStops /\ crossed \in BOOLEAN

\* What is played is registered, as long as no late answer unregistered it and the
\* worker was not stopped (CloudMediaPlayerDialog.tsx:123-163, 219-223).
PlayedIsRegistered ==
    media = "stream" /\ ~crossed /\ workerStops = 0 => item \in streams

\* The same whatever the viewer did: the clean-up of "an in-flight registration that
\* finished after unmount" is of its own run (CloudMediaPlayerDialog.tsx:124-128).
PlayedStaysRegistered == media = "stream" /\ workerStops = 0 => item \in streams

\* Once the dialog is closed and all is heard, the worker knows of nothing to decrypt and
\* neither a download nor a file in memory is left (CloudMediaPlayerDialog.tsx:98-105, 219-223).
NothingLeft ==
    item = "none" /\ box = <<>> /\ acks = {} => streams = {} /\ downloads = {} /\ blobUrl = 0

\* An open item plays or an error is shown, whatever the browser does with the ranges
\* (CloudMediaPlayerDialog.tsx:247-273).
ItemSettles == []<>(item = "none" \/ status \in {"ready", "error"})
=============================================================================

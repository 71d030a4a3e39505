---------------------------- MODULE BleTransport ----------------------------
(***************************************************************************)
(* The BLE transport (notify/transport/ble_tx.py): the broker's threads    *)
(* leave frames in a mailbox that holds only the latest one, and a worker  *)
(* thread with an event loop of its own scans, connects, writes, probes    *)
(* an idle link and counts flaps until it is closed.                       *)
(*                                                                         *)
(* Every stretch of the worker between two awaits is one action, so that   *)
(* frames, timers, disconnects and close() can fall between them.  Frames  *)
(* are numbered in the order the broker sends them.                        *)
(***************************************************************************)
EXTENDS Naturals

CONSTANTS MaxFrames,    \* bound: frames sent
          Oversize,     \* the frames that do not fit the ATT payload
          FlapMin,      \* FLAP_SESSION_MIN_S, in ticks
          FlapMax,      \* FLAP_MAX_CYCLES
          SelfHeal,     \* does a supervisor respawn the process?
          WritesFail    \* does the Bluetooth stack fail a write that a
                        \* silently vanished peer never answers?

ASSUME FrameAssumption == MaxFrames \in Nat /\ Oversize \subseteq 1 .. MaxFrames
ASSUME FlapAssumption == FlapMin \in Nat /\ FlapMax \in Nat \ {0}
ASSUME PlatformAssumption == SelfHeal \in BOOLEAN /\ WritesFail \in BOOLEAN

VARIABLES
  sent,         \* the number of the last frame
  mailbox,      \* _current, 0 for None
  queued,       \* a wake.set that send() has queued on the worker's loop
  wake,         \* _wake
  stop,         \* _stop
  worker,       \* where the worker is
  inHand,       \* the frame it is writing
  retry,        \* _retry_handle is armed
  established,  \* _established
  probeDead,    \* _probe_dead
  heard,        \* the device was heard within the last HEARTBEAT_S
  flaps,        \* the length of _flaps
  elapsed,      \* ticks since this cycle of _run began, up to FlapMin
  lasted,       \* ticks since the session was established, up to FlapMin
  link,         \* the connection as it really is
  near,         \* the device is in reach
  bonded,       \* the device accepts encrypted writes
  shown         \* the frame the device shows, 0 for none

cycleVars  == <<established, probeDead, flaps, elapsed, lasted>>
deviceVars == <<near, bonded, shown>>

vars == <<sent, mailbox, queued, wake, stop, worker, inHand, retry, heard,
          cycleVars, link, deviceVars>>

Frames == 1 .. MaxFrames

InSession == worker \in {"writing", "serving", "probing"}

(* Nothing is written or shown that was not sent, the flaps that are       *)
(* counted stay below the number that recycles the process, and the timer  *)
(* that re-drives a frame does not outlive its session.                    *)
TypeOK ==
  /\ sent \in 0 .. MaxFrames
  /\ {mailbox, inHand, shown} \subseteq 0 .. sent
  /\ {queued, wake, stop, retry, established, probeDead, heard, near, bonded}
       \subseteq BOOLEAN
  /\ retry => InSession
  /\ worker \in {"seeking", "acking", "writing", "serving", "probing", "ended",
                 "pausing", "stopped", "recycled"}
  /\ flaps \in 0 .. FlapMax - 1
  /\ elapsed \in 0 .. FlapMin /\ lasted \in 0 .. elapsed
  /\ link \in {"none", "up", "silent", "broken"}

Init ==
  /\ sent = 0 /\ mailbox = 0 /\ inHand = 0 /\ shown = 0
  /\ queued = FALSE /\ wake = FALSE /\ stop = FALSE /\ retry = FALSE
  /\ worker = "seeking"
  /\ established = FALSE /\ probeDead = FALSE /\ heard = FALSE
  /\ flaps = 0 /\ elapsed = 0 /\ lasted = 0
  /\ link = "none"
  /\ near \in BOOLEAN
  /\ bonded \in BOOLEAN

(***************************************************************************)
(* The broker's side                                                       *)
(***************************************************************************)

Posted(frame) ==
  /\ worker \notin {"stopped", "recycled"}
  /\ mailbox' = frame
  /\ queued' = TRUE
  /\ UNCHANGED <<wake, stop, worker, inHand, retry, heard, cycleVars, link, deviceVars>>

Send ==
  /\ sent < MaxFrames
  /\ sent' = sent + 1
  /\ Posted(sent')

(* The snapshot heartbeat sends what it sent before.                       *)
SendAgain ==
  /\ mailbox # 0
  /\ Posted(mailbox)
  /\ UNCHANGED sent

WakeRuns ==
  /\ queued
  /\ queued' = FALSE
  /\ wake' = TRUE
  /\ UNCHANGED <<sent, mailbox, stop, worker, inHand, retry, heard, cycleVars, link,
                 deviceVars>>

Close ==
  /\ worker # "recycled"
  /\ ~stop
  /\ stop' = TRUE
  /\ wake' = TRUE
  /\ UNCHANGED <<sent, mailbox, queued, worker, inHand, retry, heard, cycleVars, link,
                 deviceVars>>

(***************************************************************************)
(* The worker: scan and connect                                            *)
(***************************************************************************)

SeekFinds ==
  /\ worker = "seeking"
  /\ near
  /\ worker' = "acking"
  /\ link' = "up"
  /\ UNCHANGED <<sent, mailbox, queued, wake, stop, inHand, retry, heard, cycleVars,
                 deviceVars>>

(* Nothing found, no connection, or an MTU that cannot carry a packet.     *)
SeekFails ==
  /\ worker = "seeking"
  /\ worker' = "pausing"
  /\ UNCHANGED <<sent, mailbox, queued, wake, stop, inHand, retry, heard, cycleVars,
                 link, deviceVars>>

(* Mutant: a backlog of frames instead of a latest-wins mailbox.           *)
TakeAny ==
  \E frame \in 0 .. mailbox :
    IF frame = 0 \/ frame \in Oversize
      THEN worker' = "serving" /\ inHand' = 0
      ELSE worker' = "writing" /\ inHand' = frame

(* _write_current up to its await.  A frame that does not fit is dropped.  *)
TakeCurrent ==
  IF mailbox = 0 \/ mailbox \in Oversize
    THEN worker' = "serving" /\ inHand' = 0
    ELSE worker' = "writing" /\ inHand' = mailbox

(* The finally clause of _session.                                         *)
EndSession ==
  /\ worker' = "ended"
  /\ inHand' = 0
  /\ retry' = FALSE
  /\ link' = "none"

(* Mutant: a new session waits for a new frame.                            *)
LinkReadyWaits ==
  /\ worker = "acking"
  /\ established' = TRUE
  /\ lasted' = 0
  /\ heard' \in IF link = "up" THEN BOOLEAN ELSE {heard}
  /\ wake' = FALSE
  /\ worker' = "serving"
  /\ UNCHANGED <<sent, mailbox, queued, stop, inHand, retry, probeDead, flaps, elapsed,
                 link, deviceVars>>

(* The conn ack came, or was waited for long enough: the session is        *)
(* established and the current frame is sent again in full.                *)
LinkReady ==
  /\ worker = "acking"
  /\ established' = TRUE
  /\ lasted' = 0
  /\ heard' \in IF link = "up" THEN BOOLEAN ELSE {heard}
  /\ wake' = FALSE
  /\ TakeCurrent
  /\ UNCHANGED <<sent, mailbox, queued, stop, retry, probeDead, flaps, elapsed, link,
                 deviceVars>>

(* start_notify raised. *)
NotifyFails ==
  /\ worker = "acking"
  /\ link # "up"
  /\ EndSession
  /\ UNCHANGED <<sent, mailbox, queued, wake, stop, heard, cycleVars, deviceVars>>

(***************************************************************************)
(* The worker: write                                                       *)
(***************************************************************************)

(* Mutant: the wake-up is cleared after the write instead of before it.    *)
WriteSucceedsClearsWake ==
  /\ worker = "writing"
  /\ link = "up"
  /\ bonded
  /\ shown' = inHand
  /\ worker' = "serving"
  /\ inHand' = 0
  /\ retry' = FALSE
  /\ wake' = FALSE
  /\ heard' \in {heard, TRUE}
  /\ UNCHANGED <<sent, mailbox, queued, stop, cycleVars, link, near, bonded>>

WriteSucceeds ==
  /\ worker = "writing"
  /\ link = "up"
  /\ bonded
  /\ shown' = inHand
  /\ worker' = "serving"
  /\ inHand' = 0
  /\ retry' = FALSE
  /\ heard' \in {heard, TRUE}
  /\ UNCHANGED <<sent, mailbox, queued, wake, stop, cycleVars, link, near, bonded>>

(* Not paired yet: the write is tried again in a while.                    *)
WriteRefused ==
  /\ worker = "writing"
  /\ link = "up"
  /\ ~bonded
  /\ worker' = "serving"
  /\ inHand' = 0
  /\ retry' = TRUE
  /\ UNCHANGED <<sent, mailbox, queued, wake, stop, heard, cycleVars, link, deviceVars>>

(* The write raises; the device may have applied it before the link broke. *)
WriteFails ==
  /\ worker = "writing"
  /\ link = "broken" \/ (link = "silent" /\ WritesFail)
  /\ shown' \in IF bonded THEN {shown, inHand} ELSE {shown}
  /\ EndSession
  /\ UNCHANGED <<sent, mailbox, queued, wake, stop, heard, cycleVars, near, bonded>>

RetryFires ==
  /\ retry
  /\ retry' = FALSE
  /\ wake' = TRUE
  /\ UNCHANGED <<sent, mailbox, queued, stop, worker, inHand, heard, cycleVars, link,
                 deviceVars>>

(***************************************************************************)
(* The worker: serve                                                       *)
(***************************************************************************)

ServeEnds ==
  /\ worker = "serving"
  /\ link = "broken" \/ stop
  /\ EndSession
  /\ UNCHANGED <<sent, mailbox, queued, wake, stop, heard, cycleVars, deviceVars>>

ServeFrame ==
  /\ worker = "serving"
  /\ wake
  /\ link # "broken" /\ ~stop
  /\ wake' = FALSE
  /\ TakeCurrent
  /\ UNCHANGED <<sent, mailbox, queued, stop, retry, heard, cycleVars, link, deviceVars>>

(* Mutant: an idle link is never probed.                                   *)
ServeIdleTrusts ==
  /\ worker = "serving"
  /\ ~wake
  /\ link # "broken" /\ ~stop
  /\ heard' = FALSE
  /\ UNCHANGED <<sent, mailbox, queued, wake, stop, worker, inHand, retry, cycleVars,
                 link, deviceVars>>

(* HEARTBEAT_S went by: a device that was heard meanwhile is not probed.   *)
ServeIdle ==
  /\ worker = "serving"
  /\ ~wake
  /\ link # "broken" /\ ~stop
  /\ heard' = FALSE
  /\ worker' = IF heard THEN "serving" ELSE "probing"
  /\ UNCHANGED <<sent, mailbox, queued, wake, stop, inHand, retry, cycleVars, link,
                 deviceVars>>

(* An unbonded link rejects the read, which proves that it is alive.       *)
ProbeAnswered ==
  /\ worker = "probing"
  /\ link = "up"
  /\ worker' = "serving"
  /\ heard' = bonded
  /\ UNCHANGED <<sent, mailbox, queued, wake, stop, inHand, retry, cycleVars, link,
                 deviceVars>>

ProbeFails ==
  /\ worker = "probing"
  /\ link # "up"
  /\ probeDead' = TRUE
  /\ EndSession
  /\ UNCHANGED <<sent, mailbox, queued, wake, stop, heard, established, flaps, elapsed,
                 lasted, deviceVars>>

(***************************************************************************)
(* The worker: between two sessions                                        *)
(***************************************************************************)

(* A session that was killed by the probe, or whose whole cycle was short. *)
Unhealthy == established /\ (elapsed < FlapMin \/ probeDead)

(* Mutant: flaps are counted and nothing comes of it.                      *)
NoteFlapOnly ==
  flaps' = flaps + 1 /\ worker' = "pausing"

(* _note_flap; the window may have forgotten some of the earlier flaps.    *)
NoteFlap ==
  \E earlier \in 0 .. flaps :
    IF earlier + 1 < FlapMax
      THEN flaps' = earlier + 1 /\ worker' = "pausing"
      ELSE flaps' = 0 /\ worker' = IF SelfHeal THEN "recycled" ELSE "pausing"

CycleEnds ==
  /\ worker = "ended"
  /\ IF Unhealthy /\ ~stop THEN NoteFlap ELSE worker' = "pausing" /\ UNCHANGED flaps
  /\ UNCHANGED <<sent, mailbox, queued, wake, stop, inHand, retry, heard, established,
                 probeDead, elapsed, lasted, link, deviceVars>>

(* Mutant: the cycle goes on after close().                                *)
CycleStartsAnyway ==
  /\ worker = "pausing"
  /\ worker' = "seeking"
  /\ established' = FALSE
  /\ probeDead' = FALSE
  /\ elapsed' = 0
  /\ lasted' = 0
  /\ UNCHANGED <<sent, mailbox, queued, wake, stop, inHand, retry, heard, flaps, link,
                 deviceVars>>

(* The back-off sleep is over, or was cut short by close().                *)
CycleStarts ==
  /\ worker = "pausing"
  /\ worker' = IF stop THEN "stopped" ELSE "seeking"
  /\ established' = FALSE
  /\ probeDead' = FALSE
  /\ elapsed' = 0
  /\ lasted' = 0
  /\ UNCHANGED <<sent, mailbox, queued, wake, stop, inHand, retry, heard, flaps, link,
                 deviceVars>>

(* The supervisor starts a new process.                                    *)
Respawn ==
  /\ worker = "recycled"
  /\ worker' = "seeking"
  /\ mailbox' = 0 /\ queued' = FALSE /\ wake' = FALSE
  /\ heard' = FALSE /\ established' = FALSE /\ probeDead' = FALSE
  /\ elapsed' = 0 /\ lasted' = 0
  /\ UNCHANGED <<sent, stop, inHand, retry, flaps, link, deviceVars>>

(***************************************************************************)
(* The device and the time                                                 *)
(***************************************************************************)

Connected == link \in {"up", "silent"}

(* The stack notices that the peer is gone ...                             *)
LinkBreaks ==
  /\ Connected
  /\ link' = "broken"
  /\ near' \in BOOLEAN
  /\ UNCHANGED <<sent, mailbox, queued, wake, stop, worker, inHand, retry, heard,
                 cycleVars, bonded, shown>>

(* ... or does not: the link is half open.                                 *)
LinkGoesSilent ==
  /\ link = "up"
  /\ link' = "silent"
  /\ near' \in BOOLEAN
  /\ UNCHANGED <<sent, mailbox, queued, wake, stop, worker, inHand, retry, heard,
                 cycleVars, bonded, shown>>

DeviceReturns ==
  /\ ~near
  /\ near' = TRUE
  /\ UNCHANGED <<sent, mailbox, queued, wake, stop, worker, inHand, retry, heard,
                 cycleVars, link, bonded, shown>>

Bonds ==
  /\ ~bonded
  /\ bonded' = TRUE
  /\ UNCHANGED <<sent, mailbox, queued, wake, stop, worker, inHand, retry, heard,
                 cycleVars, link, near, shown>>

Tick ==
  /\ worker \notin {"ended", "pausing", "stopped", "recycled"}
  /\ elapsed < FlapMin
  /\ elapsed' = elapsed + 1
  /\ lasted' = IF established THEN lasted + 1 ELSE 0
  /\ UNCHANGED <<sent, mailbox, queued, wake, stop, worker, inHand, retry, heard,
                 established, probeDead, flaps, link, deviceVars>>

Posts == Send \/ SendAgain \/ Close

Seek == SeekFinds \/ SeekFails
Session ==
  \/ LinkReady \/ NotifyFails
  \/ WriteSucceeds \/ WriteRefused \/ WriteFails
  \/ ServeEnds \/ ServeFrame \/ ServeIdle
  \/ ProbeAnswered \/ ProbeFails
Cycle == CycleEnds \/ CycleStarts

Device == LinkBreaks \/ LinkGoesSilent \/ DeviceReturns \/ Bonds

Next ==
  \/ Posts
  \/ WakeRuns
  \/ RetryFires
  \/ Seek
  \/ Session
  \/ Cycle
  \/ Respawn
  \/ Device
  \/ Tick

(* The worker's loop runs and its timers fire; a scan that goes on for     *)
(* ever beside an advertising device finds it; the supervisor respawns.    *)
Fairness ==
  /\ WF_vars(WakeRuns) /\ WF_vars(RetryFires)
  /\ WF_vars(Seek) /\ SF_vars(SeekFinds)
  /\ WF_vars(Session) /\ WF_vars(Cycle) /\ WF_vars(Respawn)

Spec == Init /\ [][Next]_vars

FairSpec == Spec /\ Fairness

(***************************************************************************)
(* Safety                                                                  *)
(***************************************************************************)

(* No wake-up is lost: while the worker waits on a link that works and the *)
(* device does not show the latest frame, something that will make the     *)
(* worker read the mailbox is under way.                                   *)
NoLostWakeup ==
  /\ worker \in {"serving", "probing"} /\ link = "up"
  /\ mailbox \notin {0, shown} \cup Oversize
  => wake \/ queued \/ retry

(* The device never goes back to an older frame: not on a reconnect, not   *)
(* by a pairing retry, and not when the process is recycled.               *)
NeverOlder == [][shown' >= shown]_vars

(* An established session shorter than FLAP_SESSION_MIN_S is a flap (the   *)
(* comment on the constant): when it ends, it is counted.                  *)
ShortSessionsAreFlaps ==
  worker = "ended" /\ established /\ lasted < FlapMin => Unhealthy

(***************************************************************************)
(* Liveness                                                                *)
(***************************************************************************)

(* The device stays in reach, paired, and the link holds.                  *)
Calm ==
  /\ <>[](near /\ bonded /\ ~stop)
  /\ <>[][~LinkBreaks /\ ~LinkGoesSilent]_vars

(* Frames are latest-wins and sent again on every connection: once the     *)
(* link holds, the device comes to show the latest one of this process,    *)
(* or that one does not fit and is dropped.                                *)
LatestArrives == Calm => []<>(mailbox \in {0, shown} \cup Oversize)

(* A link whose peer vanished silently does not stay up for ever (the      *)
(* module's remarks on half-open detection), unless frames go on arriving  *)
(* that are too long to be written: they keep the worker from idling.      *)
SilentLinkEnds ==
  link = "silent" ~> link # "silent" \/ mailbox \in Oversize

(* close() ends the worker.                                                *)
CloseEnds == stop ~> worker = "stopped"
=============================================================================

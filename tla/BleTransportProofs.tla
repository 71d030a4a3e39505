------------------------- MODULE BleTransportProofs -------------------------
(***************************************************************************)
(* The BLE worker, proved for any number of frames, any of which may be    *)
(* too long, for any flap window, with or without a supervisor, and with   *)
(* frames, timers, disconnects, pairing and close() falling anywhere       *)
(* between two awaits of the worker.                                       *)
(***************************************************************************)
EXTENDS BleTransport, TLAPS

(* What a write carries: a frame no older than the one on the device, and  *)
(* the one in the mailbox unless a wake-up for a later one is under way.   *)
(* That wake-up must not be the pairing retry, which a write that succeeds *)
(* takes back.                                                             *)
WriteIsCurrent ==
  /\ worker = "writing" =>
       /\ shown <= inHand
       /\ inHand <= mailbox
       /\ inHand = mailbox \/ wake \/ queued
  /\ worker # "writing" => inHand = 0

(* The mailbox is never behind the device, except that it is empty in a    *)
(* new process.                                                            *)
MailboxAhead == mailbox # 0 => shown <= mailbox

(* While the worker waits, whatever became of the link, the device shows   *)
(* what is in the mailbox or something will make the worker look again.    *)
WorkerWillLook ==
  worker \in {"serving", "probing"} /\ mailbox \notin {0, shown} \cup Oversize
    => wake \/ queued \/ retry

(* The parts of TypeOK, one variable at a time.                            *)
Flags ==
  /\ queued \in BOOLEAN /\ wake \in BOOLEAN /\ stop \in BOOLEAN
  /\ retry \in BOOLEAN /\ established \in BOOLEAN /\ probeDead \in BOOLEAN
  /\ heard \in BOOLEAN /\ near \in BOOLEAN /\ bonded \in BOOLEAN

Numbers ==
  /\ sent \in 0 .. MaxFrames
  /\ mailbox \in 0 .. sent /\ inHand \in 0 .. sent /\ shown \in 0 .. sent
  /\ flaps \in 0 .. FlapMax - 1
  /\ elapsed \in 0 .. FlapMin /\ lasted \in 0 .. elapsed

Places ==
  /\ retry => InSession
  /\ worker \in {"seeking", "acking", "writing", "serving", "probing", "ended",
                 "pausing", "stopped", "recycled"}
  /\ link \in {"none", "up", "silent", "broken"}

WorkerInv ==
  Flags /\ Numbers /\ Places /\ WriteIsCurrent /\ MailboxAhead /\ WorkerWillLook

LEMMA PartsOfTypeOK == Flags /\ Numbers /\ Places => TypeOK
BY DEF Flags, Numbers, Places, TypeOK

LEMMA InitHolds == Init => WorkerInv
<1> SUFFICES ASSUME Init PROVE WorkerInv
  OBVIOUS
<1> USE DEF Init
<1>1. Flags
  BY DEF Flags
<1>2. Numbers
  BY FrameAssumption, FlapAssumption DEF Numbers
<1>3. Places
  BY DEF Places
<1>4. WriteIsCurrent /\ MailboxAhead
  BY DEF WriteIsCurrent, MailboxAhead
<1>5. WorkerWillLook
  BY DEF WorkerWillLook
<1> QED
  BY <1>1, <1>2, <1>3, <1>4, <1>5 DEF WorkerInv

(***************************************************************************)
(* One lemma for each part of the invariant, with one step for each part   *)
(* of Next.                                                                *)
(***************************************************************************)

(* The flags stay flags.                                                   *)
LEMMA FlagsKept ==
  ASSUME Flags, [Next]_vars
  PROVE  Flags'
<1> USE DEF Flags, cycleVars, deviceVars
<1>1. CASE Posts
  BY <1>1 DEF Posts, Send, SendAgain, Posted, Close
<1>2. CASE WakeRuns \/ RetryFires
  BY <1>2 DEF WakeRuns, RetryFires
<1>3. CASE Seek
  BY <1>3 DEF Seek, SeekFinds, SeekFails
<1>4. CASE LinkReady \/ NotifyFails
  BY <1>4 DEF LinkReady, TakeCurrent, NotifyFails, EndSession
<1>5. CASE WriteSucceeds
  BY <1>5 DEF WriteSucceeds
<1>6. CASE WriteRefused
  BY <1>6 DEF WriteRefused
<1>7. CASE WriteFails
  BY <1>7 DEF WriteFails, EndSession
<1>8. CASE ServeEnds \/ ServeFrame \/ ServeIdle
  BY <1>8 DEF ServeEnds, ServeFrame, TakeCurrent, ServeIdle, EndSession
<1>9. CASE ProbeAnswered \/ ProbeFails
  BY <1>9 DEF ProbeAnswered, ProbeFails, EndSession
<1>10. CASE Cycle
  BY <1>10 DEF Cycle, CycleEnds, NoteFlap, CycleStarts
<1>11. CASE Respawn
  BY <1>11 DEF Respawn
<1>12. CASE Device
  BY <1>12 DEF Device, LinkBreaks, LinkGoesSilent, DeviceReturns, Bonds
<1>13. CASE Tick
  BY <1>13 DEF Tick
<1>14. CASE UNCHANGED vars
  BY <1>14 DEF vars
<1> QED
  BY <1>1, <1>2, <1>3, <1>4, <1>5, <1>6, <1>7, <1>8, <1>9, <1>10, <1>11, <1>12,
     <1>13, <1>14 DEF Next, Session

(* No frame is invented, and a flap that is counted is one too few to      *)
(* recycle.                                                                *)
LEMMA NumbersKept ==
  ASSUME Numbers, [Next]_vars
  PROVE  Numbers'
<1> USE FrameAssumption, FlapAssumption DEF Numbers, cycleVars, deviceVars
<1>1. CASE Posts
  BY <1>1 DEF Posts, Send, SendAgain, Posted, Close
<1>2. CASE WakeRuns \/ RetryFires
  BY <1>2 DEF WakeRuns, RetryFires
<1>3. CASE Seek
  BY <1>3 DEF Seek, SeekFinds, SeekFails
<1>4. CASE LinkReady \/ NotifyFails
  BY <1>4 DEF LinkReady, TakeCurrent, NotifyFails, EndSession
<1>5. CASE WriteSucceeds
  BY <1>5 DEF WriteSucceeds
<1>6. CASE WriteRefused
  BY <1>6 DEF WriteRefused
<1>7. CASE WriteFails
  <2>1. worker = "writing" /\ shown' \in {shown, inHand}
    BY <1>7 DEF WriteFails
  <2> QED
    BY <1>7, <2>1 DEF WriteFails, EndSession
<1>8. CASE ServeEnds \/ ServeFrame \/ ServeIdle
  BY <1>8 DEF ServeEnds, ServeFrame, TakeCurrent, ServeIdle, EndSession
<1>9. CASE ProbeAnswered \/ ProbeFails
  BY <1>9 DEF ProbeAnswered, ProbeFails, EndSession
<1>10. CASE Cycle
  BY <1>10 DEF Cycle, CycleEnds, NoteFlap, CycleStarts
<1>11. CASE Respawn
  BY <1>11 DEF Respawn
<1>12. CASE Device
  BY <1>12 DEF Device, LinkBreaks, LinkGoesSilent, DeviceReturns, Bonds
<1>13. CASE Tick
  BY <1>13 DEF Tick
<1>14. CASE UNCHANGED vars
  BY <1>14 DEF vars
<1> QED
  BY <1>1, <1>2, <1>3, <1>4, <1>5, <1>6, <1>7, <1>8, <1>9, <1>10, <1>11, <1>12,
     <1>13, <1>14 DEF Next, Session

(* The retry timer is armed by a refused write and ends with the session.  *)
LEMMA PlacesKept ==
  ASSUME Places, [Next]_vars
  PROVE  Places'
<1> USE DEF Places, InSession, cycleVars, deviceVars
<1>1. CASE Posts
  BY <1>1 DEF Posts, Send, SendAgain, Posted, Close
<1>2. CASE WakeRuns \/ RetryFires
  BY <1>2 DEF WakeRuns, RetryFires
<1>3. CASE Seek
  BY <1>3 DEF Seek, SeekFinds, SeekFails
<1>4. CASE LinkReady \/ NotifyFails
  BY <1>4 DEF LinkReady, TakeCurrent, NotifyFails, EndSession
<1>5. CASE WriteSucceeds
  BY <1>5 DEF WriteSucceeds
<1>6. CASE WriteRefused
  BY <1>6 DEF WriteRefused
<1>7. CASE WriteFails
  BY <1>7 DEF WriteFails, EndSession
<1>8. CASE ServeEnds \/ ServeFrame \/ ServeIdle
  BY <1>8 DEF ServeEnds, ServeFrame, TakeCurrent, ServeIdle, EndSession
<1>9. CASE ProbeAnswered \/ ProbeFails
  BY <1>9 DEF ProbeAnswered, ProbeFails, EndSession
<1>10. CASE Cycle
  BY <1>10 DEF Cycle, CycleEnds, NoteFlap, CycleStarts
<1>11. CASE Respawn
  BY <1>11 DEF Respawn
<1>12. CASE Device
  BY <1>12 DEF Device, LinkBreaks, LinkGoesSilent, DeviceReturns, Bonds
<1>13. CASE Tick
  BY <1>13 DEF Tick
<1>14. CASE UNCHANGED vars
  BY <1>14 DEF vars
<1> QED
  BY <1>1, <1>2, <1>3, <1>4, <1>5, <1>6, <1>7, <1>8, <1>9, <1>10, <1>11, <1>12,
     <1>13, <1>14 DEF Next, Session

(* The device and the mailbox only go forward.                             *)
LEMMA WritesKept ==
  ASSUME Numbers, WriteIsCurrent, MailboxAhead, [Next]_vars
  PROVE  /\ WriteIsCurrent' /\ MailboxAhead'
         /\ shown' >= shown
<1> USE FrameAssumption
       DEF Numbers, WriteIsCurrent, MailboxAhead, cycleVars, deviceVars
<1>1. CASE Posts
  BY <1>1 DEF Posts, Send, SendAgain, Posted, Close
<1>2. CASE WakeRuns \/ RetryFires
  BY <1>2 DEF WakeRuns, RetryFires
<1>3. CASE Seek
  BY <1>3 DEF Seek, SeekFinds, SeekFails
<1>4. CASE LinkReady \/ NotifyFails
  BY <1>4 DEF LinkReady, TakeCurrent, NotifyFails, EndSession
<1>5. CASE WriteSucceeds
  BY <1>5 DEF WriteSucceeds
<1>6. CASE WriteRefused
  BY <1>6 DEF WriteRefused
<1>7. CASE WriteFails
  <2>1. worker = "writing" /\ shown' \in {shown, inHand}
    BY <1>7 DEF WriteFails
  <2> QED
    BY <1>7, <2>1 DEF WriteFails, EndSession
<1>8. CASE ServeEnds \/ ServeFrame \/ ServeIdle
  BY <1>8 DEF ServeEnds, ServeFrame, TakeCurrent, ServeIdle, EndSession
<1>9. CASE ProbeAnswered \/ ProbeFails
  BY <1>9 DEF ProbeAnswered, ProbeFails, EndSession
<1>10. CASE Cycle
  BY <1>10 DEF Cycle, CycleEnds, NoteFlap, CycleStarts
<1>11. CASE Respawn
  BY <1>11 DEF Respawn
<1>12. CASE Device
  BY <1>12 DEF Device, LinkBreaks, LinkGoesSilent, DeviceReturns, Bonds
<1>13. CASE Tick
  BY <1>13 DEF Tick
<1>14. CASE UNCHANGED vars
  BY <1>14 DEF vars
<1> QED
  BY <1>1, <1>2, <1>3, <1>4, <1>5, <1>6, <1>7, <1>8, <1>9, <1>10, <1>11, <1>12,
     <1>13, <1>14 DEF Next, Session

(* A wake-up is taken back only where the mailbox is read right after, and *)
(* the retry only by a write.                                              *)
LEMMA LookKept ==
  ASSUME WriteIsCurrent, WorkerWillLook, [Next]_vars
  PROVE  WorkerWillLook'
<1> USE DEF WriteIsCurrent, WorkerWillLook, cycleVars, deviceVars
<1>1. CASE Posts
  BY <1>1 DEF Posts, Send, SendAgain, Posted, Close
<1>2. CASE WakeRuns \/ RetryFires
  BY <1>2 DEF WakeRuns, RetryFires
<1>3. CASE Seek
  BY <1>3 DEF Seek, SeekFinds, SeekFails
<1>4. CASE LinkReady \/ NotifyFails
  BY <1>4 DEF LinkReady, TakeCurrent, NotifyFails, EndSession
<1>5. CASE WriteSucceeds
  BY <1>5 DEF WriteSucceeds
<1>6. CASE WriteRefused
  BY <1>6 DEF WriteRefused
<1>7. CASE WriteFails
  BY <1>7 DEF WriteFails, EndSession
<1>8. CASE ServeEnds \/ ServeFrame \/ ServeIdle
  BY <1>8 DEF ServeEnds, ServeFrame, TakeCurrent, ServeIdle, EndSession
<1>9. CASE ProbeAnswered \/ ProbeFails
  BY <1>9 DEF ProbeAnswered, ProbeFails, EndSession
<1>10. CASE Cycle
  BY <1>10 DEF Cycle, CycleEnds, NoteFlap, CycleStarts
<1>11. CASE Respawn
  BY <1>11 DEF Respawn
<1>12. CASE Device
  BY <1>12 DEF Device, LinkBreaks, LinkGoesSilent, DeviceReturns, Bonds
<1>13. CASE Tick
  BY <1>13 DEF Tick
<1>14. CASE UNCHANGED vars
  BY <1>14 DEF vars
<1> QED
  BY <1>1, <1>2, <1>3, <1>4, <1>5, <1>6, <1>7, <1>8, <1>9, <1>10, <1>11, <1>12,
     <1>13, <1>14 DEF Next, Session

LEMMA NextKeeps ==
  ASSUME WorkerInv, [Next]_vars
  PROVE  WorkerInv' /\ shown' >= shown
BY FlagsKept, NumbersKept, PlacesKept, WritesKept, LookKept DEF WorkerInv

LEMMA AlwaysWorkerInv == Spec => []WorkerInv
BY InitHolds, NextKeeps, PTL DEF Spec

(* Nothing is written or shown that was not sent, the flaps stay below the *)
(* number that recycles the process, and the pairing retry does not        *)
(* outlive its session.                                                    *)
THEOREM WorkerTypeCorrect == Spec => []TypeOK
<1>1. WorkerInv => TypeOK
  BY PartsOfTypeOK DEF WorkerInv
<1> QED
  BY <1>1, AlwaysWorkerInv, PTL

(* No wake-up is lost between send() and the worker, whichever thread and  *)
(* whichever await comes first: a frame that the device does not show is   *)
(* never left in the mailbox of a worker that waits for ever.              *)
THEOREM WakeUpsAreKept == Spec => []NoLostWakeup
<1>1. WorkerInv => NoLostWakeup
  BY DEF WorkerInv, WorkerWillLook, NoLostWakeup
<1> QED
  BY <1>1, AlwaysWorkerInv, PTL

(* The device never goes back to an older frame, across reconnects,        *)
(* pairing retries, writes of unknown outcome and recycled processes.      *)
THEOREM DeviceNeverGoesBack == Spec => NeverOlder
<1>1. WorkerInv /\ [Next]_vars => [shown' >= shown]_vars
  BY NextKeeps
<1> QED
  BY <1>1, AlwaysWorkerInv, PTL DEF Spec, NeverOlder
=============================================================================

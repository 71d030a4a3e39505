--------------------------- MODULE BrokerLifecycle ---------------------------
(***************************************************************************)
(* Start and stop of the broker (_run in notify/broker/server.py): several *)
(* broker processes share one socket path, guard it against a second       *)
(* broker when they start, and remove it when they stop.                   *)
(*                                                                         *)
(* The check of the path, the probe, the removal of a leftover and the     *)
(* bind are system calls of their own, so each is an action.  A process    *)
(* may crash at any point and leaves its socket file behind.               *)
(***************************************************************************)
CONSTANTS Brokers,        \* broker processes
          NoSocket,       \* there is no file at SOCKET_PATH
          StartsOverlap,  \* may two brokers be starting at once?
          StopsOverlap    \* may a broker start while another one stops?

ASSUME SocketAssumption == NoSocket \notin Brokers
ASSUME OverlapAssumption == StartsOverlap \in BOOLEAN /\ StopsOverlap \in BOOLEAN

VARIABLES
  pc,    \* where each process is in _run
  path   \* the process whose socket file is at SOCKET_PATH

vars == <<pc, path>>

At(place) == {b \in Brokers : pc[b] = place}

Starting == At("guard") \cup At("probing") \cup At("clearing") \cup At("binding")
Serving  == At("serving")
Stopping == At("closing")

(* Ended with an error, after which the supervisor starts it again.        *)
Failed == At("crashed") \cup At("refused")

(* A connection is accepted as long as the owner of the file serves.       *)
Answers == path \in Serving

(* Each process is at one of the points of _run that the model tells apart,*)
(* and the socket file is of one of them.                                  *)
TypeOK ==
  /\ pc \in [Brokers -> {"down", "guard", "probing", "clearing", "binding",
                         "serving", "closing", "crashed", "refused"}]
  /\ path \in Brokers \cup {NoSocket}

Init == pc = [b \in Brokers |-> "down"] /\ path = NoSocket

Goes(b, from, to) == pc[b] = from /\ pc' = [pc EXCEPT ![b] = to]

(***************************************************************************)
(* Start                                                                   *)
(***************************************************************************)

MayStart == (StartsOverlap \/ Starting = {}) /\ (StopsOverlap \/ Stopping = {})

(* By a user, or when the user logs in.                                    *)
Start(b) ==
  /\ MayStart
  /\ Goes(b, "down", "guard")
  /\ UNCHANGED path

(* By launchd (KeepAlive) or systemd (Restart=on-failure).                 *)
StartAgain(b) ==
  /\ MayStart
  /\ b \in Failed
  /\ Goes(b, pc[b], "guard")
  /\ UNCHANGED path

(* Mutant: the guard goes by the file and does not ask who answers.        *)
SocketExistsTrusts(b) ==
  /\ path # NoSocket
  /\ Goes(b, "guard", "refused")
  /\ UNCHANGED path

(* SOCKET_PATH.exists() *)
SocketExists(b) ==
  /\ path # NoSocket
  /\ Goes(b, "guard", "probing")
  /\ UNCHANGED path

SocketAbsent(b) ==
  /\ path = NoSocket
  /\ Goes(b, "guard", "binding")
  /\ UNCHANGED path

(* Mutant: a broker that answers is not a reason to give up.               *)
RefusesGoesOn(b) ==
  /\ Answers
  /\ Goes(b, "probing", "clearing")
  /\ UNCHANGED path

(* A live broker answers: SystemExit.                                      *)
Refuses(b) ==
  /\ Answers
  /\ Goes(b, "probing", "refused")
  /\ UNCHANGED path

(* Mutant: whatever is at the path is taken for a leftover.                *)
FindsLeftoverAlways(b) ==
  /\ Goes(b, "probing", "clearing")
  /\ UNCHANGED path

FindsLeftover(b) ==
  /\ ~Answers
  /\ Goes(b, "probing", "clearing")
  /\ UNCHANGED path

(* unlink, which fails the start when the file has gone meanwhile.         *)
ClearsLeftover(b) ==
  /\ Goes(b, "clearing", IF path = NoSocket THEN "refused" ELSE "binding")
  /\ path' = NoSocket

(* start_unix_server, which replaces a socket file that is in its way.     *)
Binds(b) ==
  /\ Goes(b, "binding", "serving")
  /\ path' = b

(***************************************************************************)
(* Stop                                                                    *)
(***************************************************************************)

(* A signal: the server closes, and some versions of asyncio remove its    *)
(* own socket file then.                                                   *)
Closes(b) ==
  /\ StopsOverlap \/ Starting = {}
  /\ Goes(b, "serving", "closing")
  /\ path' \in {path, IF path = b THEN NoSocket ELSE path}

(* The watcher and the transport are closed, which may take seconds, and   *)
(* then the file that is at the path is removed.                           *)
Unlinks(b) ==
  /\ Goes(b, "closing", "down")
  /\ path' = NoSocket

Crashes(b) ==
  /\ b \in Starting \cup Serving \cup Stopping
  /\ Goes(b, pc[b], "crashed")
  /\ UNCHANGED path

StartUp(b) ==
  \/ SocketExists(b) \/ SocketAbsent(b)
  \/ Refuses(b) \/ FindsLeftover(b) \/ ClearsLeftover(b) \/ Binds(b)

Next ==
  \E b \in Brokers :
    \/ Start(b) \/ StartAgain(b) \/ StartUp(b)
    \/ Closes(b) \/ Unlinks(b) \/ Crashes(b)

(* A process in _run runs on, and the supervisor starts again what failed. *)
Fairness ==
  \A b \in Brokers :
    WF_vars(StartAgain(b)) /\ WF_vars(StartUp(b)) /\ WF_vars(Unlinks(b))

Spec == Init /\ [][Next]_vars

FairSpec == Spec /\ Fairness

(***************************************************************************)
(* Properties                                                              *)
(***************************************************************************)

(* No two brokers serve at once, each painting its own table over the      *)
(* device: the guard refuses a second one (the comment on the singleton    *)
(* guard in _run).                                                         *)
SoleBroker == \A a, b \in Serving : a = b

(* The hooks reach the broker that serves: nobody takes its socket file    *)
(* away, neither a broker that is refused nor one that stops.              *)
ServingReachable == \A b \in Serving : path = b

(* A broker that crashed leaves a dead socket behind, which never keeps    *)
(* the next one from starting: once brokers stop dying and being stopped,  *)
(* one of them serves for good, unless all of them had been stopped.       *)
ServesAgain ==
  <>[][\A b \in Brokers : ~Closes(b) /\ ~Crashes(b)]_vars
    => <>[](Serving # {} \/ \A b \in Brokers : pc[b] = "down")
=============================================================================

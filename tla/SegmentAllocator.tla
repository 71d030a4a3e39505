-------------------------- MODULE SegmentAllocator --------------------------
(***************************************************************************)
(* notify/broker/segments.py: the table of live sessions.                  *)
(*                                                                         *)
(* A table is a record of the allocator's fields:                          *)
(*   sessions  session id -> session record         (_sessions)            *)
(*   index     session id -> capacity slot          (_index)               *)
(*   used      the capacity slots in use            (_used)                *)
(*   order     session id -> birth stamp            (_order)               *)
(*   seq       the last birth stamp given           (_seq)                 *)
(* Each operation is an operator from a table to a table, so that a        *)
(* handler that makes several of them composes them.                       *)
(*                                                                         *)
(* Time is counted in ticks.  A session record holds the age of its last   *)
(* event (now - last_event), which Elapse advances for every record.       *)
(***************************************************************************)
EXTENDS SessionStates, Integers, FiniteSets, Functions

LOCAL INSTANCE SequencesExt

CONSTANTS Sids,             \* session ids
          MaxSegs,          \* MAX_SEGS: segments on the ring
          SessionTtl,       \* SESSION_TTL_S, or the --ttl argument
          CtaTtlDefault,    \* CTA_TTL_S
          RunningLiveTtl    \* RUNNING_LIVE_TTL_S

ASSUME WindowAssumption ==
  /\ SessionTtl \in Nat \ {0}
  /\ CtaTtlDefault \in Nat
  /\ RunningLiveTtl \in Nat

ASSUME CapacityAssumption == MaxSegs \in Nat \ {0}

(* Broker.__init__ clamps the CTA window to be no shorter than the benign  *)
(* one; evict_stale does the same for a live Running session.              *)
CtaTtl  == IF CtaTtlDefault >= SessionTtl THEN CtaTtlDefault ELSE SessionTtl
LiveTtl == IF RunningLiveTtl >= SessionTtl THEN RunningLiveTtl ELSE SessionTtl

Slots == 0 .. MaxSegs - 1

EmptyTable ==
  LET none == [s \in {} |-> 0] IN
  [sessions |-> none, index |-> none, used |-> {}, order |-> none, seq |-> 0]

Live(t) == DOMAIN t.sessions

(* Python's dicts: the functions from a part of S to T, d[key] = value,    *)
(* and d.pop(key, None) for some keys.                                     *)
IsDict(d, S, T) == DOMAIN d \subseteq S /\ d \in [DOMAIN d -> T]
Put(d, key, value) ==
  [k \in DOMAIN d \cup {key} |-> IF k = key THEN value ELSE d[k]]
Drop(d, keys) == Restrict(d, DOMAIN d \ keys)

IsTableOf(t, Record) ==
  /\ DOMAIN t = {"sessions", "index", "used", "order", "seq"}
  /\ IsDict(t.sessions, Sids, Record)
  /\ IsDict(t.index, Sids, Slots)
  /\ t.used \subseteq Slots
  /\ IsDict(t.order, Sids, Nat)
  /\ t.seq \in Nat

(***************************************************************************)
(* Capacity                                                                *)
(***************************************************************************)

(* Mutant: one slot too many.                                              *)
NextFreePastTheEnd(t) ==
  LET free == (0 .. MaxSegs) \ t.used IN
  IF free = {} THEN -1 ELSE CHOOSE i \in free : \A j \in free : i <= j

(* _next_free: the lowest free slot, -1 when there is none.                *)
NextFree(t) ==
  IF Slots \subseteq t.used
    THEN -1
    ELSE CHOOSE i \in Slots \ t.used : \A j \in Slots \ t.used : i <= j

Full(t) == NextFree(t) < 0

(* Mutant: the ring is ordered by slot instead of by birth stamp.          *)
RegisterBySlot(t, s, rec) ==
  LET free == Slots \ t.used IN
  IF s \in DOMAIN t.index \/ free = {}
    THEN t
    ELSE LET slot == CHOOSE i \in free : \A j \in free : i <= j IN
         [sessions |-> Put(t.sessions, s, [rec EXCEPT !.segment = slot]),
          index    |-> Put(t.index, s, slot),
          used     |-> t.used \cup {slot},
          order    |-> Put(t.order, s, slot),
          seq      |-> t.seq + 1]

(* register: a slot and a birth stamp for a new session; nothing changes   *)
(* when the session is known or the table is full.                         *)
Register(t, s, rec) ==
  IF s \in DOMAIN t.index \/ Full(t)
    THEN t
    ELSE LET slot == NextFree(t) IN
         [sessions |-> Put(t.sessions, s, [rec EXCEPT !.segment = slot]),
          index    |-> Put(t.index, s, slot),
          used     |-> t.used \cup {slot},
          order    |-> Put(t.order, s, t.seq + 1),
          seq      |-> t.seq + 1]

SetRecord(t, s, rec) == [t EXCEPT !.sessions[s] = rec]

(* update: only the state and the time of the last event are copied.       *)
Update(t, s, rec) ==
  IF s \notin Live(t)
    THEN Register(t, s, rec)
    ELSE SetRecord(t, s, [t.sessions[s] EXCEPT !.state = rec.state,
                                               !.age = rec.age])

(* Mutant: the slot of a freed session is not given back.                  *)
FreeLeaksSlot(t, S) ==
  [t EXCEPT !.sessions = Drop(@, S), !.index = Drop(@, S), !.order = Drop(@, S)]

(* free, for every session of the set S.                                   *)
Free(t, S) ==
  [sessions |-> Drop(t.sessions, S),
   index    |-> Drop(t.index, S),
   used     |-> t.used \ {t.index[s] : s \in S \cap DOMAIN t.index},
   order    |-> Drop(t.order, S),
   seq      |-> t.seq]

(***************************************************************************)
(* Ageing                                                                  *)
(***************************************************************************)

Older(rec) == [rec EXCEPT !.age = @ + 1]

Elapse(t) ==
  [t EXCEPT !.sessions = [s \in Live(t) |-> Older(t.sessions[s])]]

(* Mutant: one window for every state.                                     *)
WindowBenign(rec) == SessionTtl

(* window (of evict_stale): how long a session may be silent.              *)
Window(rec) ==
  CASE rec.state \in CTA_STATES -> CtaTtl
    [] rec.state = "Running" /\ rec.pidAliveSeen -> LiveTtl
    [] OTHER -> SessionTtl

Stale(t) == {s \in Live(t) : t.sessions[s].age > Window(t.sessions[s])}

EvictStale(t) == Free(t, Stale(t))

(***************************************************************************)
(* The ring                                                                *)
(***************************************************************************)

InOrder(S, stamp) == SetToSortSeq(S, LAMBDA a, b : stamp[a] < stamp[b])

(* active_segments: the live sessions in arrival order.                    *)
ActiveSegments(t) == InOrder(Live(t), t.order)

(***************************************************************************)
(* What makes a table well formed.                                         *)
(***************************************************************************)

(* The three maps know the same sessions.                                  *)
SameSessions(t) == DOMAIN t.index = Live(t) /\ DOMAIN t.order = Live(t)

(* A slot is in use exactly when one live session holds it, so no slot     *)
(* leaks and none is shared, and the record carries the slot it holds.     *)
SlotsOwned(t) ==
  /\ t.used = {t.index[s] : s \in DOMAIN t.index}
  /\ \A r, s \in DOMAIN t.index : t.index[r] = t.index[s] => r = s
  /\ \A s \in Live(t) : t.sessions[s].segment = t.index[s]

(* Birth stamps are distinct and never ahead of the counter.               *)
StampsDistinct(t) ==
  /\ \A s \in DOMAIN t.order : t.order[s] <= t.seq
  /\ \A r, s \in DOMAIN t.order : t.order[r] = t.order[s] => r = s

TableInv(t) == SameSessions(t) /\ SlotsOwned(t) /\ StampsDistinct(t)
=============================================================================

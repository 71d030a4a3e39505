----------------------------- MODULE FrameCodec -----------------------------
(***************************************************************************)
(* The wire frame (notify/broker/frame.py): what the broker's snapshot of  *)
(* the ring becomes on its way to the device and back.  A packet is a      *)
(* sequence of bytes.  A title is a sequence of codepoints, of which only  *)
(* the width in UTF-8 matters.                                             *)
(*                                                                         *)
(* The behaviour follows one snapshot: it is pushed, a byte of it may be   *)
(* damaged on the link, and the device decodes it.                         *)
(***************************************************************************)
EXTENDS Lists

CONSTANTS MAX_SEGS, MAX_TITLE,
          Rings,        \* the snapshots: sequences of segments
          MaxDamaged,   \* bound: the longest packet that is damaged
          NoFrame,      \* decode_frame returned None
          Raised        \* decode_frame raised an IndexError or a ValueError

Byte == 0 .. 255

(* A segment of a snapshot; its title is the list of its codepoints.       *)
Segments == [state : 0 .. 6, harness : Byte, title : Seq(1 .. 4)]

(* The allocator has MAX_SEGS slots, and their base blocks fit a payload.  *)
ASSUME CodecAssumption ==
  /\ MAX_SEGS \in Nat /\ 4 + 6 * MAX_SEGS <= 255
  /\ MAX_TITLE \in Byte
  /\ MaxDamaged \in Nat
  /\ \A segments \in Rings : segments \in Seq(Segments) /\ Len(segments) <= MAX_SEGS

FRAME_SOF   == 170
FRAME_MAGIC == 78
BRIGHTNESS  == 30

(* The hue and the animation of State 0 .. 6.                              *)
STATE_STYLE ==
  << <<255, 2>>, <<170, 3>>, <<213, 2>>, <<32, 4>>, <<85, 5>>, <<0, 1>>, <<0, 0>> >>

VARIABLES
  ring,     \* the snapshot
  seq,      \* Broker._seq
  packet,   \* the bytes on the link
  damaged,  \* a byte was altered
  frame     \* what the device decoded

codecVars == <<ring, seq, packet, damaged, frame>>

AtMost(a, b) == IF a < b THEN a ELSE b

(***************************************************************************)
(* Checksum                                                                *)
(***************************************************************************)

(* The exclusive or of two bytes.                                          *)
Xor(a, b) ==
  LET At(place) == IF (a \div place) % 2 = (b \div place) % 2 THEN 0 ELSE place
  IN  At(1) + At(2) + At(4) + At(8) + At(16) + At(32) + At(64) + At(128)

CrcShift ==
  [crc \in Byte |-> IF crc % 2 = 1 THEN Xor(crc \div 2, 140) ELSE crc \div 2]

Twice(f) == [x \in Byte |-> f[f[x]]]

(* Eight shifts. *)
CrcOfByte == Twice(Twice(Twice(CrcShift)))

CrcStep == [byte \in Byte |-> [crc \in Byte |-> CrcOfByte[Xor(crc, byte)]]]

CrcOver ==
  [data \in Seq(Byte) |-> [crc \in Byte |-> Fold(CrcStep, crc, data)]]

(* The longest payload has 255 bytes.                                      *)
FirstHalf(data)  == SubSeq(data, 1, AtMost(Len(data), 128))
SecondHalf(data) == SubSeq(data, AtMost(Len(data), 128) + 1, Len(data))

(* _crc8.  The loop is cut in two, which keeps TLC's recursion shallow.    *)
Crc8(data) == CrcOver[SecondHalf(data)][CrcOver[FirstHalf(data)][0]]

(***************************************************************************)
(* Titles                                                                  *)
(***************************************************************************)

(* A codepoint of each width. *)
Codepoint == << <<97>>, <<195, 169>>, <<226, 130, 172>>, <<240, 159, 146, 150>> >>

Utf8(title) ==
  Fold([w \in 1 .. 4 |-> [bytes \in Seq(Byte) |-> bytes \o Codepoint[w]]], <<>>, title)

(* The bytes decode: no codepoint is cut off.                              *)
IsUtf8(bytes) ==
  \A i \in 1 .. Len(bytes), w \in 1 .. 4 :
    bytes[i] = Codepoint[w][1] =>
      i + w - 1 <= Len(bytes) /\ SubSeq(bytes, i, i + w - 1) = Codepoint[w]

(* Mutant: the cap cuts wherever it falls.                                 *)
TruncateAnywhere(bytes) == SubSeq(bytes, 1, AtMost(Len(bytes), MAX_TITLE))

(* _truncate_utf8: cap, then back off to a whole codepoint.                *)
TruncateUtf8(bytes) ==
  LET fits == {n \in 0 .. AtMost(Len(bytes), MAX_TITLE) : IsUtf8(SubSeq(bytes, 1, n))}
  IN  SubSeq(bytes, 1, CHOOSE n \in fits : \A m \in fits : m <= n)

(***************************************************************************)
(* encode_frame                                                            *)
(***************************************************************************)

Extension(seg, title) == <<seg.harness, Len(title)>> \o title

(* The room that is left for titles, and what has been written.            *)
Extensions == [budget : Nat, bytes : Seq(Byte)]

(* Mutants: titles are never dropped, or a dropped title takes its header  *)
(* with it.                                                                *)
ExtendUnbounded ==
  [seg \in Segments |-> [ext \in Extensions |->
     [ext EXCEPT !.bytes = @ \o Extension(seg, TruncateUtf8(Utf8(seg.title)))]]]

ExtendSkipsHeader ==
  [seg \in Segments |-> [ext \in Extensions |->
     LET title == TruncateUtf8(Utf8(seg.title)) IN
     IF Len(title) > ext.budget
       THEN ext
       ELSE [budget |-> ext.budget - Len(title),
             bytes  |-> ext.bytes \o Extension(seg, title)]]]

(* One segment's part of the extension: a title without room is dropped.   *)
Extend ==
  [seg \in Segments |-> [ext \in Extensions |->
     LET cut   == TruncateUtf8(Utf8(seg.title))
         title == IF Len(cut) > ext.budget THEN <<>> ELSE cut
     IN  [budget |-> ext.budget - Len(title), bytes |-> ext.bytes \o Extension(seg, title)]]]

(* The four bytes of a segment: state, hue, animation, span.               *)
Block(seg) == <<seg.state>> \o STATE_STYLE[seg.state + 1] \o <<0>>

Base(segs, number) ==
  <<FRAME_MAGIC, number % 256, Len(segs), BRIGHTNESS>>
    \o [k \in 1 .. 4 * Len(segs) |-> Block(segs[(k + 3) \div 4])[((k - 1) % 4) + 1]]

(* The extension is there when some segment has a harness or a title.      *)
Payload(segs, number) ==
  LET base   == Base(segs, number)
      budget == 255 - (Len(base) + 2 * Len(segs))
  IN  IF \E i \in 1 .. Len(segs) : segs[i].harness # 0 \/ segs[i].title # <<>>
        THEN base \o Fold(Extend, [budget |-> budget, bytes |-> <<>>], segs).bytes
        ELSE base

(* Mutant: the checksum covers the base block only.                        *)
EncodeFrameV1Crc(segments, number) ==
  LET segs    == SubSeq(segments, 1, AtMost(Len(segments), MAX_SEGS))
      payload == Payload(segs, number)
  IN  <<FRAME_SOF, Len(payload) % 256>> \o payload \o <<Crc8(Base(segs, number))>>

EncodeFrame(segments, number) ==
  LET segs    == SubSeq(segments, 1, AtMost(Len(segments), MAX_SEGS))
      payload == Payload(segs, number)
  IN  <<FRAME_SOF, Len(payload) % 256>> \o payload \o <<Crc8(payload)>>

(***************************************************************************)
(* decode_frame                                                            *)
(***************************************************************************)

(* A segment as it is decoded, its title as bytes.                         *)
Shown == [state : Byte, hue : Byte, anim : Byte, harness : Byte, title : Seq(Byte)]

(* How far the reader got, whether it met an extension that is cut short,  *)
(* which ends the reading, and the segments it went through.               *)
Readers == [at : Nat, ended : BOOLEAN, segments : Seq(Shown)]

(* Reads the extension of one segment and moves on to the next.            *)
ReadExtension(bytes) ==
  [segment \in Shown |-> [reader \in Readers |->
     LET at    == reader.at
         whole == at + 2 <= Len(bytes) /\ at + 2 + bytes[at + 2] <= Len(bytes)
         next  == at + 2 + bytes[at + 2]
     IN  IF reader.ended \/ ~whole
           THEN [reader EXCEPT !.ended = TRUE, !.segments = Append(@, segment)]
           ELSE [reader EXCEPT !.at = next,
                   !.segments = Append(@, [segment EXCEPT !.harness = bytes[at + 1],
                                             !.title = SubSeq(bytes, at + 3, next)])]]]

ReadBase(bytes) ==
  [i \in 1 .. AtMost(bytes[3], (Len(bytes) - 4) \div 4) |->
     [state |-> bytes[4 * i + 1], hue |-> bytes[4 * i + 2], anim |-> bytes[4 * i + 3],
      harness |-> 0, title |-> <<>>]]

(* decode_frame indexes an empty payload or one that ends in its header,   *)
(* or meets a state or an animation that is none.                          *)
Unframed(payload) ==
  \/ payload = <<>>
  \/ /\ payload[1] = FRAME_MAGIC
     /\ \/ Len(payload) < 4
        \/ \E i \in DOMAIN ReadBase(payload) :
             \/ ReadBase(payload)[i].state \notin 0 .. 6
             \/ ReadBase(payload)[i].anim \notin 0 .. 5

DecodeFrame(bytes) ==
  LET length  == bytes[2]
      payload == SubSeq(bytes, 3, 2 + length)
      reader  == [at |-> 4 + 4 * payload[3], ended |-> FALSE, segments |-> <<>>]
  IN  IF \/ Len(bytes) < 6 \/ bytes[1] # FRAME_SOF
         \/ Len(bytes) < 2 + length + 1
         \/ Crc8(payload) # bytes[3 + length]
        THEN NoFrame
        ELSE IF Unframed(payload) THEN Raised
        ELSE IF payload[1] # FRAME_MAGIC THEN NoFrame
        ELSE [seq |-> payload[2], brightness |-> payload[4],
              segments |-> Fold(ReadExtension(payload), reader, ReadBase(payload)).segments]

(***************************************************************************)
(* The behaviour                                                           *)
(***************************************************************************)

CodecInit ==
  /\ ring \in Rings
  /\ seq \in {0, 255}
  /\ packet = <<>>
  /\ damaged = FALSE
  /\ frame = NoFrame

(* _push_frame *)
Push ==
  /\ packet = <<>>
  /\ packet' = EncodeFrame(ring, seq)
  /\ seq' = (seq + 1) % 256
  /\ UNCHANGED <<ring, damaged, frame>>

(* A bit of the payload or of the checksum flips.                          *)
Damage ==
  /\ packet # <<>> /\ frame = NoFrame /\ ~damaged
  /\ Len(packet) <= MaxDamaged
  /\ \E i \in 3 .. Len(packet), bit \in {1, 128} :
       packet' = [packet EXCEPT ![i] = Xor(@, bit)]
  /\ damaged' = TRUE
  /\ UNCHANGED <<ring, seq, frame>>

Decode ==
  /\ packet # <<>> /\ frame = NoFrame
  /\ frame' = DecodeFrame(packet)
  /\ UNCHANGED <<ring, seq, packet, damaged>>

CodecNext == Push \/ Damage \/ Decode

CodecSpec == CodecInit /\ [][CodecNext]_codecVars

(***************************************************************************)
(* Properties                                                              *)
(***************************************************************************)

(* The one-byte length field holds the length of the payload: it never     *)
(* wraps, however many sessions there are and however long their titles    *)
(* (the budget in encode_frame).                                           *)
LengthHonest == packet # <<>> => packet[2] = Len(packet) - 3

Received == frame # NoFrame /\ ~damaged

Cut(seg) == TruncateUtf8(Utf8(seg.title))

(* The device shows each session in its place with its own state, harness  *)
(* and title: a title that is dropped for lack of room does not shift the  *)
(* titles of the sessions behind it.                                       *)
RoundTrip ==
  Received =>
    /\ frame.brightness = BRIGHTNESS /\ (frame.seq + 1) % 256 = seq
    /\ Len(frame.segments) = Len(ring)
    /\ \A i \in 1 .. Len(ring) :
         /\ frame.segments[i].state = ring[i].state
         /\ <<frame.segments[i].hue, frame.segments[i].anim>>
              = STATE_STYLE[ring[i].state + 1]
         /\ frame.segments[i].harness = ring[i].harness
         /\ frame.segments[i].title \in {<<>>, Cut(ring[i])}

(* The bytes of all titles.                                                *)
TitleBytes(segments) ==
  Fold([seg \in Shown |-> [sum \in Nat |-> sum + Len(seg.title)]], 0, segments)

(* What the device shows of a title is a beginning of it without half a    *)
(* codepoint, of as many codepoints as the cap allows; it is left out only *)
(* when this and the titles before it do not fit.                          *)
TitlesWhole ==
  Received =>
    \A i \in 1 .. Len(frame.segments) :
      LET title == frame.segments[i].title
          begun == {Utf8(SubSeq(ring[i].title, 1, n)) : n \in 0 .. Len(ring[i].title)}
          room  == 255 - 4 - 6 * Len(ring)
          shown == TitleBytes(SubSeq(frame.segments, 1, i - 1))
      IN  /\ title \in begun
          /\ Len(title) <= MAX_TITLE
          /\ \A longer \in begun :
               Len(title) < Len(longer) /\ Len(longer) <= MAX_TITLE =>
                 title = <<>> /\ \E cut \in begun :
                   Len(cut) <= MAX_TITLE /\ shown + Len(cut) > room

(* A damaged packet is never shown: the device keeps what it has until the *)
(* next snapshot.                                                          *)
DamageDetected == damaged => frame = NoFrame

(* A packet has at most 71 bytes, the size that the smallest MTU the BLE   *)
(* transport accepts can carry (docs/protocol.md, ble_tx.py).              *)
FitsSmallestMtu == Len(packet) <= 71
=============================================================================

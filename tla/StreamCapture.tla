---------------------------- MODULE StreamCapture ----------------------------
(***************************************************************************)
(* StreamCapture (stream-capture.ts): one output stream of a command's     *)
(* child, read in chunks that break anywhere, cut into pieces at line      *)
(* ends, at the size of the buffer and by a timer, and decoded piece by    *)
(* piece.  The Transform it is passes the chunks on to nobody.             *)
(*                                                                         *)
(* Bytes: "x" a character, "n" a newline, "h" and "l" the two halves of    *)
(* one character.  ANSI codes, carriage returns and the blank-line mark    *)
(* change no order and are left out.                                       *)
(***************************************************************************)
EXTENDS Naturals, Sequences, FiniteSetsExt, Arrangement

CONSTANTS
    OutputBufferSize, \* 8192
    HighWater,        \* bytes a Transform takes while nobody reads it: 16384
    MaxBytes          \* bound of the model: what the child writes

ASSUME CaptureAssumption ==
    OutputBufferSize \in Nat \ {0} /\ HighWater \in Nat \ {0} /\ MaxBytes \in Nat

VARIABLES
    written,     \* what the child wrote
    taken,       \* how much of it handleChunk was given
    held,        \* stdoutBuffer or stderrBuffer
    pieces,      \* what onOutput was called with, decoded, one after another
    stream       \* "open", "ended" by the child, "closed" with 'close'

captureVars == <<written, taken, held, pieces, stream>>

CaptureInit ==
    /\ written = <<>> /\ taken = 0 /\ held = <<>> /\ pieces = <<>>
    /\ stream = "open"

(* toString('utf8'): two halves are one character, a half without the other *)
(* is replaced.                                                             *)
SecondHalf(bytes, i) == i > 1 /\ bytes[i] = "l" /\ bytes[i - 1] = "h"
Kept(bytes) == {i \in DOMAIN bytes : ~SecondHalf(bytes, i)}

CharAt(bytes, i) ==
    IF bytes[i] = "h" /\ i < Len(bytes) /\ bytes[i + 1] = "l" THEN "char"
    ELSE IF bytes[i] \in {"h", "l"} THEN "bad" ELSE bytes[i]

Decode(bytes) ==
    LET kept == Arranged(Kept(bytes), Ascending(Kept(bytes)))
    IN  [k \in DOMAIN kept |-> CharAt(bytes, kept[k])]

(* Buffer.from: a byte per character and half.                              *)
Halves(text) == {p \in (DOMAIN text) \X {1, 2} : p[2] = 1 \/ text[p[1]] = "char"}
HalfOrder(S) == [p \in S |-> {q \in S : p[1] < q[1] \/ (p[1] = q[1] /\ p[2] < q[2])}]

ByteOf(text, p) ==
    IF text[p[1]] # "char" THEN text[p[1]] ELSE IF p[2] = 1 THEN "h" ELSE "l"

Encode(text) ==
    LET halves == Arranged(Halves(text), HalfOrder(Halves(text)))
    IN  [k \in DOMAIN halves |-> ByteOf(text, halves[k])]

ChildWrites ==
    /\ stream = "open"
    /\ \E bytes \in {<<"x">>, <<"n">>, <<"h", "l">>} :
          /\ Len(written) + Len(bytes) <= MaxBytes
          /\ written' = written \o bytes
    /\ UNCHANGED <<taken, held, pieces, stream>>

ChildEnds ==
    /\ stream = "open" /\ stream' = "ended"
    /\ UNCHANGED <<written, taken, held, pieces>>

\* Slip: the buffer is sent and kept.
KeptOver(bytes) == [send |-> Decode(bytes), keep |-> bytes]

\* processBuffer, and a buffer that is empty again.
SendAll(bytes) == [send |-> Decode(bytes), keep |-> <<>>]

(* processCompleteLines: all up to the last newline, and the rest, which is *)
(* encoded anew, only if there is a newline.                                *)
SendLines(bytes) ==
    LET text == Decode(bytes)
        ends == {i \in DOMAIN text : text[i] = "n"}
        last == Max(ends)
    IN  IF ends = {} THEN [send |-> <<>>, keep |-> bytes]
        ELSE [send |-> SubSeq(text, 1, last), keep |-> Encode(SubSeq(text, last + 1, Len(text)))]

\* Slip: it is full one byte early.
HasRoomShort == taken + 1 < HighWater

HasRoom == taken < HighWater

HandleChunk ==
    /\ stream # "closed"
    /\ \E n \in 1..(Len(written) - taken) :
          LET bytes == held \o SubSeq(written, taken + 1, taken + n)
              done  == IF Len(bytes) > OutputBufferSize THEN SendAll(bytes) ELSE SendLines(bytes)
          IN  /\ HasRoom
              /\ taken' = taken + n
              /\ pieces' = pieces \o done.send
              /\ held' = done.keep
    /\ UNCHANGED <<written, stream>>

Flush ==
    /\ held # <<>> /\ stream # "closed"
    /\ pieces' = pieces \o SendAll(held).send
    /\ held' = SendAll(held).keep
    /\ UNCHANGED <<written, taken, stream>>

\* The child's 'close' waits until its stream has been read.
Destroy ==
    /\ stream = "ended" /\ taken = Len(written)
    /\ stream' = "closed"
    /\ pieces' = pieces \o SendAll(held).send
    /\ held' = SendAll(held).keep
    /\ UNCHANGED <<written, taken>>

CaptureNext == ChildWrites \/ ChildEnds \/ HandleChunk \/ Flush \/ Destroy

CaptureSpec == CaptureInit /\ [][CaptureNext]_captureVars

FairCaptureSpec == CaptureSpec /\ WF_captureVars(HandleChunk) /\ WF_captureVars(Destroy)

-----------------------------------------------------------------------------
CaptureTypeOK ==
    /\ taken \in 0..Len(written) /\ Len(written) <= MaxBytes
    /\ Len(held) <= OutputBufferSize
    /\ stream \in {"open", "ended", "closed"}
    /\ stream = "closed" => held = <<>>

(* However chunks, timer and buffer size cut the output, it arrives in      *)
(* order, once, and whole, as long as no cut went through a character.      *)
NothingLostOrDoubled ==
    LET arrived == pieces \o Decode(held)
        given   == Decode(SubSeq(written, 1, taken))
        torn(s) == \E i \in DOMAIN s : s[i] = "bad"
    IN  arrived = given \/ torn(arrived)

(* The command can only end when its output has been taken, and more than a *)
(* Transform takes while nobody reads it is never taken: short of that, the *)
(* end of the child is noticed.                                             *)
EndNoticed == stream = "ended" ~> stream = "closed" \/ taken >= HighWater
=============================================================================

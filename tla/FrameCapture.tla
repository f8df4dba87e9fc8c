---------------------------- MODULE FrameCapture ----------------------------
(***************************************************************************)
(* One capture of internal/nvrsnapshot: packets of a lossy H.265 stream    *)
(* become NAL units, NAL units an access unit with a key frame, and that   *)
(* is piped through an ffmpeg process by two goroutines which the caller   *)
(* has to collect, whatever fails first and whenever the deadline passes.  *)
(***************************************************************************)
EXTENDS Naturals

CONSTANTS
    SeqCycle,     \* sequence numbers are taken modulo SeqCycle (2^16)
    MaxPos,     \* bound on the packets of the stream
    MaxFragments, MaxGap, Nothing

\* A gap as long as the cycle of the sequence numbers cannot be seen.
ASSUME CaptureAssumption ==
    /\ SeqCycle \in Nat /\ MaxGap \in Nat /\ MaxGap + 1 < SeqCycle
    /\ MaxPos \in Nat /\ MaxFragments \in Nat \ {0}
    /\ Nothing \notin {"busy", "data", "large", "written", "error"}

ParameterSets == {"vps", "sps", "pps"}
Types == ParameterSets \cup {"key", "delta"}
CaptureCodes == {"succeeded", "wss_connect_failed", "wss_connect_timeout", "media_timeout",
          "demux_failed", "decode_failed", "thumbnail_invalid"}

VARIABLES
    \* the sender
    pos,       \* packets sent so far
    nal,       \* the NAL unit of the last packet: first position, fragments, type, timestamp
    \* the receiver
    stage, code, expired,
    fu,        \* Depacketizer: Nothing, or next sequence number, type, timestamp and fragments
    params,    \* parameter sets kept
    au,        \* accessUnit: timestamps and NAL units put together, whether one is a key frame
    \* the decoder
    proc,      \* "none", "running", "exited", "reaped"
    good,      \* whether ffmpeg succeeded
    stdin, stdout,   \* whether our ends of the pipes are open
    reader, writer,  \* goroutines: Nothing, "busy", or what they send
    readFinished, writeFinished, output

stream == <<pos, nal>>
demux == <<fu, params, au>>
pipes == <<proc, good, stdin, stdout, reader, writer>>
main == <<readFinished, writeFinished, output>>
captureVars == <<stream, stage, code, expired, demux, pipes, main>>

NoUnit == [stamps |-> {}, whole |-> TRUE, key |-> FALSE]

CaptureTypeOK ==
    /\ pos \in 0..MaxPos
    /\ nal \in [first : 0..MaxPos, len : 0..MaxFragments, type : Types, stamp : {0, 1},
                last : BOOLEAN]
    /\ stage \in {"dial", "read", "start", "select", "wait", "close", "reap", "drain", "done"}
    /\ code \in CaptureCodes \cup {Nothing} /\ expired \in BOOLEAN
    /\ \/ fu = Nothing
       \/ fu \in [next : 0..(SeqCycle - 1), type : Types, stamp : {0, 1},
                  parts : SUBSET (1..MaxFragments)]
    /\ params \subseteq ParameterSets
    /\ au \in [stamps : SUBSET {0, 1}, whole : BOOLEAN, key : BOOLEAN]
    /\ proc \in {"none", "running", "exited", "reaped"} /\ good \in BOOLEAN
    /\ stdin \in BOOLEAN /\ stdout \in BOOLEAN
    /\ reader \in {Nothing, "busy", "data", "large", "error"}
    /\ writer \in {Nothing, "busy", "written", "error"}
    /\ readFinished \in BOOLEAN /\ writeFinished \in BOOLEAN
    /\ output \in {Nothing, "jpeg", "other"}

CaptureInit ==
    /\ pos = 0
    /\ nal = [first |-> 0, len |-> 0, type |-> "delta", stamp |-> 0, last |-> TRUE]
    /\ stage = "dial" /\ code = Nothing /\ expired = FALSE
    /\ fu = Nothing /\ params = {} /\ au = NoUnit
    /\ proc = "none" /\ good = FALSE /\ stdin = FALSE /\ stdout = FALSE
    /\ reader = Nothing /\ writer = Nothing
    /\ readFinished = FALSE /\ writeFinished = FALSE /\ output = Nothing

\* Capture returns without a decoder to collect.
Return(c) == stage' = "done" /\ code' = c

\* A return from captureJPEG: its deferred shutdown comes first.
Fail(c) == stage' = "close" /\ code' = c

-----------------------------------------------------------------------------
(* The stream. *)

Dial ==
    /\ stage = "dial"
    /\ \/ ~expired /\ stage' = "read" /\ UNCHANGED code
       \/ Return(IF expired THEN "wss_connect_timeout" ELSE "wss_connect_failed")
    /\ UNCHANGED <<stream, expired, demux, pipes, main>>

EndOf(n) == n.first + n.len

\* The sender's next packet, and those lost before it: packets are fragments of NAL
\* units that follow each other, and the last unit of a picture has the marker.
Deliver ==
    \E gap \in 0..MaxGap :
        /\ pos' = pos + 1 + gap /\ pos' <= MaxPos
        /\ IF pos' < EndOf(nal) THEN UNCHANGED nal
           ELSE \E first \in EndOf(nal)..pos', len \in 1..MaxFragments, type \in Types,
                   step \in {0, 1}, last \in BOOLEAN :
                   /\ pos' < first + len
                   /\ nal' = [first |-> first, len |-> len, type |-> type,
                              stamp |-> IF nal.last \/ gap > 0 THEN (nal.stamp + step) % 2
                                        ELSE nal.stamp,
                              last |-> last]

\* The packet just delivered.
Fragment == pos' - nal'.first + 1
Single == nal'.len = 1
PacketSeq == pos' % SeqCycle

\* Mutant: the sequence number is not compared.
Continues_AnySequence == fu # Nothing /\ nal'.type = fu.type /\ nal'.stamp = fu.stamp

\* The tests of feedH265 on a fragment that is not the first.
Continues ==
    /\ fu # Nothing
    /\ PacketSeq = fu.next
    /\ nal'.type = fu.type /\ nal'.stamp = fu.stamp

\* nextSeq is a uint16.
NextSeq == (PacketSeq + 1) % SeqCycle

\* feedH265: "nal" when a unit is complete, with its fragments, "part" while one is
\* being put together, "bad" for a fragment that does not continue it.
feedH265 ==
    LET parts == IF Fragment = 1 THEN {1} ELSE fu.parts \cup {Fragment}
    IN  IF Single THEN [is |-> "nal", parts |-> {1}]
        ELSE IF Fragment # 1 /\ ~Continues THEN [is |-> "bad", parts |-> {}]
        ELSE [is |-> IF Fragment = nal'.len THEN "nal" ELSE "part", parts |-> parts]

\* accessUnit.acceptsTimestamp, reset and append.
appendUnit(whole) ==
    LET base == IF au.stamps \subseteq {nal'.stamp} THEN au ELSE NoUnit
    IN  [stamps |-> base.stamps \cup {nal'.stamp}, whole |-> base.whole /\ whole,
         key |-> base.key \/ nal'.type = "key"]

hasAllParameterSets == params = ParameterSets

\* A completed NAL unit in the loop of Capture: parameter sets are kept apart and
\* end no access unit, even with a marker.
TakeNAL(whole) ==
    IF nal'.type \in ParameterSets
    THEN /\ params' = params \cup {nal'.type}
         /\ UNCHANGED <<au, stage>>
    ELSE LET unit == appendUnit(whole)
         IN  /\ IF ~nal'.last THEN au' = unit /\ UNCHANGED stage
                ELSE IF unit.key /\ hasAllParameterSets THEN au' = unit /\ stage' = "start"
                ELSE au' = NoUnit /\ UNCHANGED stage
             /\ UNCHANGED params

\* One message in the loop of Capture.
Read ==
    /\ stage = "read" /\ Deliver
    /\ LET fed == feedH265
       IN  \/ /\ fed.is = "bad"
              /\ Return("demux_failed") /\ fu' = Nothing /\ UNCHANGED <<params, au>>
           \/ /\ fed.is = "part"
              /\ fu' = [next |-> NextSeq, type |-> nal'.type, stamp |-> nal'.stamp,
                        parts |-> fed.parts]
              /\ UNCHANGED <<stage, code, params, au>>
           \/ /\ fed.is = "nal"
              /\ fu' = Nothing
              /\ TakeNAL(fed.parts = 1..nal'.len)
              /\ UNCHANGED code
    /\ UNCHANGED <<expired, pipes, main>>

\* Mutant: the connection is read without the deadline.
ReadFails_NoDeadline ==
    /\ stage = "read" /\ ~expired
    /\ Return("demux_failed") \/ Return("wss_connect_failed")
    /\ UNCHANGED <<stream, expired, demux, pipes, main>>

\* A text message, a packet ParseRTP refuses, a unit that is too large, or the end
\* of the connection.
ReadFails ==
    /\ stage = "read"
    /\ \/ Return("demux_failed")
       \/ Return(IF expired THEN "media_timeout" ELSE "wss_connect_failed")
    /\ UNCHANGED <<stream, expired, demux, pipes, main>>

-----------------------------------------------------------------------------
(* The decoder: captureJPEG. *)

\* Pipes, command.Start and the two goroutines; each of them may fail first.
StartDecoder ==
    /\ stage = "start"
    /\ \/ /\ Fail("decode_failed")
          /\ UNCHANGED <<proc, stdin, stdout, reader, writer>>
       \/ /\ stage' = "select" /\ UNCHANGED code
          /\ proc' = "running" /\ stdin' = TRUE /\ stdout' = TRUE
          /\ reader' = "busy" /\ writer' = "busy"
    /\ UNCHANGED <<stream, expired, demux, good, main>>

\* readDone in the select loop.
SelectRead ==
    /\ stage = "select" /\ ~readFinished /\ reader \notin {Nothing, "busy"}
    /\ readFinished' = TRUE
    /\ \/ reader = "large" /\ Fail("thumbnail_invalid") /\ UNCHANGED output
       \/ reader = "error" /\ Fail("decode_failed") /\ UNCHANGED output
       \/ /\ reader = "data" /\ output' \in {"jpeg", "other"}
          /\ stage' = IF writeFinished THEN "wait" ELSE "select"
          /\ UNCHANGED code
    /\ UNCHANGED <<stream, expired, demux, pipes, writeFinished>>

\* writeDone: stdin is closed so that ffmpeg sees the end of its input; the close
\* may fail, like the write.
SelectWrite ==
    /\ stage = "select" /\ ~writeFinished /\ writer \notin {Nothing, "busy"}
    /\ writeFinished' = TRUE
    /\ \/ /\ writer = "written"
          /\ stdin' = FALSE
          /\ \/ stage' = (IF readFinished THEN "wait" ELSE "select") /\ UNCHANGED code
             \/ Fail("decode_failed")
       \/ /\ writer = "error"
          /\ Fail("decode_failed")
          /\ UNCHANGED stdin
    /\ UNCHANGED <<stream, expired, demux, proc, good, stdout, reader, writer,
                   readFinished, output>>

\* ctx.Done in the select loop.
SelectDeadline ==
    /\ stage = "select" /\ expired
    /\ Fail("media_timeout")
    /\ UNCHANGED <<stream, expired, demux, pipes, main>>

\* command.Wait after both goroutines, then validateJPEG; it blocks while ffmpeg,
\* which has ended its output, still runs.
Wait ==
    /\ stage = "wait" /\ proc = "exited"
    /\ proc' = "reaped"
    /\ \/ good /\ output = "jpeg" /\ Fail("succeeded")
       \/ good /\ output = "jpeg" /\ Fail("thumbnail_invalid")
       \/ ~(good /\ output = "jpeg") /\ Fail("decode_failed")
    /\ UNCHANGED <<stream, expired, demux, good, stdin, stdout, reader, writer, main>>

\* shutdown: the pipes, then the process, then the goroutines.
Close ==
    /\ stage = "close"
    /\ stdin' = FALSE /\ stdout' = FALSE
    /\ stage' = IF proc \in {"running", "exited"} THEN "reap" ELSE "drain"
    /\ UNCHANGED <<stream, code, expired, demux, proc, good, reader, writer, main>>

\* Kill ends ffmpeg whatever it does, so this Wait returns.
Reap ==
    /\ stage = "reap"
    /\ proc' = "reaped"
    /\ stage' = "drain"
    /\ UNCHANGED <<stream, code, expired, demux, good, stdin, stdout, reader, writer, main>>

\* Mutant: the goroutines are left to themselves.
Drain_Detached ==
    /\ stage = "drain"
    /\ stage' = "done"
    /\ UNCHANGED <<stream, code, expired, demux, pipes, main>>

Drain ==
    /\ stage = "drain"
    /\ reader # "busy" /\ writer # "busy"
    /\ readFinished' = (reader # Nothing) /\ writeFinished' = (writer # Nothing)
    /\ stage' = "done"
    /\ UNCHANGED <<stream, code, expired, demux, pipes, output>>

\* readBoundedJPEG: it reads until the end of the output, which ffmpeg may close
\* before it exits, until the output is too large, or until our end is closed.
Reader ==
    /\ reader = "busy"
    /\ \/ proc # "none" /\ reader' \in {"data", "large", "error"}
       \/ ~stdout /\ reader' = "error"
    /\ UNCHANGED <<stream, stage, code, expired, demux, proc, good, stdin, stdout, writer, main>>

\* stdin.Write: it ends when ffmpeg has taken all of it, is gone, or the pipe is closed.
Writer ==
    /\ writer = "busy"
    /\ \/ proc = "running" /\ stdin /\ writer' = "written"
       \/ proc \in {"exited", "reaped"} /\ writer' \in {"written", "error"}
       \/ ~stdin /\ writer' = "error"
    /\ UNCHANGED <<stream, stage, code, expired, demux, proc, good, stdin, stdout, reader, main>>

\* ffmpeg ends with its input, once it has its one frame, or with an error; it may
\* also hang, with its pipes open or closed, until it is killed, which the command's
\* context does after the deadline.
Exit ==
    /\ proc = "running"
    /\ proc' = "exited" /\ good' \in BOOLEAN
    /\ UNCHANGED <<stream, stage, code, expired, demux, stdin, stdout, reader, writer, main>>

\* The deadline of the camera.
Deadline ==
    /\ ~expired /\ stage # "done"
    /\ expired' = TRUE
    /\ UNCHANGED <<stream, stage, code, demux, pipes, main>>

Returned == stage = "done" /\ UNCHANGED captureVars

Decode ==
    \/ StartDecoder \/ SelectRead \/ SelectWrite \/ SelectDeadline
    \/ Wait \/ Close \/ Reap \/ Drain

CaptureNext ==
    \/ Dial \/ Read \/ ReadFails \/ Decode \/ Reader \/ Writer \/ Exit
    \/ Deadline \/ Returned

CaptureSpec == CaptureInit /\ [][CaptureNext]_captureVars

\* The caller runs, and the deadline passes: it ends a dial and a read that hang and
\* kills the process.  The two goroutines return once ffmpeg is gone or their pipe is
\* closed.  Neither the camera nor ffmpeg owes anybody anything before: not a packet,
\* not the taking of a byte, not its output or the end of it, not its exit.
Gone == proc \in {"exited", "reaped"}
CaptureFairness ==
    /\ WF_captureVars(Decode) /\ WF_captureVars(Deadline)
    /\ WF_captureVars((Gone \/ ~stdout) /\ Reader)
    /\ WF_captureVars((Gone \/ ~stdin) /\ Writer)
    /\ WF_captureVars(expired /\ (Dial \/ ReadFails)) /\ WF_captureVars(expired /\ Exit)

FairCapture == CaptureSpec /\ CaptureFairness

-----------------------------------------------------------------------------
(* Properties. *)

\* What is sent to ffmpeg is put together from units of which no fragment is
\* missing, although packets are lost, all of one picture, with a key frame and
\* all parameter sets.
MediaIsWhole ==
    stage \in {"start", "select", "wait"} =>
        au.whole /\ au.key /\ params = ParameterSets /\ \E t \in {0, 1} : au.stamps = {t}

\* A capture that returned has left nothing behind: the process is collected, the
\* goroutines have ended and the pipes are closed.
NothingLeftBehind ==
    stage = "done" => /\ proc \in {"none", "reaped"} /\ ~stdin /\ ~stdout
                   /\ reader # "busy" /\ writer # "busy"

\* Every capture returns: no hanging camera or ffmpeg, and no order of failures,
\* keeps the caller waiting for ever.
CaptureEnds == <>(stage = "done")
=============================================================================

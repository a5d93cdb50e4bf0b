------------------------------ MODULE NosePipe ------------------------------
(***************************************************************************)
(* The link between the Go capture process and the daemon: the writer of   *)
(* src/nose/pipe_writer.go, a Windows named pipe of one instance, and the  *)
(* reader thread of src/src/capture/nose_pipe_reader.zig.                  *)
(*                                                                         *)
(* A frame is cut into units, the grain of short reads and writes.  Errors *)
(* of the pipe are those Windows gives in its state; pipe_errors and       *)
(* g_nose_connected, which nothing reads back, are not kept.               *)
(***************************************************************************)
EXTENDS Integers, Sequences, SequencesExt

CONSTANTS
  HeaderLen,  \* units of the length header
  FrameSize,       \* units of a frame, by what its header announces
  Capacity,   \* units the pipe buffers
  MaxEvents,  \* bound: events a capture process mints
  MaxRuns     \* bound: capture processes, one after the other

Kinds == DOMAIN FrameSize
ASSUME NoseAssumption ==
  /\ {HeaderLen, Capacity, MaxEvents, MaxRuns} \subseteq Nat \ {0}
  /\ "canonical" \in Kinds
  /\ \A k \in Kinds : FrameSize[k] \in Nat /\ FrameSize[k] > HeaderLen

VARIABLES
  \* the capture process
  run,        \* how many there have been
  up,         \* the last one is running
  seq,        \* eventSequence
  handle,     \* FrameWriter.conn is open
  out,        \* what writeAll has left to write
  sent,       \* history: the frames counted as sent
  \* the named pipe
  pipe,       \* the state of the instance
  buf,        \* the units written and not yet read
  mode,       \* "nowait" or "wait"
  canSetMode, \* whether SetNamedPipeHandleState works on an inbound handle
  \* the reader
  stop,       \* stopSignal
  place,
  acc,        \* the units of the frame being read
  previous,   \* previous_connection_event_id
  read, rejected, dropped,  \* g_nose_frames_*
  regressions, \* g_nose_duplicate_event_ids + g_nose_non_monotonic_event_ids
  submitted,  \* the frames pushed, in order; g_nose_frames_submitted is its length
  taken, cut  \* history: frames taken whole off the pipe, discards cut short

writer == <<run, up, seq, handle, out, sent>>
wire   == <<pipe, buf>>
counts == <<read, rejected, dropped, regressions, submitted>>
reader == <<acc, previous, counts, taken, cut>>
noseVars   == <<writer, wire, mode, canSetMode, stop, place, reader>>

NoseInit ==
  /\ run = 0 /\ up = FALSE /\ seq = 0 /\ handle = FALSE /\ out = <<>> /\ sent = {}
  /\ pipe = "none" /\ buf = <<>> /\ mode = "nowait" /\ canSetMode \in BOOLEAN
  /\ stop = FALSE /\ place = "create" /\ acc = <<>>
  /\ previous = 0
  /\ read = 0 /\ rejected = 0 /\ dropped = 0 /\ regressions = 0 /\ submitted = <<>>
  /\ taken = 0 /\ cut = 0

-----------------------------------------------------------------------------
(* The capture process. *)

\* ensureConnected: the open succeeds while the instance is listening.
Dial ==
  IF pipe = "listening"
  THEN pipe' = "connected" /\ handle' = TRUE
  ELSE UNCHANGED <<pipe, handle>>

\* A new process: its event ids begin again.
StartNose ==
  /\ ~up /\ run < MaxRuns
  /\ up' = TRUE
  /\ run' = run + 1
  /\ seq' = 0
  /\ Dial
  /\ UNCHANGED <<out, sent, buf, mode, canSetMode, stop, place, reader>>

\* Send without a connection: the frame is dropped, whether or not the dial works.
SendUnconnected ==
  /\ up /\ out = <<>> /\ ~handle /\ seq < MaxEvents
  /\ seq' = seq + 1
  /\ Dial
  /\ UNCHANGED <<run, up, out, sent, buf, mode, canSetMode, stop, place, reader>>

Units(f) == [i \in 1 .. FrameSize[f.kind] |-> [frame |-> f, part |-> i]]

Send(k) ==
  /\ up /\ out = <<>> /\ handle /\ seq < MaxEvents
  /\ seq' = seq + 1
  /\ out' = Units([run |-> run, id |-> seq + 1, kind |-> k])
  /\ UNCHANGED <<run, up, handle, sent, wire, mode, canSetMode, stop, place, reader>>

\* writeAll: a write may be short, and blocks while the buffer is full.
WriteSome ==
  /\ out # <<>> /\ pipe = "connected"
  /\ \E n \in 1 .. Len(out) :
       /\ Len(buf) + n <= Capacity
       /\ buf' = buf \o SubSeq(out, 1, n)
       /\ out' = SubSeq(out, n + 1, Len(out))
       /\ sent' = IF n = Len(out) THEN sent \cup {Head(out).frame} ELSE sent
  /\ UNCHANGED <<run, up, seq, handle, pipe, mode, canSetMode, stop, place, reader>>

\* The server has disconnected: the handle is closed, the next Send dials.
WriteFails ==
  /\ out # <<>> /\ pipe # "connected"
  /\ handle' = FALSE
  /\ out' = <<>>
  /\ UNCHANGED <<run, up, seq, sent, wire, mode, canSetMode, stop, place, reader>>

\* The process ends, in the middle of a frame or not.
StopNose ==
  /\ up
  /\ up' = FALSE
  /\ handle' = FALSE
  /\ out' = <<>>
  /\ pipe' = IF handle /\ pipe = "connected" THEN "closing" ELSE pipe
  /\ UNCHANGED <<run, seq, sent, buf, mode, canSetMode, stop, place, reader>>

Nose ==
  \/ StartNose \/ SendUnconnected \/ WriteSome \/ WriteFails \/ StopNose
  \/ \E k \in Kinds : Send(k)

-----------------------------------------------------------------------------
(* The reader thread. *)

Moves(from, to) == place = from /\ place' = to

\* Another owner may keep the name busy for the whole minute of retries.
CreateServer ==
  /\ \/ Moves("create", "loop") /\ pipe' = "listening"
     \/ Moves("create", "ended") /\ UNCHANGED pipe
  /\ UNCHANGED <<writer, buf, mode, canSetMode, stop, reader>>

LoopTest ==
  /\ \/ ~stop /\ Moves("loop", "connect") /\ UNCHANGED wire
     \/ stop /\ Moves("loop", "ended") /\ pipe' = "none" /\ buf' = <<>>
  /\ UNCHANGED <<writer, mode, canSetMode, stop, reader>>

\* ConnectNamedPipe.  A client that is gone resets the instance, with what it
\* wrote.  In "wait" mode the call blocks while the instance is listening; in
\* "nowait" mode the first call after a disconnect reports success at once.
Connect ==
  /\ \/ pipe = "connected" /\ Moves("connect", "setMode") /\ UNCHANGED wire
     \/ pipe = "closing" /\ Moves("connect", "loop") /\ pipe' = "disconnected" /\ buf' = <<>>
     \/ pipe = "listening" /\ mode = "nowait" /\ Moves("connect", "loop") /\ UNCHANGED wire
     \/ pipe = "disconnected" /\ pipe' = "listening" /\ UNCHANGED buf
        /\ IF mode = "nowait" THEN Moves("connect", "setMode") ELSE Moves("connect", "connect")
  /\ UNCHANGED <<writer, mode, canSetMode, stop, reader>>

\* Mutant: the previous event id survives into the next connection.
SetModeKeepPrevious ==
  /\ Moves("setMode", "client")
  /\ mode' = IF canSetMode THEN "wait" ELSE mode
  /\ UNCHANGED <<writer, wire, canSetMode, stop, acc, previous, counts, taken, cut>>

\* "Restore blocking byte-mode reads"; the result of the call is ignored.
SetMode ==
  /\ Moves("setMode", "client")
  /\ mode' = IF canSetMode THEN "wait" ELSE mode
  /\ previous' = 0
  /\ UNCHANGED <<writer, wire, canSetMode, stop, acc, counts, taken, cut>>

ClientTest ==
  /\ \/ ~stop /\ Moves("client", "header")
     \/ stop /\ Moves("client", "disconnect")
  /\ acc' = <<>>
  /\ UNCHANGED <<writer, wire, mode, canSetMode, stop, previous, counts, taken, cut>>

\* Mutant: what one ReadFile returned is taken for the whole buffer.
WantedShort == Len(acc) + 1

\* How much of the frame there is when the present readExact is done.
Wanted == IF place = "header" THEN HeaderLen ELSE FrameSize[acc[1].frame.kind]

\* A ReadFile of readExact that returns bytes, and what follows a full buffer.
ReadSome ==
  /\ place \in {"header", "payload", "discard"}
  /\ \E n \in 1 .. Len(buf) :
       LET all == acc \o SubSeq(buf, 1, n) IN
       /\ Len(all) <= Wanted
       /\ acc' = all
       /\ buf' = SubSeq(buf, n + 1, Len(buf))
       /\ IF Len(all) < Wanted THEN UNCHANGED <<place, read, dropped, taken>>
          ELSE CASE place = "header"  -> /\ place' = IF all[1].frame.kind = "canonical"
                                               THEN "payload" ELSE "discard"
                                      /\ UNCHANGED <<read, dropped, taken>>
                 [] place = "payload" -> /\ place' = "decode"
                                      /\ read' = read + 1 /\ taken' = taken + 1
                                      /\ UNCHANGED dropped
                 [] place = "discard" -> /\ place' = "client"
                                      /\ dropped' = dropped + 1 /\ taken' = taken + 1
                                      /\ UNCHANGED read
  /\ UNCHANGED <<writer, pipe, mode, canSetMode, stop, previous,
                 rejected, regressions, submitted, cut>>

\* Mutant: a read in "nowait" mode does not look at the stop flag.
ReadEndsDeaf == buf = <<>> /\ pipe # "connected"

\* readExact gives up: no client, or nothing to read and a stop is wanted.  In
\* "wait" mode an empty pipe blocks, in "nowait" mode it is polled.
ReadEnds == buf = <<>> /\ (pipe # "connected" \/ (mode = "nowait" /\ stop))

ReadFails ==
  /\ ReadEnds
  /\ \/ /\ place \in {"header", "payload"}
        /\ place' = "disconnect"
        /\ UNCHANGED <<dropped, cut>>
     \/ /\ Moves("discard", "client")
        /\ dropped' = dropped + 1
        /\ cut' = cut + 1
  /\ UNCHANGED <<writer, wire, mode, canSetMode, stop, acc, previous,
                 read, rejected, regressions, submitted, taken>>

\* Mutant: a frame the queue refuses is not counted.
DecodeUncounted ==
  LET f == acc[1].frame IN
  /\ Moves("decode", "client")
  /\ \/ rejected' = rejected + 1 /\ UNCHANGED <<previous, regressions, submitted>>
     \/ /\ previous' = f.id
        /\ regressions' = IF f.id <= previous THEN regressions + 1 ELSE regressions
        /\ submitted' \in {submitted, Append(submitted, f)}
        /\ UNCHANGED rejected
  /\ UNCHANGED <<writer, wire, mode, canSetMode, stop, acc, read, dropped, taken, cut>>

\* deserializeFromBytes may reject the frame, and the queue may refuse it.
Decode ==
  LET f == acc[1].frame IN
  /\ Moves("decode", "client")
  /\ \/ rejected' = rejected + 1 /\ UNCHANGED <<previous, regressions, submitted, dropped>>
     \/ /\ previous' = f.id
        /\ regressions' = IF f.id <= previous THEN regressions + 1 ELSE regressions
        /\ \/ submitted' = Append(submitted, f) /\ UNCHANGED dropped
           \/ dropped' = dropped + 1 /\ UNCHANGED submitted
        /\ UNCHANGED rejected
  /\ UNCHANGED <<writer, wire, mode, canSetMode, stop, acc, read, taken, cut>>

Disconnect ==
  /\ Moves("disconnect", "loop")
  /\ pipe' = "disconnected"
  /\ buf' = <<>>
  /\ UNCHANGED <<writer, mode, canSetMode, stop, acc, previous, counts, taken, cut>>

Reader ==
  \/ CreateServer \/ LoopTest \/ Connect \/ SetMode \/ ClientTest
  \/ ReadSome \/ ReadFails \/ Decode \/ Disconnect

RequestStop ==
  /\ stop' = TRUE
  /\ UNCHANGED <<writer, wire, mode, canSetMode, place, reader>>

NoseNext == Nose \/ Reader \/ RequestStop

NoseSpec == NoseInit /\ [][NoseNext]_noseVars

\* The reader runs whenever a call of it can return; nobody owes it a client.
NoseFairSpec == NoseSpec /\ WF_noseVars(Reader)

-----------------------------------------------------------------------------

NoseTypeOK ==
  /\ run \in 0 .. MaxRuns /\ seq \in 0 .. MaxEvents
  /\ {up, handle, canSetMode, stop} \subseteq BOOLEAN
  /\ pipe \in {"none", "listening", "connected", "closing", "disconnected"}
  /\ Len(buf) <= Capacity
  /\ mode \in {"nowait", "wait"}
  /\ place \in {"create", "loop", "connect", "setMode", "client", "header", "payload",
             "discard", "decode", "disconnect", "ended"}
  /\ previous \in 0 .. MaxEvents
  /\ {read, rejected, dropped, regressions, taken, cut} \subseteq 0 .. MaxRuns * MaxEvents

(* What the reader decodes is one whole frame of one process, however its units
   were cut up on the way and wherever a process died before. *)
FramesAreWhole == place = "decode" => acc = Units(acc[1].frame)

(* The detector is handed frames that were sent whole, each once, in the order
   of the processes and of their event ids, over any reconnections. *)
SubmittedInOrder ==
  /\ ToSet(submitted) \subseteq sent
  /\ \A i, j \in 1 .. Len(submitted) : i < j =>
       \/ submitted[i].run < submitted[j].run
       \/ submitted[i].run = submitted[j].run /\ submitted[i].id < submitted[j].id

(* Every frame taken off the pipe is counted once as rejected, dropped or
   submitted, plus one drop for a malformed frame that was cut short. *)
EveryFrameCounted ==
  rejected + dropped + Len(submitted) + (IF place = "decode" THEN 1 ELSE 0) = taken + cut

(* Each frame is taken whole, and each is accounted for. *)
FramesAccounted == NoseTypeOK /\ FramesAreWhole /\ EveryFrameCounted

(* "Comparing a new connection with the previous process would report a false
   regression": a capture process that restarts is not reported as one. *)
NoFalseRegression == regressions = 0

(* A stop ends the reader if the pipe is still in the mode it was created in,
   or if its client has left. *)
StopCompletes == stop /\ (mode = "nowait" \/ pipe = "closing") ~> place = "ended"
=============================================================================

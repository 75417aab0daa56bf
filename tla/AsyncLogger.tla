----------------------------- MODULE AsyncLogger -----------------------------
(***************************************************************************)
(* src/base/AsyncLogger: the double-buffered log.  Front-end threads copy  *)
(* lines into currentBuffer_ under mutex_; the back-end thread swaps the   *)
(* full buffers out, writes them unlocked and hands one back.              *)
(*                                                                         *)
(* A section under mutex_ is one step.  A buffer is the lines in it and    *)
(* cur_, and a line is its number and its length.  cond_ only shortens the *)
(* wait: threadFunc goes round by its timeout in any case.                 *)
(***************************************************************************)
EXTENDS Naturals, Sequences, SequencesExt

CONSTANTS kSize,       \* bytes of a buffer
          MaxLines,    \* bound on the lines handed to append()
          MaxStarts    \* bound on the calls of start()

ASSUME SizeAssumption == kSize \in Nat \ {0}
ASSUME StartsAssumption == MaxStarts \in Nat

VARIABLES
  running_,
  currentBuffer_,
  nextBuffer_,       \* the one-element sequence of the spare buffer; << >> once moved
  buffersToWrite_,
  backend,           \* threadFunc: "none", "opening", "waiting", "writing", "recycling",
                     \* "done", or "failed" (returned for want of a file)
  toWrite,           \* its local vector
  written,           \* how many buffers of it are in the file
  stopping,
  stopper,           \* stop(): "idle" or "joining"
  starts,            \* calls of start() so far
  file,              \* lines in the file
  appended           \* history: lines handed to append()

front == <<currentBuffer_, nextBuffer_, buffersToWrite_>>
back == <<backend, toWrite, written, stopping>>
vars == <<running_, front, back, stopper, starts, file, appended>>

(* A line is no longer than a buffer (AsyncLogger.h:28). *)
Lines == [number : 1..MaxLines, len : 1..kSize]

Buffers == [lines : Seq(Lines), cur_ : 0..kSize]

(* A new buffer, and one that has been reset() *)
Empty == [lines |-> << >>, cur_ |-> 0]

avail(buffer) == kSize - buffer.cur_

Holding(buffer, line) ==
  [lines |-> Append(buffer.lines, line), cur_ |-> buffer.cur_ + line.len]

Init ==
  /\ running_ = FALSE
  /\ currentBuffer_ = Empty /\ nextBuffer_ = <<Empty>> /\ buffersToWrite_ = << >>
  /\ backend = "none" /\ toWrite = << >> /\ written = 0 /\ stopping = FALSE
  /\ stopper = "idle" /\ starts = 0
  /\ file = << >> /\ appended = << >>

-----------------------------------------------------------------------------
FitsAlways(line) == TRUE

Fits(line) == avail(currentBuffer_) >= line.len

(* nextBuffer_ if there is one, else a new buffer *)
Spare == IF nextBuffer_ = << >> THEN Empty ELSE Head(nextBuffer_)

(* Callers keep to stop()'s contract: no front end is left when it begins.  *)
append(line) ==
  /\ line.number = Len(appended) + 1
  /\ stopper = "idle"
  /\ IF Fits(line)
     THEN /\ currentBuffer_' = Holding(currentBuffer_, line)
          /\ UNCHANGED <<nextBuffer_, buffersToWrite_>>
     ELSE /\ buffersToWrite_' = Append(buffersToWrite_, currentBuffer_)
          /\ currentBuffer_' = Holding(Spare, line)
          /\ nextBuffer_' = << >>
  /\ appended' = Append(appended, line)
  /\ UNCHANGED <<running_, back, stopper, starts, file>>

(* Assigning to a joinable std::thread would terminate the program. *)
start ==
  /\ starts < MaxStarts
  /\ stopper = "idle" /\ backend = "none"
  /\ starts' = starts + 1
  /\ running_' = TRUE
  /\ backend' = "opening" /\ stopping' = FALSE
  /\ UNCHANGED <<front, toWrite, written, stopper, file, appended>>

stopUnset ==
  /\ stopper = "idle"
  /\ running_
  /\ stopper' = "joining"
  /\ UNCHANGED <<running_, front, back, starts, file, appended>>

stop ==
  /\ stopper = "idle"
  /\ running_
  /\ running_' = FALSE
  /\ stopper' = "joining"
  /\ UNCHANGED <<front, back, starts, file, appended>>

stopJoins ==
  /\ stopper = "joining"
  /\ backend \in {"done", "failed"}
  /\ stopper' = "idle"
  /\ backend' = "none"
  /\ UNCHANGED <<running_, front, toWrite, written, stopping, starts, file, appended>>

-----------------------------------------------------------------------------
(* threadFunc *)

fopen ==
  /\ backend = "opening"
  /\ backend' \in {"waiting", "failed"}
  /\ UNCHANGED <<running_, front, toWrite, written, stopping, stopper, starts, file, appended>>

collectFullOnly ==
  /\ backend = "waiting"
  /\ toWrite' = buffersToWrite_
  /\ buffersToWrite_' = << >>
  /\ UNCHANGED <<currentBuffer_, nextBuffer_>>
  /\ stopping' = ~running_
  /\ backend' = "writing" /\ written' = 0
  /\ UNCHANGED <<running_, stopper, starts, file, appended>>

(* Whatever the wait ended with, currentBuffer_ goes with the full ones. *)
collect ==
  /\ backend = "waiting"
  /\ toWrite' = Append(buffersToWrite_, currentBuffer_)
  /\ buffersToWrite_' = << >>
  /\ currentBuffer_' = Spare
  /\ nextBuffer_' = << >>
  /\ stopping' = ~running_
  /\ backend' = "writing" /\ written' = 0
  /\ UNCHANGED <<running_, stopper, starts, file, appended>>

fwrite ==
  /\ backend = "writing"
  /\ written < Len(toWrite)
  /\ file' = file \o toWrite[written + 1].lines
  /\ written' = written + 1
  /\ UNCHANGED <<running_, front, backend, toWrite, stopping, stopper, starts, appended>>

fflush ==
  /\ backend = "writing"
  /\ written = Len(toWrite)
  /\ backend' = "recycling"
  /\ UNCHANGED <<running_, front, toWrite, written, stopping, stopper, starts, file, appended>>

recycledNoReset == IF toWrite = << >> THEN << >> ELSE <<Last(toWrite)>>

(* The buffer that becomes nextBuffer_, reset *)
recycled == IF toWrite = << >> THEN << >> ELSE <<Empty>>

leavesOnLateLook == ~running_

(* Whether this was the last round was settled when it collected. *)
leaves == stopping

recycle ==
  /\ backend = "recycling"
  /\ nextBuffer_' = IF nextBuffer_ = << >> THEN recycled ELSE nextBuffer_
  /\ toWrite' = << >> /\ written' = 0
  /\ backend' = IF leaves THEN "done" ELSE "waiting"
  /\ UNCHANGED <<running_, currentBuffer_, buffersToWrite_, stopping, stopper, starts, file,
                 appended>>

-----------------------------------------------------------------------------
threadFunc == fopen \/ collect \/ fwrite \/ fflush \/ recycle

Next == (\E line \in Lines : append(line)) \/ start \/ stop \/ stopJoins \/ threadFunc

SafeSpec == Init /\ [][Next]_vars

(* Both threads run, and wait_until ends by its timeout at the latest. *)
Spec == SafeSpec /\ WF_vars(threadFunc) /\ WF_vars(stopJoins)

-----------------------------------------------------------------------------
(* Properties *)

(* No buffer ever holds more than its bytes; there is always a current one, *)
(* and the spare one is empty.                                              *)
LoggerTypeOK ==
  /\ running_ \in BOOLEAN /\ stopping \in BOOLEAN
  /\ currentBuffer_ \in Buffers
  /\ nextBuffer_ \in {<< >>, <<Empty>>}
  /\ buffersToWrite_ \in Seq(Buffers) /\ toWrite \in Seq(Buffers)
  /\ backend \in {"none", "opening", "waiting", "writing", "recycling", "done", "failed"}
  /\ written \in 0..Len(toWrite)
  /\ stopper \in {"idle", "joining"}
  /\ starts \in 0..MaxStarts
  /\ file \in Seq(Lines) /\ appended \in Seq(Lines)

(* Buffers on their way to the file, in the order they will get there.      *)
Chain == SubSeq(toWrite, written + 1, Len(toWrite)) \o buffersToWrite_ \o <<currentBuffer_>>

(* log is what is in f followed by what is in the buffers: cut[i] is where  *)
(* the i-th of them ends.                                                   *)
Intact(f, buffers, log) ==
  /\ f = SubSeq(log, 1, Len(f))
  /\ \E cut \in [0..Len(buffers) -> Len(f)..Len(log)] :
       /\ cut[0] = Len(f) /\ cut[Len(buffers)] = Len(log)
       /\ \A i, j \in 0..Len(buffers) : i <= j => cut[i] <= cut[j]
       /\ \A i \in 1..Len(buffers) :
            buffers[i].lines = SubSeq(log, cut[i - 1] + 1, cut[i])

(* Between file and front end no line is lost, written twice or overtaken,  *)
(* through every hand-over of the two buffers, a failed fopen and a restart *)
(* after stop() included.                                                   *)
LogIntact == Intact(file, Chain, appended)

(* The back end has ended after its last round.  A round begun before       *)
(* stop() is followed by another one.                                       *)
StoppedMeansFlushed == backend = "done" => file = appended

(* The inductive strengthening.  stop() is called once for each start(),    *)
(* and its caller waits in it for the back end to end.                      *)
StopperWaits ==
  IF backend = "none" THEN ~running_ /\ stopper = "idle" ELSE running_ <=> stopper = "idle"

(* Only a round in progress has buffers out; the last one leaves none.      *)
RoundInHand ==
  /\ backend \notin {"writing", "recycling"} => toWrite = << >> /\ written = 0
  /\ backend = "recycling" => written = Len(toWrite)
  /\ backend \in {"opening", "waiting", "failed"} => ~stopping
  /\ backend = "done" => stopping
  /\ stopping /\ backend # "none" =>
       ~running_ /\ buffersToWrite_ = << >> /\ currentBuffer_ = Empty

LoggerIInv == LoggerTypeOK /\ LogIntact /\ StopperWaits /\ RoundInHand

(* stop() always returns, and where the log file could be opened it returns *)
(* with every line handed to append() in the file.  After a failed fopen    *)
(* lines may be missing.                                                    *)
StopReturns ==
  /\ stopper = "joining" ~> stopper = "idle"
  /\ stopper = "joining" /\ backend \notin {"opening", "failed"}
       ~> stopper = "idle" /\ file = appended

(* What a caller can tell of the back end. *)
Status == IF backend = "none" THEN "idle" ELSE IF backend = "failed" THEN "broken" ELSE "running"

(* The logger keeps LogFile's promises. *)
LF == INSTANCE LogFile WITH logged <- appended, status <- Status
ImplementsLogFile == LF!Spec
=============================================================================

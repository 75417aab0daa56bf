------------------------------- MODULE Framing -------------------------------
(***************************************************************************)
(* From bytes to messages: a TCP stream arrives in pieces cut anywhere,    *)
(* and each application of the repository makes its units out of them      *)
(* again through a Buffer.                                                 *)
(*                                                                         *)
(*   chat   codec::takeLines, lines end at EOL                             *)
(*   http   http_server: one answer when the blank line has arrived        *)
(*   echo   echo_server: whatever was read goes back                       *)
(*   bench  bench_client's LineReader on a std::string                     *)
(*                                                                         *)
(* The n-th byte of the stream is EOL or the number n, so that every byte  *)
(* but EOL can be told apart.  In http four EOLs in a row stand for the    *)
(* "\r\n\r\n" in front of the body.                                        *)
(* TcpConnection checks closing, the kernel's side and the flags; here the *)
(* connection stays up.                                                    *)
(***************************************************************************)
EXTENDS Buffer

CONSTANTS MaxBytes,      \* bound on the bytes that arrive
          Response,      \* what http_server answers
          TmpSize,       \* sizeof(tmp) in readLine
          ReclaimLimit   \* 1 << 20 in readLine

ASSUME FramingAssumption == MaxBytes \in Nat /\ TmpSize \in Nat \ {0} /\ ReclaimLimit \in Nat
ASSUME NumberAssumption == 1..MaxBytes \subseteq Bytes
ASSUME ResponseAssumption == Response \in Seq(Bytes)

VARIABLES
  app,           \* which application this is
  calling,       \* messageCallback_ (or the caller of readLine) has bytes to look at
  state_,        \* TcpConnection::state_
  inputBuffer_, outputBuffer_,
  reader,        \* LineReader's buf and pos
  arrived,       \* history: every byte read from the fd
  taken,         \* history: the bytes the application has consumed
  lines,         \* history: the lines taken
  accepted,      \* history: the bytes send() accepted
  sent           \* history: the bytes the kernel took

input == <<calling, inputBuffer_, arrived>>
output == <<outputBuffer_, accepted, sent>>
vars == <<app, state_, input, output, reader, taken, lines>>

LineReader(buf, pos) == [buf |-> buf, pos |-> pos]

Init ==
  /\ app \in {"chat", "http", "echo", "bench"}
  /\ calling = FALSE
  /\ state_ = "kConnected"
  /\ inputBuffer_ = NewBuffer /\ outputBuffer_ = NewBuffer
  /\ reader = LineReader(<< >>, 0)
  /\ arrived = << >> /\ taken = << >> /\ lines = << >>
  /\ accepted = << >> /\ sent = << >>

-----------------------------------------------------------------------------
(* Reading *)

(* The next k bytes of the stream, with EOLs where the sender put them. *)
Piece(k, eols) == [i \in 1..k |-> IF i \in eols THEN EOL ELSE Len(arrived) + i]

(* TcpConnection::handleRead: one readFd, and messageCallback_ after it, in *)
(* ET mode too.                                                             *)
handleRead(k, eols) ==
  /\ app # "bench"
  /\ ~calling
  /\ k <= readvSize(inputBuffer_)
  /\ inputBuffer_' = readFd(inputBuffer_, Piece(k, eols))
  /\ arrived' = arrived \o Piece(k, eols)
  /\ calling' = TRUE
  /\ UNCHANGED <<app, state_, output, reader, taken, lines>>

CallbackReturns == calling' = FALSE

-----------------------------------------------------------------------------
(* Sending, on the connection's own loop *)

(* sendInLoop: the kernel takes n bytes at once, if none are waiting; what  *)
(* is left goes to the output buffer.                                       *)
sendInLoop(msg, n) ==
  /\ n <= Len(msg) /\ (readableBytes(outputBuffer_) # 0 => n = 0)
  /\ accepted' = accepted \o msg
  /\ sent' = sent \o SubSeq(msg, 1, n)
  /\ outputBuffer_' = IF n < Len(msg)
                      THEN append(outputBuffer_, SubSeq(msg, n + 1, Len(msg)))
                      ELSE outputBuffer_

(* handleWrite takes n of the bytes that wait. *)
handleWrite(n) ==
  /\ n <= readableBytes(outputBuffer_)
  /\ sent' = sent \o SubSeq(Content(outputBuffer_), 1, n)
  /\ outputBuffer_' = retrieve(outputBuffer_, n)
  /\ UNCHANGED <<app, state_, input, reader, taken, lines, accepted>>

-----------------------------------------------------------------------------
(* chat: codec::takeLines *)

(* One turn of its loop: the line without its EOL, then the EOL.  *)
takeLine(eol) ==
  /\ app = "chat" /\ calling
  /\ findEOL(inputBuffer_, eol)
  /\ LET line == SubSeq(Content(inputBuffer_), 1, eol - 1)
     IN /\ lines' = Append(lines, line)
        /\ taken' = (taken \o line) \o <<EOL>>
        /\ inputBuffer_' = retrieve(retrieve(inputBuffer_, eol - 1), 1)
  /\ UNCHANGED <<app, state_, output, reader, calling, arrived>>

(* Half a line stays in the buffer. *)
takeLinesReturns ==
  /\ app = "chat" /\ calling
  /\ ~HasEOL(inputBuffer_)
  /\ CallbackReturns
  /\ UNCHANGED <<app, state_, output, reader, inputBuffer_, arrived, taken, lines>>

-----------------------------------------------------------------------------
(* echo *)

retrieveAllAsString ==
  /\ taken' = taken \o Content(inputBuffer_)
  /\ inputBuffer_' = retrieve(inputBuffer_, readableBytes(inputBuffer_))

onEcho(n) ==
  /\ app = "echo" /\ calling
  /\ sendInLoop(Content(inputBuffer_), n)
  /\ retrieveAllAsString
  /\ CallbackReturns
  /\ UNCHANGED <<app, state_, reader, arrived, lines>>

-----------------------------------------------------------------------------
(* http *)

(* The blank line that ends a header is somewhere in s. *)
HasBlankLine(s) == \E i \in 1..Len(s) - 3 : \A j \in i..i + 3 : s[j] = EOL

onHttpWait ==
  /\ app = "http" /\ calling
  /\ ~HasBlankLine(Content(inputBuffer_))
  /\ CallbackReturns
  /\ UNCHANGED <<app, state_, output, reader, inputBuffer_, arrived, taken, lines>>

(* send() once a shutdown() has been asked for is refused. *)
onHttpRequest(n) ==
  /\ app = "http" /\ calling
  /\ HasBlankLine(Content(inputBuffer_))
  /\ taken' = taken \o Content(inputBuffer_)
  /\ inputBuffer_' = retrieveAll(inputBuffer_)
  /\ IF state_ = "kConnected" THEN sendInLoop(Response, n) ELSE UNCHANGED output
  /\ state_' = "kDisconnecting"
  /\ CallbackReturns
  /\ UNCHANGED <<app, reader, arrived, lines>>

-----------------------------------------------------------------------------
(* bench: LineReader::readLine *)

Rest(r) == SubSeq(r.buf, r.pos + 1, Len(r.buf))

NoLineYet(r) == \A i \in r.pos + 1 .. Len(r.buf) : r.buf[i] # EOL

recv(k, eols) ==
  /\ app = "bench"
  /\ NoLineYet(reader)
  /\ k <= TmpSize
  /\ reader' = LineReader(reader.buf \o Piece(k, eols), reader.pos)
  /\ arrived' = arrived \o Piece(k, eols)
  /\ UNCHANGED <<app, state_, calling, inputBuffer_, output, taken, lines>>

(* The consumed front of buf is erased when it has grown long. *)
reclaim(r) == IF r.pos > ReclaimLimit THEN LineReader(Rest(r), 0) ELSE r

readLine(nl) ==
  /\ app = "bench"
  /\ nl \in reader.pos + 1 .. Len(reader.buf)
  /\ reader.buf[nl] = EOL
  /\ \A i \in reader.pos + 1 .. nl - 1 : reader.buf[i] # EOL
  /\ lines' = Append(lines, SubSeq(reader.buf, reader.pos + 1, nl - 1))
  /\ taken' = taken \o SubSeq(reader.buf, reader.pos + 1, nl)
  /\ reader' = reclaim(LineReader(reader.buf, nl))
  /\ UNCHANGED <<app, state_, input, output>>

-----------------------------------------------------------------------------
Next ==
  \/ \E k \in 1..MaxBytes - Len(arrived) : \E eols \in SUBSET (1..k) :
       handleRead(k, eols) \/ recv(k, eols)
  \/ takeLinesReturns \/ onHttpWait
  \/ \E eol \in 1..readableBytes(inputBuffer_) : takeLine(eol)
  \/ \E n \in 0..readableBytes(inputBuffer_) : onEcho(n)
  \/ \E n \in 0..Len(Response) : onHttpRequest(n)
  \/ \E n \in 1..readableBytes(outputBuffer_) : handleWrite(n)
  \/ \E nl \in 1..Len(reader.buf) : readLine(nl)

Spec == Init /\ [][Next]_vars

-----------------------------------------------------------------------------
(* Properties *)

(* Both Buffers keep kPrepend <= readerIndex_ <= writerIndex_ <= size()     *)
(* whichever of makeSpace's two ways is taken, and no byte is ever written  *)
(* outside of buf_.                                                         *)
FramingTypeOK ==
  /\ app \in {"chat", "http", "echo", "bench"}
  /\ calling \in BOOLEAN
  /\ state_ \in {"kConnected", "kDisconnecting"}
  /\ WellFormed(inputBuffer_) /\ WellFormed(outputBuffer_)
  /\ reader.buf \in Seq(Bytes) /\ reader.pos \in 0..Len(reader.buf)
  /\ arrived \in Seq(Bytes) /\ taken \in Seq(Bytes)
  /\ accepted \in Seq(Bytes) /\ sent \in Seq(Bytes)
  /\ lines \in Seq(Seq(Bytes))

(* Nothing is lost, repeated or reordered on the way in or out. *)
StreamKept ==
  /\ taken \o (IF app = "bench" THEN Rest(reader) ELSE Content(inputBuffer_)) = arrived
  /\ sent \o Content(outputBuffer_) = accepted

(* A line is what lies between two EOLs, and no complete line waits. *)
LinesWhole ==
  /\ \A i \in 1..Len(lines) : \A j \in 1..Len(lines[i]) : lines[i][j] # EOL
  /\ app = "chat" /\ ~calling => ~HasEOL(inputBuffer_)

(* echo returns what it consumed; http has answered once if the blank line  *)
(* has arrived, wherever the pieces were cut, and not before.               *)
AnswersRight ==
  /\ app = "echo" => accepted = taken
  /\ app = "http" =>
       /\ ~calling => (state_ = "kDisconnecting" <=> HasBlankLine(arrived))
       /\ accepted = IF state_ = "kDisconnecting" THEN Response ELSE << >>
  /\ app \in {"chat", "bench"} => accepted = << >>

(* Every application makes the same of the same bytes, however the network  *)
(* cuts them.                                                               *)
CutsDoNotMatter == StreamKept /\ LinesWhole /\ AnswersRight

(* The inductive strengthening: until the answer http has consumed nothing, *)
(* and once it is given the blank line has arrived, callback or not.        *)
HttpConsumes ==
  app = "http" => IF state_ = "kConnected" THEN taken = << >> ELSE HasBlankLine(arrived)

FramingIInv == FramingTypeOK /\ CutsDoNotMatter /\ HttpConsumes
=============================================================================

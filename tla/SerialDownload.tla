--------------------------- MODULE SerialDownload ---------------------------
(***************************************************************************)
(* The download command: kDownloadFile of 02.Kernel64/Source/ConsoleShell.c*)
(* over SerialPort.c, against the program that sends the file,             *)
(* 04.Utility/01.SerialTransfer/NetworkTransfer.c.  The file goes in       *)
(* blocks, each acknowledged with one byte; the receiver gives up when it  *)
(* hears nothing for a while, the sender waits for ever until its user     *)
(* stops it and starts it again.                                           *)
(*                                                                         *)
(* The line keeps bytes in order, so a byte is its position in the stream  *)
(* of all bytes ever sent: positions up to taken have left the serial      *)
(* port's FIFO, those up to arrived are in it or beyond, those up to sent  *)
(* are on their way.                                                       *)
(***************************************************************************)
EXTENDS Integers

CONSTANTS
    Block,         \* SERIAL_FIFOMAXSIZE: bytes in the FIFO, and in a block
    Head,          \* the bytes of dwDataLength
    Lengths,       \* the lengths of the files that are sent
    MaxSenders,    \* bound: how often the sender is started
    MaxDownloads   \* bound: how often the command is typed

ASSUME BlockAssumption == Block \in Nat \ {0} /\ Head \in Nat \ {0} /\ Head <= Block
ASSUME LengthAssumption == Lengths \subseteq Nat
ASSUME BoundAssumption == MaxSenders \in Nat /\ MaxDownloads \in Nat

VARIABLES
    spc, length, start, senders,   \* NetworkTransfer: its program point, its
                                   \* file's length, the stream where it began
    older,                         \* history: 1 if an older transfer can be answered
    sent, arrived, taken, acks,    \* the line, and the acknowledgements on it
    rpc, from, downloads,          \* kDownloadFile, and the stream where it began
    dwDataLength, dwReceivedSize, dwTempSize,
    written,                       \* bytes in the file: those behind the head
    fault, verdict                 \* what the command has printed: on the way,
                                   \* and when it compared the sizes

sender   == <<spc, length, start, senders, older>>
line     == <<sent, arrived, taken, acks>>
locals   == <<dwDataLength, dwReceivedSize, dwTempSize>>
receiver == <<rpc, from, downloads, locals, written, fault, verdict>>
downloadVars == <<sender, line, receiver>>

Least(m, n) == IF m < n THEN m ELSE n

\* The system is up, and nobody has sent anything.
DownloadInit ==
    /\ spc = "off" /\ length = 0 /\ start = 0 /\ senders = 0 /\ older = 0
    /\ sent = 0 /\ arrived = 0 /\ taken = 0 /\ acks = 0
    /\ rpc = "shell" /\ from = 0 /\ downloads = 0
    /\ dwDataLength = 0 /\ dwReceivedSize = 0 /\ dwTempSize = 0
    /\ written = 0 /\ fault = "none" /\ verdict = "none"

-----------------------------------------------------------------------------
\* NetworkTransfer's main

Waiting == spc \in {"ackLength", "ackBlock"}

dwSentSize == sent - (start + Head)

\* The sender is started, connects and sends the length.
Connect(n) ==
    /\ spc \in {"off", "done"} /\ senders < MaxSenders
    /\ spc' = "ackLength" /\ senders' = senders + 1
    /\ length' = n /\ start' = sent /\ sent' = sent + Head
    /\ older' = IF (rpc = "shell" /\ arrived = sent) \/ from = sent THEN 0 ELSE 1
    /\ acks' = 0
    /\ UNCHANGED <<arrived, taken, receiver>>

\* recv of an acknowledgement
TakeAck ==
    /\ Waiting /\ acks > 0
    /\ acks' = acks - 1
    /\ spc' = "send"
    /\ UNCHANGED <<length, start, senders, older, sent, arrived, taken, receiver>>

\* Faulty: the next block goes out without waiting for the acknowledgement.
SendAhead ==
    /\ spc \in {"send", "ackBlock"} /\ dwSentSize < length
    /\ sent' = sent + Least(length - dwSentSize, Block)
    /\ spc' = "ackBlock"
    /\ UNCHANGED <<length, start, senders, older, arrived, taken, acks, receiver>>

SendBlock ==
    /\ spc = "send" /\ dwSentSize < length
    /\ sent' = sent + Least(length - dwSentSize, Block)
    /\ spc' = "ackBlock"
    /\ UNCHANGED <<length, start, senders, older, arrived, taken, acks, receiver>>

SendComplete ==
    /\ spc = "send" /\ dwSentSize >= length
    /\ spc' = "done"
    /\ UNCHANGED <<length, start, senders, older, line, receiver>>

\* An error, or the user's patience, ends the sender and its connection; what
\* is on its way may be lost.
Stop ==
    /\ spc \in {"ackLength", "ackBlock", "send"}
    /\ spc' = "off" /\ acks' = 0
    /\ sent' \in {sent, arrived}
    /\ UNCHANGED <<length, start, senders, older, arrived, taken, receiver>>

Send == TakeAck \/ SendBlock \/ SendComplete

-----------------------------------------------------------------------------
\* The line and the serial port

\* Faulty: the port says there is a byte when there is none.
ArriveUnsent ==
    /\ arrived <= sent /\ arrived - taken < Block
    /\ arrived' = arrived + 1
    /\ UNCHANGED <<sender, sent, taken, acks, receiver>>

\* A byte comes into the FIFO while that has room.
Arrive ==
    /\ arrived < sent /\ arrived - taken < Block
    /\ arrived' = arrived + 1
    /\ UNCHANGED <<sender, sent, taken, acks, receiver>>

FIFOCount == arrived - taken

\* What kReceiveSerialData(.., n) returns, without waiting for more.
Received(n) == Least(n, FIFOCount)

ClearSerialFIFO == taken' = arrived

\* kSendSerialData("A", 1); without a connection the byte is lost.
Acked == IF spc \in {"off", "done"} THEN acks ELSE acks + 1

-----------------------------------------------------------------------------
\* kDownloadFile

\* The command is typed; kClearSerialFIFO drops what the port has received.
Download ==
    /\ rpc = "shell" /\ downloads < MaxDownloads
    /\ downloads' = downloads + 1
    /\ ClearSerialFIFO /\ from' = arrived
    /\ dwReceivedSize' = 0 /\ fault' = "none" /\ verdict' = "none"
    /\ rpc' = "length"
    /\ UNCHANGED <<sender, sent, arrived, acks, dwDataLength, dwTempSize, written>>

\* kReceiveSerialData for the rest of the length.  The whole length is
\* acknowledged.  Bytes that are not the head of one file say anything.
ReceiveLength ==
    /\ rpc = "length" /\ FIFOCount > 0
    /\ LET m == Received(Head - dwReceivedSize)
       IN  /\ taken' = taken + m
           /\ dwReceivedSize' = dwReceivedSize + m
    /\ IF dwReceivedSize' < Head
       THEN UNCHANGED <<rpc, acks, dwDataLength>>
       ELSE /\ dwDataLength' \in IF taken' = start + Head THEN {length} ELSE Lengths
            /\ acks' = Acked
            /\ rpc' = "open"
    /\ UNCHANGED <<sender, sent, arrived, from, downloads, dwTempSize, written, fault, verdict>>

\* Nothing came for 30 seconds.
LengthTimeOut ==
    /\ rpc = "length" /\ FIFOCount = 0
    /\ rpc' = "shell" /\ fault' = "timeOut"
    /\ UNCHANGED <<sender, line, from, downloads, locals, written, verdict>>

\* fopen creates or empties the file, or fails when the length has already
\* been acknowledged.
Open ==
    /\ rpc = "open"
    /\ \/ /\ rpc' = "data" /\ dwReceivedSize' = 0 /\ written' = 0
          /\ UNCHANGED fault
       \/ /\ rpc' = "shell" /\ fault' = "openFail"
          /\ UNCHANGED <<dwReceivedSize, written>>
    /\ UNCHANGED <<sender, line, from, downloads, dwDataLength, dwTempSize, verdict>>

\* Faulty: the last block, when it is not a full one, is not acknowledged.
AcksFullBlocks == dwReceivedSize' % Block = 0

\* Whether what has been received ends a block or the file.
EndsBlock == dwReceivedSize' % Block = 0 \/ dwReceivedSize' = dwDataLength

\* kReceiveSerialData for a block, as much of it as is there, and the
\* acknowledgement if it is the end of one.
ReceiveData ==
    /\ rpc = "data" /\ dwReceivedSize < dwDataLength
    /\ FIFOCount > 0
    /\ dwTempSize' = Received(Block)
    /\ taken' = taken + dwTempSize'
    /\ dwReceivedSize' = dwReceivedSize + dwTempSize'
    /\ acks' = IF EndsBlock THEN Acked ELSE acks
    /\ rpc' = "write"
    /\ UNCHANGED <<sender, sent, arrived, from, downloads, dwDataLength, written, fault, verdict>>

\* Faulty: an error is not looked at.
WriteUnchecked ==
    /\ rpc = "write"
    /\ \E n \in 0 .. dwTempSize : written' = written + n
    /\ rpc' = "data"
    /\ UNCHANGED <<sender, line, from, downloads, locals, fault, verdict>>

\* fwrite; a short write, on a full volume, ends the loop.
Write ==
    /\ rpc = "write"
    /\ \/ /\ written' = written + dwTempSize
          /\ rpc' = "data"
          /\ UNCHANGED fault
       \/ /\ \E n \in 0 .. dwTempSize - 1 : written' = written + n
          /\ rpc' = "close" /\ fault' = "writeError"
    /\ UNCHANGED <<sender, line, from, downloads, locals, verdict>>

\* Nothing came for a second.
DataTimeOut ==
    /\ rpc = "data" /\ dwReceivedSize < dwDataLength
    /\ FIFOCount = 0
    /\ rpc' = "close" /\ fault' = "timeOut"
    /\ UNCHANGED <<sender, line, from, downloads, locals, written, verdict>>

\* The loop is over: the sizes are compared and the file is closed and flushed.
Close ==
    /\ rpc = "close" \/ (rpc = "data" /\ dwReceivedSize >= dwDataLength)
    /\ verdict' = IF dwReceivedSize = dwDataLength THEN "complete" ELSE "error"
    /\ rpc' = "shell"
    /\ UNCHANGED <<sender, line, from, downloads, locals, written, fault>>

Receive ==
    ReceiveLength \/ LengthTimeOut \/ Open \/ ReceiveData \/ Write \/ DataTimeOut \/ Close

-----------------------------------------------------------------------------
DownloadNext ==
    \/ \E n \in Lengths : Connect(n)
    \/ Send \/ Stop \/ Arrive \/ Download \/ Receive

DownloadSpec == DownloadInit /\ [][DownloadNext]_downloadVars

-----------------------------------------------------------------------------
\* Properties

DownloadTypeOK ==
    /\ spc \in {"off", "ackLength", "send", "ackBlock", "done"}
    /\ length \in Nat /\ start \in Nat /\ senders \in Nat /\ older \in {0, 1}
    /\ sent \in Nat /\ arrived \in Nat /\ taken \in Nat /\ acks \in Nat
    /\ taken <= arrived /\ arrived <= sent
    /\ rpc \in {"shell", "length", "open", "data", "write", "close"}
    /\ from \in Nat /\ downloads \in Nat
    /\ dwDataLength \in Nat /\ dwReceivedSize \in Nat /\ dwTempSize \in Nat
    /\ written \in Nat
    /\ fault \in {"none", "timeOut", "openFail", "writeError"}
    /\ verdict \in {"none", "complete", "error"}

\* The receiver began where the sender began: nothing of an earlier transfer
\* could be answered, and kClearSerialFIFO dropped nothing of this one.
InStep == spc # "off" /\ older = 0 /\ from = start

\* What each end reports is so.  "Receive Complete" without "File Write Error
\* Occur" means the whole file is there, "Send Complete" that all of it was
\* received; neither end is misled by blocks that come in pieces.
ReportsAreTrue == InStep =>
    /\ verdict = "complete" /\ fault # "writeError" => written = length
    /\ spc = "done" => taken = start + Head + length

\* The sender never waits for an acknowledgement that the receiver will not
\* give: once all that was sent has been received one is on its way.
NobodyWaitsInVain == Waiting /\ taken = sent => acks > 0

\* The port's FIFO has room for all that is on its way: a serial line without
\* flow control would lose nothing.
NeverOverrun == sent - taken <= Block

\* The sender neither waits in vain nor runs ahead of the receiver, whatever the
\* length, however the blocks were split, and also when the file could not be
\* opened or written: kDownloadFile acknowledges each block once.
StopAndWait == InStep => NobodyWaitsInVain /\ NeverOverrun
=============================================================================

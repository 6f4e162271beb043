--------------------------- MODULE ValidationPipe ---------------------------
(***************************************************************************)
(* The bytes of the validation pipe.  A miner thread writes a block as one *)
(* frame, a size and the block; a validator reads MAX_BLOCK_SIZE bytes,    *)
(* and leaves its loop for good when what came is not one frame.  The      *)
(* other modules take a write and a read for single steps on whole blocks; *)
(* this one says for which TRANSACTIONS_PER_BLOCK that is true.            *)
(*                                                                         *)
(* The pipe is that of the kernel: a write of at most PIPE_BUF bytes waits *)
(* until it fits and is atomic, a longer one fills the room there is and   *)
(* waits for more; a read takes what there is, up to its size.             *)
(***************************************************************************)
EXTENDS Integers, Sequences

CONSTANTS
  Writers,                 \* the miner threads
  Readers,                 \* the validators
  TRANSACTIONS_PER_BLOCK,
  PIPE_BUF,                \* bytes that a write puts in the pipe at once
  PIPE_SIZE,               \* bytes that the pipe holds
  MaxFrames                \* bound: blocks that each thread writes

ASSUME PipeAssumption ==
  /\ TRANSACTIONS_PER_BLOCK \in Nat \ {0}
  /\ PIPE_BUF \in Nat \ {0}
  /\ PIPE_SIZE \in Nat /\ PIPE_SIZE >= PIPE_BUF
  /\ MaxFrames \in Nat

VARIABLES
  pipe,      \* pieces of frames, [frame, from, len], in the order of bytes
  wstate,    \* where each writer is
  frame_no,  \* number of the frame that each writer has begun
  sent,      \* bytes of it that are in the pipe or were read
  rstate,    \* where each reader is
  wrote,     \* history: frames in the order of their first byte
  received   \* history: what the validators parsed, in order

writerVars == <<wstate, frame_no, sent>>
vars == <<pipe, writerVars, rstate, wrote, received>>

-----------------------------------------------------------------------------
(* Sizes of the packed structures, in bytes: the size that goes before a   *)
(* block, TransactionBlock without its pointer (64 + 65 + 8 + 4), and      *)
(* Transaction (64 + 4 + 4 + 8).                                           *)
SizePrefix    == 8
HeaderSize    == 141
SizeOfTx      == 80
total_payload == HeaderSize + TRANSACTIONS_PER_BLOCK * SizeOfTx
total_size    == SizePrefix + total_payload

(* A slip of the reader: the size itself is not counted.                   *)
WithoutPrefix == total_payload

MAX_BLOCK_SIZE == SizePrefix + HeaderSize + TRANSACTIONS_PER_BLOCK * SizeOfTx

(* Bytes of the first k pieces, and of all.                                *)
BytesUpTo(pieces, k) ==
  LET sum[i \in 0..k] == IF i = 0 THEN 0 ELSE sum[i - 1] + pieces[i].len
  IN  sum[k]

Bytes(pieces) == BytesUpTo(pieces, Len(pieces))

Room == PIPE_SIZE - Bytes(pipe)

Smaller(a, b) == IF a < b THEN a ELSE b

(* The pieces that a read of n bytes takes, the last of them in part when  *)
(* the n bytes end inside it, and what it leaves.                          *)
Taken(pieces, n) ==
  LET Reached(k) == \A i \in 1..Len(pieces) : i <= k <=> BytesUpTo(pieces, i - 1) < n
      reached    == CHOOSE k \in 0..Len(pieces) : Reached(k)
  IN  [i \in 1..reached |->
         [pieces[i] EXCEPT !.len = Smaller(@, n - BytesUpTo(pieces, i - 1))]]

Left(pieces, n) ==
  LET Gone(k)   == \A i \in 1..Len(pieces) : i <= k <=> BytesUpTo(pieces, i) <= n
      gone      == CHOOSE k \in 0..Len(pieces) : Gone(k)
      InPart(i) == IF i = 1 THEN n - BytesUpTo(pieces, gone) ELSE 0
  IN  [i \in 1..(Len(pieces) - gone) |->
         [pieces[gone + i] EXCEPT !.from = @ + InPart(i), !.len = @ - InPart(i)]]

Frame(w) == <<w, frame_no[w]>>

(* What a validator takes for a block that is not one frame.               *)
Torn == <<"torn", 0>>

-----------------------------------------------------------------------------
Init ==
  /\ pipe = <<>>
  /\ wstate = [w \in Writers |-> "mining"]
  /\ frame_no = [w \in Writers |-> 0]
  /\ sent = [w \in Writers |-> 0]
  /\ rstate = [r \in Readers |-> "reading"]
  /\ wrote = <<>>
  /\ received = <<>>

HasReader == \E r \in Readers : rstate[r] \in {"reading", "validating"}
HasWriter == \E w \in Writers : wstate[w] # "ended"

WriteBegins(w) ==
  /\ wstate[w] = "mining"
  /\ frame_no[w] < MaxFrames
  /\ wstate' = [wstate EXCEPT ![w] = "write"]
  /\ frame_no' = [frame_no EXCEPT ![w] = @ + 1]
  /\ sent' = [sent EXCEPT ![w] = 0]
  /\ UNCHANGED <<pipe, rstate, wrote, received>>

(* A slip of the thread: a write for the size and one for the block, each  *)
(* atomic.                                                                 *)
InTwoWrites(w) ==
  LET n == IF sent[w] = 0 THEN SizePrefix ELSE total_payload
  IN  IF Room >= n THEN n ELSE 0

(* A slip of the thread: the size is counted twice.                        *)
PrefixTwice(w) == IF Room >= total_size THEN total_size + SizePrefix ELSE 0

(* The bytes that a step of write() puts in the pipe: all, or, of a frame  *)
(* too long for that, as many as there is room for.                        *)
BytesWritten(w) ==
  IF total_size <= PIPE_BUF
    THEN IF Room >= total_size THEN total_size ELSE 0
    ELSE Smaller(total_size - sent[w], Room)

WriteStep(w) ==
  /\ wstate[w] = "write"
  /\ HasReader
  /\ BytesWritten(w) > 0
  /\ pipe' = Append(pipe, [frame |-> Frame(w), from |-> sent[w],
                           len |-> BytesWritten(w)])
  /\ sent' = [sent EXCEPT ![w] = @ + BytesWritten(w)]
  /\ wstate' = [wstate EXCEPT ![w] =
                   IF sent'[w] = total_size THEN "mining" ELSE @]
  /\ wrote' = IF sent[w] = 0 THEN Append(wrote, Frame(w)) ELSE wrote
  /\ UNCHANGED <<frame_no, rstate, received>>

(* SIGPIPE is ignored: without a reader write() fails, is logged, and the  *)
(* thread goes on.                                                         *)
WriteFails(w) ==
  /\ wstate[w] = "write"
  /\ ~HasReader
  /\ wstate' = [wstate EXCEPT ![w] = "mining"]
  /\ UNCHANGED <<pipe, frame_no, sent, rstate, wrote, received>>

(* Cancelled, also where write() waits for room.                           *)
WriterCancelled(w) ==
  /\ wstate[w] # "ended"
  /\ wstate' = [wstate EXCEPT ![w] = "ended"]
  /\ UNCHANGED <<pipe, frame_no, sent, rstate, wrote, received>>

(* The size is where a frame begins; no other eight bytes of it are equal  *)
(* to a size.                                                              *)
SizeMatches(taken) == /\ taken[1].from = 0
                      /\ taken[1].len >= SizePrefix
                      /\ Bytes(taken) = total_size

IsFrame(taken) == \A i \in DOMAIN taken : taken[i].frame = taken[1].frame

ReadBlock(r) ==
  /\ rstate[r] = "reading"
  /\ pipe # <<>>
  /\ pipe' = Left(pipe, MAX_BLOCK_SIZE)
  /\ LET taken == Taken(pipe, MAX_BLOCK_SIZE) IN
       IF SizeMatches(taken)
         THEN /\ received' = Append(received, IF IsFrame(taken) THEN taken[1].frame
                                                               ELSE Torn)
              /\ rstate' = [rstate EXCEPT ![r] = "validating"]
         ELSE /\ rstate' = [rstate EXCEPT ![r] = "broken"]
              /\ UNCHANGED received
  /\ UNCHANGED <<writerVars, wrote>>

ReadEnd(r) ==
  /\ rstate[r] = "reading"
  /\ pipe = <<>>
  /\ ~HasWriter
  /\ rstate' = [rstate EXCEPT ![r] = "ended"]
  /\ UNCHANGED <<pipe, writerVars, wrote, received>>

Validated(r) ==
  /\ rstate[r] = "validating"
  /\ rstate' = [rstate EXCEPT ![r] = "reading"]
  /\ UNCHANGED <<pipe, writerVars, wrote, received>>

(* SIGTERM, with a block in hand or without: of an additional validator at *)
(* any time, of validator 1 when the system is shut down.                  *)
ReaderStopped(r) ==
  /\ rstate[r] \in {"reading", "validating"}
  /\ rstate' = [rstate EXCEPT ![r] = "ended"]
  /\ UNCHANGED <<pipe, writerVars, wrote, received>>

WriterNext(w) == WriteBegins(w) \/ WriteStep(w) \/ WriteFails(w)

ReaderNext(r) == ReadBlock(r) \/ ReadEnd(r) \/ Validated(r)

Next ==
  \/ \E w \in Writers : WriterNext(w) \/ WriterCancelled(w)
  \/ \E r \in Readers : ReaderNext(r) \/ ReaderStopped(r)

Spec == Init /\ [][Next]_vars

(* Threads that can go on do; nobody need be cancelled or stopped.         *)
FairSpec ==
  /\ Spec
  /\ \A w \in Writers : WF_vars(WriterNext(w))
  /\ \A r \in Readers : WF_vars(ReaderNext(r))

-----------------------------------------------------------------------------
PipeTypeOK ==
  /\ pipe \in Seq([frame : Writers \X Nat, from : Nat, len : Nat \ {0}])
  /\ Bytes(pipe) <= PIPE_SIZE
  /\ wstate \in [Writers -> {"mining", "write", "ended"}]
  /\ frame_no \in [Writers -> 0..MaxFrames]
  /\ sent \in [Writers -> 0..total_size]
  /\ rstate \in [Readers -> {"reading", "validating", "broken", "ended"}]
  /\ wrote \in Seq(Writers \X Nat)
  /\ received \in Seq((Writers \X Nat) \cup {Torn})

(* The frames that begin in these pieces, in order.                        *)
FramesBegun(pieces) ==
  LET begun[i \in 0..Len(pieces)] ==
        IF i = 0 THEN <<>>
        ELSE IF pieces[i].from = 0 THEN Append(begun[i - 1], pieces[i].frame)
        ELSE begun[i - 1]
  IN  begun[Len(pieces)]

(* Reads and writes are atomic and free of corruption: the validators      *)
(* receive, between them, the frames in the order they were written, each  *)
(* once and whole, and what is left in the pipe is the rest of them.       *)
ReadWhole == received \o FramesBegun(pipe) = wrote

(* A validator leaves its loop only when the writing side is closed, or    *)
(* when it is told to.  Otherwise nothing would read the pipe any more.    *)
NoReaderBreaks == \A r \in Readers : rstate[r] # "broken"

(* Whatever is written is read at last, with validators ended at any time  *)
(* and threads cancelled while they write, as long as a validator is not   *)
(* told to end.                                                            *)
EventuallyRead ==
  \A f \in Writers \X (1..MaxFrames) :
     (\E i \in DOMAIN pipe : pipe[i].frame = f)
       ~> \/ \E i \in DOMAIN received : received[i] = f
          \/ \A r \in Readers : rstate[r] = "ended"
=============================================================================

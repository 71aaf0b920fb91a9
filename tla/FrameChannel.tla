---------------------------- MODULE FrameChannel ----------------------------
(***************************************************************************)
(* What a websocket connection promises its two ends (section 4.1): a     *)
(* reliable FIFO channel of whole frames.  A send puts a frame at the end *)
(* of the channel; a delivery hands the first frame to the reader, once,  *)
(* unchanged.  How frames are cut into bytes, read in chunks and decoded  *)
(* is left to the implementation (WebsocketStream).                       *)
(***************************************************************************)
EXTENDS Sequences, SequencesExt

CONSTANT Frames   \* what a frame can carry: opcode, payload and fin flag

VARIABLES
  queue,      \* frames sent and not yet delivered, oldest first
  delivered   \* frames handed to the reader, in order

vars == <<queue, delivered>>

Init == queue = <<>> /\ delivered = <<>>

\* A frame is sent.
Send ==
  /\ Len(queue') = Len(queue) + 1
  /\ IsPrefix(queue, queue')
  /\ Last(queue') \in Frames
  /\ UNCHANGED delivered

\* The reader gets the oldest frame.
Deliver ==
  /\ queue # <<>>
  /\ delivered' = Append(delivered, Head(queue))
  /\ queue' = Tail(queue)

Next == Send \/ Deliver

\* A frame in the channel is eventually delivered.
Spec == Init /\ [][Next]_vars /\ WF_vars(Deliver)

=============================================================================

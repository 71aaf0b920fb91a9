------------------------- MODULE MCWebsocketStream -------------------------
(* Values for the websocket stream model.                                  *)
EXTENDS WebsocketStream

\* Payload lengths at the 7-bit / 16-bit boundary (the 64-bit class is
\* checked on single frames by MCOperators).
MCSmallLens == {0, 1, 125, 126}
\* Unmasked frames: masked ones are checked frame by frame in MCOperators,
\* since TLC's fairness checking over XOR-masked payloads does not finish.
MCNoMask == {<<>>}
\* A close without reason and one of 62 two-byte characters: 2 + 124 bytes.
MCCloseReasons == {<<>>, [i \in 1..62 |-> 233]}
MCShortReasons == {<<>>, <<233>>}
\* One byte, a few bytes (cutting headers and mask keys), a whole frame;
\* after MaxSmallReads short reads, a read takes all that is in flight.
MCChunks == {1, 3, 130}

=============================================================================

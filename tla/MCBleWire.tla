----------------------------- MODULE MCBleWire -----------------------------
EXTENDS BleWire, TLC

CONSTANTS ping, answer, frame, letter

\* A ping fits into one chunk, the answer to a request into two, a status frame
\* takes three.
Lengths == (ping :> 1) @@ (answer :> 2) @@ (frame :> 3)
=============================================================================

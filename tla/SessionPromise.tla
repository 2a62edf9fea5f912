--------------------------- MODULE SessionPromise ---------------------------
(***************************************************************************)
(* What the device manager counts on from a DeviceSession and its          *)
(* transport: the link-local part of DeviceManager.  start() ends once, in *)
(* success or failure; a session that is up goes down once; whoever        *)
(* listens is told of it at most once, and never while the link is in use. *)
(***************************************************************************)
EXTENDS Naturals

VARIABLES
  stage,  \* "hello" (start() is awaited), "up" or "idle" (of no more use)
  link,   \* "open", "closing" or "none": the transport
  told    \* 'disconnect' has been emitted

promiseVars == <<stage, link, told>>

PromiseInit == stage = "hello" /\ link = "open" /\ told = FALSE

CloseLink == link' = IF link = "open" THEN "closing" ELSE link

\* start() resolves.
Acked == stage = "hello" /\ link # "none" /\ stage' = "up" /\ UNCHANGED <<link, told>>

\* start() rejects and the manager destroys the session.
HelloFailed == stage = "hello" /\ stage' = "idle" /\ CloseLink /\ UNCHANGED told

\* The manager closes the transport under a session that is not published.
OwnerCloses == stage # "idle" /\ link = "open" /\ CloseLink /\ UNCHANGED <<stage, told>>

\* The manager destroys the session it publishes.
OwnerDestroys == stage = "up" /\ stage' = "idle" /\ CloseLink /\ UNCHANGED told

\* The watchdog gives the link up.
GivenUp == stage = "up" /\ stage' = "idle" /\ CloseLink /\ told' = TRUE

\* The transport has closed.
LinkGone == link # "none" /\ link' = "none" /\ stage' = "idle" /\ told' = TRUE

PromiseNext ==
  Acked \/ HelloFailed \/ OwnerCloses \/ OwnerDestroys \/ GivenUp \/ LinkGone

Promise == PromiseInit /\ [][PromiseNext]_promiseVars
=============================================================================

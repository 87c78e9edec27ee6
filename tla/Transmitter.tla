---------------------------- MODULE Transmitter ----------------------------
(***************************************************************************)
(* What components/audio_io promises about the I2S transmitter: one writer *)
(* at a time; a client may ask for a session; until it is granted or given *)
(* up the background task starts at most one more buffer, and in an open   *)
(* session only the client writes.                                         *)
(***************************************************************************)
EXTENDS Naturals

VARIABLES session,   \* "closed", "asked" or "open"
          writer,    \* who is inside the driver's write: "none", "bg", "stream"
          late       \* background buffers started since the session was asked for

vars == <<session, writer, late>>

Init == session = "closed" /\ writer = "none" /\ late = 0

BackgroundStart ==
    /\ writer = "none" /\ session # "open"
    /\ session = "asked" => late = 0
    /\ writer' = "bg"
    /\ late' = IF session = "asked" THEN 1 ELSE 0
    /\ UNCHANGED session

StreamStart ==
    /\ writer = "none" /\ session = "open"
    /\ writer' = "stream"
    /\ UNCHANGED <<session, late>>

Finish ==
    /\ writer # "none"
    /\ writer' = "none"
    /\ UNCHANGED <<session, late>>

Ask ==
    /\ session = "closed"
    /\ session' = "asked" /\ late' = 0
    /\ UNCHANGED writer

Grant ==
    /\ session = "asked" /\ writer = "none"
    /\ session' = "open" /\ late' = 0
    /\ UNCHANGED writer

GiveUp ==
    /\ session = "asked"
    /\ session' = "closed" /\ late' = 0
    /\ UNCHANGED writer

Close ==
    /\ session = "open" /\ writer = "none"
    /\ session' = "closed"
    /\ UNCHANGED <<writer, late>>

Next == BackgroundStart \/ StreamStart \/ Finish \/ Ask \/ Grant \/ GiveUp \/ Close

Spec == Init /\ [][Next]_vars
=============================================================================

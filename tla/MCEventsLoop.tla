---------------------------- MODULE MCEventsLoop ----------------------------
(* Instances of EventsLoop for TLC.                                        *)
EXTENDS EventsLoop
=============================================================================

---------------------------- MODULE MCControlLink ----------------------------
(* A small instance of ControlLink: two bytes of payload in a command, so    *)
(* that a whole false header fits between two real ones, and one in a        *)
(* status; one message in flight to either end (a greeting and, before it,   *)
(* the rest of a command cut behind its second byte make two to the          *)
(* antenna); alarms for a second after a move of the servo, which with the   *)
(* second of the wait behind them last as long as the timeout.               *)
EXTENDS ControlLink

MCPayloadLen == [antenna |-> 2, station |-> 1]

MCMaxFrames == [e \in Ends |-> 1]
=============================================================================

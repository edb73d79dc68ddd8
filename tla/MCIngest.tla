------------------------------ MODULE MCIngest ------------------------------
(* Small instances of Ingest for TLC. *)
EXTENDS Ingest

CONSTANTS d1, d2

Msg(seq, kind, stamped, named, ahead, created) ==
    [seq |-> seq, dev |-> d1, kind |-> kind, parses |-> TRUE, stamped |-> stamped,
     named |-> named, signed |-> TRUE, ahead |-> ahead, created |-> created]

\* First a reading with the device's timestamp, ahead by more than the skew, or an event
\* that gets its timestamp, identifier and date on arrival, so that a repeat differs from
\* the first delivery; then a reading that gets its timestamp on arrival from a device whose
\* clock is behind, an event that carries all three, or a status.
Mixed == {Msg(1, "telemetry", TRUE, FALSE, 2, 0), Msg(1, "event", FALSE, FALSE, 0, 0),
          Msg(2, "telemetry", FALSE, FALSE, -1, 0), Msg(2, "event", TRUE, TRUE, 0, 2),
          Msg(2, "status", TRUE, FALSE, 0, 0)}

\* Two events without identifiers and one with it.
Events == {Msg(1, "event", TRUE, FALSE, 0, 0), Msg(2, "event", TRUE, FALSE, 0, 0),
           Msg(3, "event", FALSE, TRUE, 0, 0)}
=============================================================================

---------------------------- MODULE MCIrrigation ----------------------------
(***************************************************************************)
(* Irrigation with the threshold and the step of the source, a reset to    *)
(* 480 and not to 900, which leaves seven steps of the mock's cycle out,   *)
(* and a handful of commands: one, two of a later second, and one whose    *)
(* threshold does not fit a uint16_t.                                      *)
(***************************************************************************)
EXTENDS Irrigation

Cmd(ts, low) == [timestamp |-> ts, threshold |-> low]

MCCommands == {Cmd(1, 250), Cmd(2, 0), Cmd(2, 1000), Cmd(3, 65536)}

=============================================================================

---------------------------- MODULE MCUiMessages ----------------------------
(* UiMessages on a small instance. *)
EXTENDS UiMessages

CONSTANTS timer, direct

TwoPolls == {timer, direct}

=============================================================================

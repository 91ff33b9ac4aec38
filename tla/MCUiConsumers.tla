--------------------------- MODULE MCUiConsumers ---------------------------
(* UiConsumers on a small instance. *)
EXTENDS UiConsumers, TLC

CONSTANTS k1, k2, s1, s2

\* From one to the other, one consumer is edited and one is removed; an update
\* to the same configuration leaves both as they are.
SmallSubmitted == {k1 :> s1 @@ k2 :> s1, k1 :> s2 @@ k2 :> None}

=============================================================================

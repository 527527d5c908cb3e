----------------------------- MODULE MCCallTask -----------------------------
(* Small instances of CallTask for TLC. *)
EXTENDS CallTask

MCOneEach == [a \in 1..NAgent |-> a]

=============================================================================

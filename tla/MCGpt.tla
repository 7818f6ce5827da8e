--------------------------------- MODULE MCGpt ---------------------------------
(* Instances of the timers for TLC. *)
EXTENDS Gpt

TwoTimers == {"GPT0", "GPT1"}
BothClamps == {0, 9}
=============================================================================

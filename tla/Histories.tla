------------------------------ MODULE Histories ------------------------------
(* What a state becomes under a sequence of events.                            *)
EXTENDS Integers, Sequences

(* The state after each number of events, from the start on.  The set of the   *)
(* one state before lets TLC evaluate that state once, however often step      *)
(* names it.                                                                   *)
StatesAfter(step(_, _), start, events) ==
  LET after[n \in 0..Len(events)] ==
        IF n = 0 THEN start
        ELSE CHOOSE s \in {step(before, events[n]) : before \in {after[n - 1]}} : TRUE
  IN  after

StateAfter(step(_, _), start, events) == StatesAfter(step, start, events)[Len(events)]
=============================================================================

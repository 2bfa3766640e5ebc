---------------------------- MODULE RestartDelay ----------------------------
(***************************************************************************)
(* How long a restart is delayed (restart.rs).  The code computes with     *)
(* f64: a power that is too large becomes infinite, 0 times that is not a  *)
(* number, which `min` ignores, and the conversion to u64 makes negative   *)
(* numbers 0.  Here floats are integers up to FloatMax, and multipliers    *)
(* are whole.                                                              *)
(***************************************************************************)
EXTENDS Integers

CONSTANT FloatMax

ASSUME FloatMaxAssumption == FloatMax \in Nat \ {0}

Infinity == FloatMax + 1

(* The strategies of RestartDelay. *)
Never == [strategy |-> "never"]
Constant(delay_ms) == [strategy |-> "constant", delay_ms |-> delay_ms]
ExponentialBackoff(initial_delay_ms, max_delay_ms, multiplier) ==
    [strategy |-> "exponential_backoff", initial_delay_ms |-> initial_delay_ms,
     max_delay_ms |-> max_delay_ms, multiplier |-> multiplier]

(* With their fields; a u64 is far below the largest f64. *)
RestartDelays ==
    [strategy : {"never"}]
       \cup [strategy : {"constant"}, delay_ms : Nat]
       \cup [strategy : {"exponential_backoff"}, initial_delay_ms : Nat,
             max_delay_ms : 0..FloatMax, multiplier : Int]

IsNever(s) == s.strategy = "never"

Rounded(x) ==
    IF x > FloatMax THEN Infinity ELSE IF x < -FloatMax THEN -Infinity ELSE x

(* f64::powi *)
Powi(m, k) ==
    LET power[i \in 0..k] == IF i = 0 THEN 1 ELSE Rounded(m * power[i - 1])
    IN power[k]

(* Mutant: the delay is not capped. *)
Scaled_Uncapped(s, factor) == Rounded(s.initial_delay_ms * factor)

(* initial_delay_ms * factor, capped; 0 times infinity is not a number. *)
Scaled(s, factor) ==
    LET ms == Rounded(s.initial_delay_ms * factor) IN
    IF \/ s.initial_delay_ms = 0 /\ factor \in {Infinity, -Infinity}
       \/ ms > s.max_delay_ms
    THEN s.max_delay_ms ELSE ms

(* delay_for the attempt-th restart in a row, counted from 1. *)
DelayFor(s, attempt) ==
    CASE s.strategy = "never" -> 0
      [] s.strategy = "constant" -> s.delay_ms
      [] OTHER ->
            LET ms == Scaled(s, Powi(s.multiplier, attempt - 1))
            IN IF ms < 0 THEN 0 ELSE ms
=============================================================================

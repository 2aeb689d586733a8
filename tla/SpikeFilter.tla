---------------------------- MODULE SpikeFilter ----------------------------
(***************************************************************************)
(* The filter that keeps spikes out of a signal: an input far from the     *)
(* last accepted one is rejected, unless enough inputs in a row were       *)
(* rejected that are near each other; these are taken for a step.  The     *)
(* warning after many rejections is left out: it rejects as well.  An      *)
(* input that is not a number is refused, and the filter keeps its state.  *)
(***************************************************************************)
EXTENDS Integers

CONSTANTS
    count_limit_to_accept,
    reject_threshold,
    amplitude_limit_to_accept_as_step,
    NotANumber

ASSUME SpikeFilterAssumption ==
    /\ count_limit_to_accept \in Nat
    /\ reject_threshold \in Nat
    /\ amplitude_limit_to_accept_as_step \in Nat
    /\ NotANumber \notin Int

Distance(a, b) == IF a < b THEN b - a ELSE a - b

SpikeFilterOf(Value) ==
    [last_accept : Value, last_reject : Value, count_to_accept : 0 .. count_limit_to_accept]

SPIKE_FILTER_reset == [last_accept |-> 0, last_reject |-> 0, count_to_accept |-> 0]

\* Variant: enough rejections do not end the rejecting.
IsSpike_NoStep(filter, input) == Distance(input, filter.last_accept) > reject_threshold

IsSpike(filter, input) ==
    /\ Distance(input, filter.last_accept) > reject_threshold
    /\ filter.count_to_accept < count_limit_to_accept

Accept(input) == [last_accept |-> input, last_reject |-> input, count_to_accept |-> 0]

\* Spikes that differ from each other do not make a step.
Reject(filter, input) ==
    [filter EXCEPT
        !.last_reject = input,
        !.count_to_accept =
            IF Distance(input, filter.last_reject) > amplitude_limit_to_accept_as_step
            THEN 0
            ELSE @ + 1]

IsAccepted(filter, input) == input # NotANumber /\ ~IsSpike(filter, input)

SPIKE_FILTER_calc_output(filter, input) ==
    IF input = NotANumber THEN filter
    ELSE IF IsSpike(filter, input) THEN Reject(filter, input)
    ELSE Accept(input)
=============================================================================

------------------------------ MODULE MCCounters ------------------------------
(* Counters on every file of at most four characters.                       *)
EXTENDS Counters, SequencesExt

CONSTANTS a, b

MCInputs == BoundedSeq({a, b, Space, NewLine}, 4)

MCShortInputs == BoundedSeq({a, b, Space}, 3)

(* A word, a repeated letter, and no word at all. *)
MCWords == {<<a, b>>, <<a, a>>, << >>}

MCOneWord == {<<a, b>>}

===============================================================================

--------------------------- MODULE CircuitBreaker ---------------------------
(***************************************************************************)
(* What circuit breakers promise, each to the calls of one provider, with a  *)
(* clock that needs nobody to look at it: a circuit is closed until          *)
(* Threshold failures in a row, then open; an open circuit cools down,        *)
(* however often it is asked for or fails meanwhile; and once it has cooled   *)
(* one failure opens it again.                                               *)
(***************************************************************************)
EXTENDS Integers

CONSTANTS Circuit, Threshold

VARIABLES mode, failures    \* of each circuit

vars == <<mode, failures>>

Init ==
    /\ mode = [b \in Circuit |-> "closed"]
    /\ failures = [b \in Circuit |-> 0]

Succeed(b) == mode'[b] = "closed" /\ failures'[b] = 0

(* Failures are counted up to the threshold.  A call that was let in earlier    *)
(* may fail while the circuit is open.                                       *)
Fail(b) ==
    /\ failures'[b] = IF failures[b] < Threshold THEN failures[b] + 1 ELSE failures[b]
    /\ mode'[b] = IF mode[b] = "half_open" \/ failures'[b] = Threshold
                  THEN "open" ELSE mode[b]

Cool(b) == mode[b] = "open" /\ mode'[b] = "half_open" /\ failures'[b] = failures[b]

Rest(b) == mode'[b] = mode[b] /\ failures'[b] = failures[b]

(* The clock may end several cooldowns at once. *)
Next == \A b \in Circuit : Succeed(b) \/ Fail(b) \/ Cool(b) \/ Rest(b)

(* No circuit stays open for ever. *)
Cools == \A b \in Circuit : mode[b] = "open" ~> mode[b] # "open"

Spec == Init /\ [][Next]_vars /\ Cools
=============================================================================

------------------------------- MODULE Cadence -------------------------------
(***************************************************************************)
(* AdaptivePartialCadence of src/app/audio/endpoint.py: how much audio has *)
(* to arrive before the next partial, in milliseconds.  A cadence is a      *)
(* record of _interval_ms and _next_audio_ms.                               *)
(***************************************************************************)
EXTENDS Integers

CONSTANTS Initial, Minimum, Maximum \* initial_ms, minimum_ms, maximum_ms

ASSUME CadenceAssumption ==
  /\ {Initial, Minimum, Maximum} \subseteq Nat \ {0}
  /\ Minimum <= Initial /\ Initial <= Maximum

FreshCadence == [interval |-> Initial, next |-> Initial]

AtLeast(a, b) == IF a < b THEN b ELSE a
AtMost(a, b)  == IF a < b THEN a ELSE b

\* Python's round of num/den: to the nearest integer, halves to the even one.
Rounded(num, den) ==
  LET low == num \div den
      twice == 2 * (num % den)
  IN IF twice < den \/ (twice = den /\ low % 2 = 0) THEN low ELSE low + 1

\* changed_shrink is 0.8, unchanged_growth 1.5.
Scaled(ms, changed) == IF changed THEN Rounded(4 * ms, 5) ELSE Rounded(3 * ms, 2)

Due(cadence, audio) == audio >= cadence.next

Marked(cadence, audio) == [cadence EXCEPT !.next = audio + cadence.interval]

Bounded(ms) == AtMost(Maximum, AtLeast(Minimum, ms))

Observed(cadence, changed, audio) ==
  LET interval == Bounded(Scaled(cadence.interval, changed))
  IN [interval |-> interval, next |-> AtLeast(cadence.next, audio + interval)]
=============================================================================

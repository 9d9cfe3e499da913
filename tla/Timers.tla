------------------------------- MODULE Timers -------------------------------
(* Timers of code that keeps a start stamp and compares now - start with a   *)
(* limit: the ticks since the start, saturating just past the limit.         *)
EXTENDS Integers

Off == -1                                       \* a timer that is not running
Started(age)     == IF age = Off THEN 0 ELSE age
Aged(age, limit) == IF age = Off \/ age > limit THEN age ELSE age + 1

=============================================================================

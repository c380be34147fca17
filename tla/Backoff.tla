------------------------------ MODULE Backoff ------------------------------
(***************************************************************************)
(* politeness/backoff.py: how long to wait before asking again.  Pure      *)
(* functions over a policy, used by feed polls, page captures and images.  *)
(* Seconds are naturals and `factor` is a whole number: every factor in    *)
(* config/ is one (2.0 for a feed or a host, 3.0 for a page or an image).  *)
(***************************************************************************)
EXTENDS Integers

\* backoff.Policy, the four numbers one kind of retry moves within.
Policy == [minimum : Nat, maximum : Nat, factor : Nat \ {0}, max_failures : Nat]

\* int(min(max(seconds, minimum), maximum)): the ceiling wins where they cross.
Clamp(seconds, policy) ==
  LET raised == IF seconds < policy.minimum THEN policy.minimum ELSE seconds
  IN  IF raised > policy.maximum THEN policy.maximum ELSE raised

\* Exponential in consecutive failures, from a base the caller names.
IntervalFrom(policy, failures, base) ==
  Clamp(base * policy.factor ^ failures, policy)

\* The default base of backoff.interval is the policy's own minimum.
Interval(policy, failures) == IntervalFrom(policy, failures, policy.minimum)

\* backoff.due_at: the same wait spelled in SQL, least(greatest(...), maximum).
DueAfter(policy, failures) ==
  LET grown    == policy.minimum * policy.factor ^ failures
      greatest == IF grown >= policy.minimum THEN grown ELSE policy.minimum
  IN  IF greatest <= policy.maximum THEN greatest ELSE policy.maximum
=============================================================================

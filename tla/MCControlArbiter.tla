--------------------------- MODULE MCControlArbiter ---------------------------
(* Instances of ControlArbiter for TLC: two subscriptions, two sizes, up to three commands.  A  *)
(* scenario is what one behaviour may contain, so that a run covers several small environments *)
(* instead of their product.                                                                   *)
EXTENDS ControlArbiter, TLC

CONSTANTS s1, s2, small, large

SubSymmetry == Permutations(Subs)

Calm == [kinds |-> {"focus", "blur", "input"}, sizes |-> {small}, jobs |-> 3, late |-> FALSE,
         recoveries |-> 0, expiries |-> 0, refusals |-> 0, failures |-> 0, leaves |-> 0,
         exits |-> 0, disposals |-> 0]
Leaving == [Calm EXCEPT !.leaves = 1, !.expiries = 1]
Sizing == [Calm EXCEPT !.kinds = {"focus", "blur", "resize"}, !.sizes = {small, large}, !.leaves = 1]
Programs == [Calm EXCEPT !.kinds = {"focus", "program"}, !.expiries = 1, !.failures = 1, !.exits = 1]
Recovering == [Calm EXCEPT !.kinds = {"focus", "input"}, !.recoveries = 1, !.expiries = 1]
Refusing == [Calm EXCEPT !.kinds = {"focus", "blur"}, !.leaves = 1, !.refusals = 1]
Disposing == [Calm EXCEPT !.kinds = {"focus", "program"}, !.jobs = 2, !.expiries = 1, !.leaves = 1,
                          !.disposals = 1]
Losing == [Calm EXCEPT !.kinds = {"focus"}, !.jobs = 1, !.expiries = 1, !.leaves = 1]
Typing == [Calm EXCEPT !.kinds = {"focus", "input"}, !.leaves = 1, !.jobs = 4]

SafetyScenarios == {Leaving, Sizing, Programs, Recovering}
LiveScenarios == {Refusing, Disposing}
LosingScenarios == {Losing}
TypingScenarios == {Typing}
===============================================================================

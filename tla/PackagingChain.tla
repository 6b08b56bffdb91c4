--------------------------- MODULE PackagingChain ---------------------------
(***************************************************************************)
(* The contract of the packaging strategy chain (spec.md section 4.4),    *)
(* independent of any tool: per build, NotStarted, then TryingStrategy[i] *)
(* for i along a fixed priority order, ending in Succeeded (the strategy  *)
(* tried last reported success) or AllExhausted (the last strategy, which *)
(* never probes, failed).  A strategy whose capability probe fails is     *)
(* passed over without an attempt (ToolUnavailable).                      *)
(*                                                                         *)
(* `tried` is the history of attempts, each a pair of the strategy and    *)
(* its result; it is what a detailed chain is compared with.              *)
(***************************************************************************)
EXTENDS Naturals, Sequences

CONSTANT Order    \* the strategies, in priority order (a non-empty sequence)

VARIABLES
    phase,    \* "notstarted", "trying", "succeeded", "exhausted"
    next,     \* index in Order of the strategy being tried
    tried     \* the attempts so far: <<strategy, "ok" | "fail">>

avars == <<phase, next, tried>>

N == Len(Order)

Init ==
    /\ phase = "notstarted"
    /\ next = 1
    /\ tried = <<>>

(* The staging tree is ready: the chain starts with the first strategy. *)
Begin ==
    /\ phase = "notstarted"
    /\ phase' = "trying"
    /\ UNCHANGED <<next, tried>>

(* The probe of strategy `next` (or of more than one) fails: the chain    *)
(* moves on without an attempt, never past the last strategy.             *)
Skip ==
    /\ phase = "trying"
    /\ next' \in (next + 1)..N
    /\ UNCHANGED <<phase, tried>>

(* The current strategy produces its artifact: the first success ends   *)
(* the chain.                                                              *)
Succeed ==
    /\ phase = "trying"
    /\ tried' = Append(tried, <<Order[next], "ok">>)
    /\ phase' = "succeeded"
    /\ UNCHANGED next

(* The current strategy fails: a later one is tried, or, after the last, *)
(* the chain is exhausted.                                                 *)
Fail ==
    /\ phase = "trying"
    /\ tried' = Append(tried, <<Order[next], "fail">>)
    /\ \/ next' \in (next + 1)..N /\ UNCHANGED phase
       \/ next = N /\ phase' = "exhausted" /\ UNCHANGED next

Next == Begin \/ Skip \/ Succeed \/ Fail

Spec == Init /\ [][Next]_avars
=============================================================================

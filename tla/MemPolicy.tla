----------------------------- MODULE MemPolicy -----------------------------
(***************************************************************************)
(* The memory policies the tests put between the program and the allocator *)
(* (libchula-qa/mem_mgr.c): one that counts the calls, and one that makes  *)
(* a stretch of them fail.  A frozen manager lets every call pass.         *)
(***************************************************************************)
EXTENDS Naturals

CONSTANT MaxCalls  \* bound: where the counter of a schedule stops

ASSUME MaxCallsAssumption == MaxCalls \in Nat

\* chula_mem_policy_counter_init
Counter == [n_malloc |-> 0, n_realloc |-> 0, n_free |-> 0]

\* chula_mem_policy_sched_fail_init
SchedFail(fail_after, recover_after) ==
  [counter |-> 0, fail_after |-> fail_after, recover_after |-> recover_after]

Counts(policy) == "n_malloc" \in DOMAIN policy

\* The policy when a function of the allocator has been called, by its name.
Called(policy, frozen, function) ==
  CASE frozen -> policy
    [] ~frozen /\ Counts(policy) -> [policy EXCEPT ![function] = @ + 1]
    [] ~frozen /\ ~Counts(policy) ->
         [policy EXCEPT !.counter = IF @ < MaxCalls THEN @ + 1 ELSE @]

\* Whether the call the policy has just counted is refused.
Refused(policy, frozen) ==
  /\ ~frozen /\ ~Counts(policy)
  /\ policy.counter > policy.fail_after
  /\ policy.counter - policy.fail_after <= policy.recover_after

\* A malloc or realloc, and a free when there is something to be freed.
Alloc(policy, frozen, function) ==
  LET called == Called(policy, frozen, function)
  IN  [policy |-> called, ok |-> ~Refused(called, frozen)]

Freed(policy, frozen, there) == IF there THEN Called(policy, frozen, "n_free") ELSE policy
=============================================================================

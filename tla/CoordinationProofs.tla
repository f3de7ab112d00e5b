-------------------------- MODULE CoordinationProofs --------------------------
(***************************************************************************)
(* Proofs about Coordination: the bookkeeping of a workflow, for every     *)
(* number of calls; the verdict of a handshake, for every fleet and every  *)
(* train of releases; and the fleet it leaves, when each upgrade is        *)
(* decided by the contract that is upgraded.  Last, what runs out in a     *)
(* handshake: the ground on which it ends.                                 *)
(***************************************************************************)
EXTENDS Coordination, VecOpsProofs, FiniteSetTheorems, TLAPS

-----------------------------------------------------------------------------
(* A workflow *)

WorkflowInv ==
  /\ WorkflowTypeOK
  /\ NothingHalfDone
  /\ phase = "failed" => called > 0

\* The compensation stack after `n` calls that left something behind.
Registered(n) == [i \in 1 .. n |-> i]

\* The host's and the caller's bookkeeping starts empty.
LEMMA WorkflowStarts == WorkflowInit => WorkflowInv
  BY StepsAssumption DEF WorkflowInit, WorkflowInv, WorkflowTypeOK, NothingHalfDone, OwedIsRegistered, Fresh

\* A workflow that has made no call owes nothing.
LEMMA NewOwesNothing == WorkflowInv /\ New => WorkflowInv'
<1> SUFFICES ASSUME WorkflowInv, New
             PROVE  WorkflowInv'
  OBVIOUS
<1>1. compensationStack' = Registered(0)
  BY DEF New, Registered
<1>2. WorkflowTypeOK'
  BY StepsAssumption DEF New, WorkflowTypeOK, Fresh
<1>3. OwedIsRegistered'
  <2>1. Standing' = 0 /\ Len(undone') = 0 /\ undone' = << >> /\ effects' = Fresh /\ compensationStack' = Registered(0)
    BY <1>1 DEF New, Standing
  <2>2. Len(undone') <= Standing' /\ Standing' - Len(undone') = 0 /\ undone' = [i \in 1 .. Len(undone') |-> Standing' + 1 - i]
    BY <2>1
  <2>3. \A s \in 1 .. Steps : /\ s <= Standing' - Len(undone') => effects'[s] = "done"
                              /\ s > Standing' <=> effects'[s] = "none"
    BY <2>1, <2>2, StepsAssumption DEF Fresh
  <2> QED
    BY <2>1, <2>2, <2>3 DEF OwedIsRegistered, Registered
<1> QED
  BY <1>2, <1>3 DEF New, WorkflowInv, NothingHalfDone

\* Registering the next call extends the stack by its number.
LEMMA RegisterNext ==
  ASSUME NEW n \in Nat
  PROVE  Append(Registered(n), n + 1) = Registered(n + 1)
  BY DEF Registered

\* What the invariant says while no call has failed.
LEMMA RunningOwes ==
  ASSUME WorkflowInv, phase = "running"
  PROVE  /\ called \in Nat /\ Steps \in Nat /\ called <= Steps /\ undone = << >>
         /\ compensationStack = Registered(called)
         /\ effects \in [1 .. Steps -> { "none", "done", "undone" }]
         /\ \A s \in 1 .. Steps : effects[s] = IF s <= called THEN "done" ELSE "none"
<1>1. called \in Nat /\ Steps \in Nat /\ called <= Steps /\ undone = << >>
  BY StepsAssumption DEF WorkflowInv, WorkflowTypeOK, NothingHalfDone
<1>2. Standing = called /\ Standing - Len(undone) = called
  BY <1>1 DEF Standing
<1> QED
  BY <1>1, <1>2 DEF WorkflowInv, WorkflowTypeOK, NothingHalfDone, OwedIsRegistered, Registered

\* A call registers its compensation exactly when the callee's work stands.
LEMMA CallRegisters ==
  ASSUME WorkflowInv, NEW answer \in Replies, Call(answer)
  PROVE  WorkflowInv'
<1> DEFINE status == SafeInvoke(answer)
<1>1. RequiresRollback(status) <=> answer = "Err"
  BY DEF Replies, SafeInvoke, RequiresRollback
<1>2. phase = "running" /\ called < Steps
  BY DEF Call
<1>3. /\ called \in Nat /\ Steps \in Nat /\ undone = << >>
      /\ compensationStack = Registered(called)
      /\ effects \in [1 .. Steps -> { "none", "done", "undone" }]
      /\ \A s \in 1 .. Steps : effects[s] = IF s <= called THEN "done" ELSE "none"
  BY <1>2, RunningOwes
<1>4. called' = called + 1 /\ undone' = << >>
  BY <1>3 DEF Call
<1>6. CASE answer = "Err"
  <2>1. phase' = "failed" /\ compensationStack' = compensationStack /\ effects' = effects
    BY <1>1, <1>6 DEF Call
  <2>2. Standing' = called /\ Standing' - Len(undone') = called
    BY <2>1, <1>3, <1>4 DEF Standing
  <2>3. undone' = [i \in 1 .. Len(undone') |-> Standing' + 1 - i]
    BY <1>4
  <2>4. OwedIsRegistered'
    BY <2>1, <2>2, <2>3, <1>3, <1>4 DEF OwedIsRegistered, Registered
  <2>5. WorkflowTypeOK'
    BY <2>1, <1>2, <1>3, <1>4 DEF WorkflowTypeOK, WorkflowInv
  <2> QED
    BY <2>1, <2>4, <2>5, <1>3, <1>4 DEF WorkflowInv, NothingHalfDone
<1>7. CASE answer # "Err"
  <2>1. /\ phase' = "running"
        /\ compensationStack' = Append(compensationStack, called + 1)
        /\ effects' = [effects EXCEPT ![called + 1] = "done"]
    BY <1>1, <1>7, <1>2 DEF Call
  <2>2. compensationStack' = Registered(called')
    BY <2>1, <1>3, <1>4, RegisterNext
  <2>3. \A s \in 1 .. Steps : effects'[s] = IF s <= called' THEN "done" ELSE "none"
    BY <2>1, <1>2, <1>3, <1>4
  <2>4. OwedIsRegistered'
    <3>1. Standing' = called' /\ Standing' - Len(undone') = called'
      BY <2>1, <1>3, <1>4 DEF Standing
    <3>2. undone' = [i \in 1 .. Len(undone') |-> Standing' + 1 - i]
      BY <1>4
    <3> QED
      BY <2>1, <2>2, <2>3, <3>1, <3>2, <1>3, <1>4 DEF OwedIsRegistered, Registered
  <2>5. WorkflowTypeOK'
    <3>1. compensationStack' \in Seq(1 .. Steps)
      BY <2>1, <1>2, <1>3 DEF WorkflowTypeOK, WorkflowInv
    <3>2. effects' \in [1 .. Steps -> { "none", "done", "undone" }]
      BY <2>1, <1>2, <1>3
    <3> QED
      BY <3>1, <3>2, <2>1, <1>2, <1>3, <1>4 DEF WorkflowTypeOK, WorkflowInv
  <2> QED
    BY <2>1, <2>4, <2>5, <1>3, <1>4 DEF WorkflowInv, NothingHalfDone
<1> QED
  BY <1>6, <1>7

\* What the invariant says from the failure to the end of the rollback.
LEMMA FailedOwes ==
  ASSUME WorkflowInv, phase = "failed"
  PROVE  /\ called \in Nat /\ called > 0 /\ Steps \in Nat /\ called <= Steps /\ Standing = called - 1
         /\ Len(undone) \in Nat /\ Len(undone) <= Standing
         /\ compensationStack = Registered(Standing - Len(undone))
         /\ undone \in Seq(1 .. Steps) /\ undone = [i \in 1 .. Len(undone) |-> Standing + 1 - i]
         /\ effects \in [1 .. Steps -> { "none", "done", "undone" }]
         /\ \A s \in 1 .. Steps : /\ s <= Standing - Len(undone) => effects[s] = "done"
                                  /\ s > Standing <=> effects[s] = "none"
<1>1. called \in Nat /\ called > 0 /\ Steps \in Nat /\ called <= Steps /\ Standing = called - 1
  BY StepsAssumption DEF WorkflowInv, WorkflowTypeOK, Standing
<1>2. undone \in Seq(1 .. Steps) /\ Len(undone) \in Nat
  BY DEF WorkflowInv, WorkflowTypeOK
<1> QED
  BY <1>1, <1>2 DEF WorkflowInv, WorkflowTypeOK, NothingHalfDone, OwedIsRegistered, Registered

\* A stack's top, and what is left without it.
LEMMA PopNewest ==
  ASSUME NEW n \in Nat, n > 0
  PROVE  Last(Registered(n)) = n /\ Front(Registered(n)) = Registered(n - 1)
<1>1. Len(Registered(n)) = n /\ Registered(n) \in Seq(Nat)
  BY DEF Registered
<1>2. Last(Registered(n)) = n
  BY <1>1 DEF Last, Registered
<1>3. Front(Registered(n)) = [i \in 1 .. n - 1 |-> i]
  BY <1>1 DEF Front, Registered
<1> QED
  BY <1>2, <1>3 DEF Registered

\* A turn of the rollback undoes the newest call that is owed, or fails to, and
\* goes on.
LEMMA RollbackUndoes ==
  ASSUME WorkflowInv, NEW refused \in BOOLEAN, RollbackNext(refused)
  PROVE  WorkflowInv'
<1>1. phase = "failed" /\ phase' = "failed" /\ called' = called /\ Standing' = Standing
  BY DEF RollbackNext, Standing
<1>2. /\ called \in Nat /\ called > 0 /\ Steps \in Nat /\ called <= Steps /\ Standing = called - 1
      /\ Len(undone) \in Nat /\ Len(undone) <= Standing
      /\ compensationStack = Registered(Standing - Len(undone))
      /\ undone \in Seq(1 .. Steps) /\ undone = [i \in 1 .. Len(undone) |-> Standing + 1 - i]
      /\ effects \in [1 .. Steps -> { "none", "done", "undone" }]
      /\ \A s \in 1 .. Steps : /\ s <= Standing - Len(undone) => effects[s] = "done"
                               /\ s > Standing <=> effects[s] = "none"
  BY <1>1, FailedOwes
<1>3. PICK n \in Nat : n = Standing - Len(undone)
  <2>1. Standing \in Nat /\ Len(undone) \in Nat /\ Len(undone) <= Standing
    BY <1>2
  <2> QED
    BY <2>1
<1>4. n > 0
  <2>1. n = 0 => Registered(n) = << >>
    BY DEF Registered
  <2> QED
    BY <2>1, <1>2, <1>3 DEF RollbackNext
<1>5. Last(compensationStack) = n /\ compensationStack' = Registered(n - 1)
  BY <1>2, <1>3, <1>4, PopNewest DEF RollbackNext
<1>6. n \in 1 .. Steps /\ n <= Standing /\ n = Standing + 1 - (Len(undone) + 1)
  BY <1>2, <1>3, <1>4
<1>7. undone' = Append(undone, n)
  BY <1>5 DEF RollbackNext
<1>8. effects' = IF refused THEN effects ELSE [effects EXCEPT ![n] = "undone"]
  BY <1>5 DEF RollbackNext
<1>9. undone' \in Seq(1 .. Steps) /\ Len(undone') = Len(undone) + 1
  BY <1>2, <1>6, <1>7
<1>10. undone' = [i \in 1 .. Len(undone') |-> Standing + 1 - i]
  <2>1. \A i \in 1 .. Len(undone) + 1 : undone'[i] = Standing + 1 - i
    BY <1>2, <1>6, <1>7
  <2> QED
    BY <2>1, <1>9
<1>11. Standing - Len(undone') = n - 1 /\ Len(undone') <= Standing
  BY <1>2, <1>3, <1>4, <1>9
<1>12. effects' \in [1 .. Steps -> { "none", "done", "undone" }]
  BY <1>2, <1>6, <1>8
<1>13. \A s \in 1 .. Steps : /\ s <= n - 1 => effects'[s] = "done"
                             /\ s > Standing <=> effects'[s] = "none"
  <2> SUFFICES ASSUME NEW s \in 1 .. Steps
               PROVE  /\ s <= n - 1 => effects'[s] = "done"
                      /\ s > Standing <=> effects'[s] = "none"
    OBVIOUS
  <2>1. CASE s = n
    <3>1. effects[s] # "none" /\ ~ (s > Standing)
      BY <2>1, <1>2, <1>6
    <3>2. effects'[s] = effects[s] \/ effects'[s] = "undone"
      BY <2>1, <1>2, <1>6, <1>8
    <3> QED
      BY <2>1, <3>1, <3>2, <1>6
  <2>2. CASE s # n
    <3>1. effects'[s] = effects[s]
      BY <2>2, <1>2, <1>8
    <3> QED
      BY <3>1, <1>2, <1>3, <1>4
  <2> QED
    BY <2>1, <2>2
<1>14. OwedIsRegistered'
  <2>1. compensationStack' = [i \in 1 .. n - 1 |-> i]
    BY <1>5 DEF Registered
  <2> QED
    BY <1>1, <2>1, <1>10, <1>11, <1>13 DEF OwedIsRegistered
<1>15. compensationStack' \in Seq(1 .. Steps)
  <2>1. Steps \in Nat /\ n - 1 \in Nat /\ \A i \in 1 .. n - 1 : i \in 1 .. Steps
    BY <1>2, <1>6
  <2> QED
    BY <1>5, <2>1 DEF Registered
<1>16. WorkflowTypeOK'
  BY <1>1, <1>2, <1>9, <1>12, <1>15 DEF WorkflowTypeOK
<1> QED
  BY <1>1, <1>2, <1>14, <1>16 DEF WorkflowInv, NothingHalfDone

\* The loop ends when nothing is owed any more.
LEMMA RollbackEnds ==
  ASSUME WorkflowInv, RollbackDone
  PROVE  WorkflowInv'
<1>1. /\ phase = "failed" /\ phase' = "rolled_back" /\ compensationStack = << >>
      /\ UNCHANGED << called, compensationStack, effects, undone >>
  BY DEF RollbackDone
<1>2. /\ called \in Nat /\ Standing = called - 1 /\ called > 0
      /\ Len(undone) \in Nat /\ Len(undone) <= Standing
      /\ compensationStack = Registered(Standing - Len(undone))
  BY <1>1, FailedOwes
<1>3. Standing' = Standing
  BY <1>1 DEF Standing
<1>4. PICK n \in Nat : n = Standing - Len(undone)
  BY <1>2
<1>5. n = 0
  <2>1. Len(Registered(n)) = n
    BY DEF Registered
  <2> QED
    BY <2>1, <1>1, <1>2, <1>4
<1>6. Len(undone) = Standing
  BY <1>2, <1>4, <1>5
<1>7. OwedIsRegistered'
  BY <1>1, <1>3 DEF OwedIsRegistered, WorkflowInv, NothingHalfDone
<1>8. WorkflowTypeOK'
  BY <1>1 DEF WorkflowTypeOK, WorkflowInv
<1> QED
  BY <1>1, <1>3, <1>6, <1>7, <1>8 DEF WorkflowInv, NothingHalfDone

\* The three ways a transaction is left.
LEMMA EndingKeepsWorkflow ==
  ASSUME WorkflowInv, Finalize \/ ReturnErr \/ EndWorkflow
  PROVE  WorkflowInv'
<1>1. CASE Finalize
  <2>1. phase = "running" /\ called = Steps /\ phase' = "finalized" /\ compensationStack' = << >>
        /\ UNCHANGED << called, effects, undone >>
    BY <1>1 DEF Finalize
  <2>2. Steps \in Nat /\ \A s \in 1 .. Steps : effects[s] = "done"
    BY <2>1, RunningOwes
  <2> QED
    BY <2>1, <2>2 DEF WorkflowInv, WorkflowTypeOK, NothingHalfDone, OwedIsRegistered
<1>2. CASE ReturnErr
  BY <1>2, StepsAssumption DEF ReturnErr, WorkflowInv, WorkflowTypeOK, NothingHalfDone, OwedIsRegistered, Fresh
<1>3. CASE EndWorkflow
  BY <1>3, StepsAssumption DEF EndWorkflow, WorkflowInv, WorkflowTypeOK, NothingHalfDone, OwedIsRegistered, Fresh
<1> QED
  BY <1>1, <1>2, <1>3

LEMMA WorkflowStutters == WorkflowInv /\ UNCHANGED workflowVars => WorkflowInv'
  BY DEF workflowVars, WorkflowInv, WorkflowTypeOK, NothingHalfDone, OwedIsRegistered, Standing

LEMMA WorkflowInductive == WorkflowInv /\ [Next]_vars => WorkflowInv'
<1> SUFFICES ASSUME WorkflowInv, [Next]_vars
             PROVE  WorkflowInv'
  OBVIOUS
<1>1. CASE Rollout
  BY <1>1, WorkflowStutters DEF Rollout
<1>2. CASE StartWorkflow
  BY <1>2, NewOwesNothing DEF StartWorkflow
<1>3. ASSUME NEW answer \in Replies, CallStep(answer)
      PROVE  WorkflowInv'
  BY <1>3, CallRegisters DEF CallStep
<1>4. ASSUME NEW refused \in BOOLEAN, Rollback(refused)
      PROVE  WorkflowInv'
  BY <1>4, RollbackUndoes DEF Rollback
<1>8. CASE EndRollback
  BY <1>8, RollbackEnds DEF EndRollback
<1>5. CASE FinalizeWorkflow \/ FailWorkflow \/ EndWorkflow
  BY <1>5, EndingKeepsWorkflow DEF FinalizeWorkflow, FailWorkflow
<1>6. CASE UNCHANGED vars
  BY <1>6, WorkflowStutters DEF vars
<1> QED
  BY <1>1, <1>2, <1>3, <1>4, <1>5, <1>6, <1>8 DEF Next, WorkflowStep

\* For any number of calls, whichever of them fail or refuse to be undone, and
\* at every turn of the rollback: what stands is what is registered, and a
\* workflow is left only whole, taken back, or with every compensation invoked,
\* newest first (cross_contract_safety.rs, call and rollback_all).
THEOREM NeverHalfDone == Spec => []NothingHalfDone
<1>1. Init => WorkflowInv
  BY WorkflowStarts DEF Init
<1>2. WorkflowInv => NothingHalfDone
  BY DEF WorkflowInv
<1> QED
  BY <1>1, <1>2, WorkflowInductive, PTL DEF Spec

-----------------------------------------------------------------------------
(* The verdict of one handshake *)

Details == [contract_name : Contracts, reported : Nat, required_min : Nat,
            dimension : { "protocol", "storage", "result_schema", "event" }]

\* The details a peer justifies.
Justified(our, peer) ==
  { detail \in Details :
      CASE detail.dimension = "protocol" ->
             /\ detail.reported < detail.required_min
             /\ \/ detail.contract_name = peer.contract_name /\ detail.reported = peer.protocol
                   /\ detail.required_min = our.min_compatible
                \/ detail.contract_name = our.contract_name /\ detail.reported = our.protocol
                   /\ detail.required_min = peer.min_compatible
        [] detail.dimension = "storage" -> detail.contract_name = peer.contract_name /\ peer.storage # our.storage
        [] detail.dimension = "result_schema" -> detail.contract_name = peer.contract_name /\ peer.schema # our.schema
        [] detail.dimension = "event" -> detail.contract_name = peer.contract_name /\ peer.event # our.event }

\* A test adds at most its one detail.
LEMMA WhenAdds ==
  ASSUME NEW S, NEW condition \in BOOLEAN, NEW detail, condition => detail \in S
  PROVE  /\ When(condition, detail) \in Seq(S)
         /\ When(condition, detail) = << >> <=> ~condition
  BY DEF When

LEMMA ConcatAdds ==
  ASSUME NEW S, NEW s \in Seq(S), NEW t \in Seq(S)
  PROVE  /\ s \o t \in Seq(S)
         /\ s \o t = << >> <=> s = << >> /\ t = << >>
<1>1. s \o t \in Seq(S) /\ Len(s \o t) = Len(s) + Len(t)
  OBVIOUS
<1>2. \A q \in Seq(S) : q = << >> <=> Len(q) = 0
  OBVIOUS
<1>3. Len(s) \in Nat /\ Len(t) \in Nat
  OBVIOUS
<1> QED
  BY <1>1, <1>2, <1>3

\* One turn of the loop finds a detail exactly when the two cannot talk, and
\* every detail it finds is justified.
LEMMA MismatchesMean ==
  ASSUME NEW our \in Infos, NEW peer \in Infos
  PROVE  /\ Mismatches(our, peer) \in Seq(Justified(our, peer))
         /\ Mismatches(our, peer) = << >> <=> Interoperable(our, peer)
<1> DEFINE J  == Justified(our, peer)
           c1 == peer.protocol < our.min_compatible
           c2 == our.protocol < peer.min_compatible
           c3 == peer.storage # our.storage
           c4 == peer.schema # our.schema
           c5 == peer.event # our.event
           d1 == Mismatch(peer.contract_name, peer.protocol, our.min_compatible, "protocol")
           d2 == Mismatch(our.contract_name, our.protocol, peer.min_compatible, "protocol")
           d3 == Mismatch(peer.contract_name, peer.storage, our.storage, "storage")
           d4 == Mismatch(peer.contract_name, peer.schema, our.schema, "result_schema")
           d5 == Mismatch(peer.contract_name, 0, 0, "event")
<1>0. /\ our.contract_name \in Contracts /\ peer.contract_name \in Contracts
      /\ our.protocol \in Nat /\ our.min_compatible \in Nat /\ our.storage \in Nat /\ our.schema \in Nat /\ our.event \in Nat
      /\ peer.protocol \in Nat /\ peer.min_compatible \in Nat /\ peer.storage \in Nat /\ peer.schema \in Nat /\ peer.event \in Nat
  BY DEF Infos
<1>1. c1 => d1 \in J
  BY <1>0 DEF Justified, Details, Mismatch
<1>2. c2 => d2 \in J
  BY <1>0 DEF Justified, Details, Mismatch
<1>3. c3 => d3 \in J
  BY <1>0 DEF Justified, Details, Mismatch
<1>4. c4 => d4 \in J
  BY <1>0 DEF Justified, Details, Mismatch
<1>5. c5 => d5 \in J
  BY <1>0 DEF Justified, Details, Mismatch
<1>b. c1 \in BOOLEAN /\ c2 \in BOOLEAN /\ c3 \in BOOLEAN /\ c4 \in BOOLEAN /\ c5 \in BOOLEAN
  BY <1>0
<1> HIDE DEF J, c1, c2, c3, c4, c5, d1, d2, d3, d4, d5
<1> DEFINE w1 == When(c1, d1)
           w2 == When(c2, d2)
           w3 == When(c3, d3)
           w4 == When(c4, d4)
           w5 == When(c5, d5)
<1>6. w1 \in Seq(J) /\ (w1 = << >> <=> ~c1)
  BY <1>1, <1>b, WhenAdds
<1>7. w2 \in Seq(J) /\ (w2 = << >> <=> ~c2)
  BY <1>2, <1>b, WhenAdds
<1>8. w3 \in Seq(J) /\ (w3 = << >> <=> ~c3)
  BY <1>3, <1>b, WhenAdds
<1>9. w4 \in Seq(J) /\ (w4 = << >> <=> ~c4)
  BY <1>4, <1>b, WhenAdds
<1>10. w5 \in Seq(J) /\ (w5 = << >> <=> ~c5)
  BY <1>5, <1>b, WhenAdds
<1>11. Mismatches(our, peer) = w1 \o w2 \o w3 \o w4 \o w5
  BY DEF Mismatches, c1, c2, c3, c4, c5, d1, d2, d3, d4, d5
<1> HIDE DEF w1, w2, w3, w4, w5
<1>12. w1 \o w2 \in Seq(J) /\ (w1 \o w2 = << >> <=> ~c1 /\ ~c2)
  BY <1>6, <1>7, ConcatAdds
<1>13. w1 \o w2 \o w3 \in Seq(J) /\ (w1 \o w2 \o w3 = << >> <=> ~c1 /\ ~c2 /\ ~c3)
  BY <1>8, <1>12, ConcatAdds
<1>14. w1 \o w2 \o w3 \o w4 \in Seq(J) /\ (w1 \o w2 \o w3 \o w4 = << >> <=> ~c1 /\ ~c2 /\ ~c3 /\ ~c4)
  BY <1>9, <1>13, ConcatAdds
<1>15. w1 \o w2 \o w3 \o w4 \o w5 \in Seq(J) /\ (w1 \o w2 \o w3 \o w4 \o w5 = << >> <=> ~c1 /\ ~c2 /\ ~c3 /\ ~c4 /\ ~c5)
  BY <1>10, <1>14, ConcatAdds
<1>16. (~c1 /\ ~c2 /\ ~c3 /\ ~c4 /\ ~c5) <=> Interoperable(our, peer)
  BY <1>0 DEF Interoperable, c1, c2, c3, c4, c5
<1> QED
  BY <1>11, <1>15, <1>16 DEF J

\* What the loop has made of the peers it has seen.
Judged(our, seen, outcome, mismatches) ==
  /\ outcome = "Incompatible" <=> \E peer \in seen : ~Interoperable(our, peer)
  /\ outcome = "Compatible" <=> \A peer \in seen : Interoperable(our, peer) /\ peer.protocol = our.protocol
  /\ mismatches # << >> <=> outcome = "Incompatible"
  /\ mismatches \in Seq(UNION { Justified(our, peer) : peer \in seen })

\* One turn of the loop judges one peer more.
LEMMA TurnJudges ==
  ASSUME NEW our \in Infos, NEW seen \in SUBSET Infos, NEW peer \in Infos,
         NEW outcome \in Outcomes, NEW mismatches, Judged(our, seen, outcome, mismatches)
  PROVE  /\ Judged(our, seen \cup {peer}, Downgrade(outcome, our, peer), mismatches \o Mismatches(our, peer))
         /\ Downgrade(outcome, our, peer) \in Outcomes
<1> DEFINE more  == Mismatches(our, peer)
           next  == Downgrade(outcome, our, peer)
           old   == UNION { Justified(our, p) : p \in seen }
           wider == UNION { Justified(our, p) : p \in seen \cup {peer} }
<1>1. more \in Seq(Justified(our, peer)) /\ (more = << >> <=> Interoperable(our, peer))
  BY MismatchesMean
<1>2. Justified(our, peer) \subseteq wider /\ old \subseteq wider
  OBVIOUS
<1>3. mismatches \in Seq(old) /\ (mismatches # << >> <=> outcome = "Incompatible")
  BY DEF Judged
<1> HIDE DEF more, old, wider
<1>4. more \in Seq(wider) /\ mismatches \in Seq(wider)
  BY <1>1, <1>2, <1>3
<1>5. mismatches \o more \in Seq(wider) /\ (mismatches \o more = << >> <=> mismatches = << >> /\ more = << >>)
  BY <1>4, ConcatAdds
<1>6. next = "Incompatible" <=> more # << >> \/ outcome = "Incompatible"
  BY DEF Downgrade, more
<1>7. next = "Compatible" <=> more = << >> /\ outcome = "Compatible" /\ peer.protocol = our.protocol
  BY DEF Downgrade, more, Outcomes
<1>8. next = "Incompatible" <=> \E p \in seen \cup {peer} : ~Interoperable(our, p)
  BY <1>1, <1>6 DEF Judged
<1>9. next = "Compatible" <=> \A p \in seen \cup {peer} : Interoperable(our, p) /\ p.protocol = our.protocol
  BY <1>1, <1>7 DEF Judged
<1>10. mismatches \o more # << >> <=> next = "Incompatible"
  BY <1>3, <1>5, <1>6
<1>11. next \in Outcomes
  BY DEF Downgrade, Outcomes
<1> HIDE DEF next
<1>12. Judged(our, seen \cup {peer}, next, mismatches \o more)
  BY <1>5, <1>8, <1>9, <1>10 DEF Judged, wider
<1> QED
  BY <1>11, <1>12 DEF next, more

-----------------------------------------------------------------------------
(* Every handshake *)

Ours == Infos \cup { << >> }

Handshakes == [candidate : Contracts \cup {NoContract}, target : Nat, our : Ours, peers : Seq(Infos),
               checked : Nat, outcome : Outcomes, mismatches : Seq(Details)]

FleetTypeOK ==
  /\ release \in [Contracts -> Places]
  /\ stored \in [Contracts -> Nat]
  /\ paused \in [Contracts -> BOOLEAN]

HandshakeInv ==
  /\ FleetTypeOK
  /\ handshake \in Handshakes
  /\ handshake.checked <= Len(handshake.peers)
  /\ Negotiating => /\ handshake.our \in Infos
                    /\ handshake.target \in Places
                    /\ Judged(handshake.our, Seen, handshake.outcome, handshake.mismatches)

Releases == [protocol : Nat, min_compatible : Nat, storage : Nat, schema : Nat, event : Nat]

LEMMA TrainOfReleases == 1 \in Places /\ \A k \in Places : Train[k] \in Releases
<1>1. Train \in Seq(Releases) /\ Train # << >>
  BY TrainAssumption DEF Releases
<1> QED
  BY <1>1 DEF Places

\* The fields of a handshake, one by one.
LEMMA HandshakeFields ==
  ASSUME handshake \in Handshakes
  PROVE  handshake = [candidate |-> handshake.candidate, target |-> handshake.target, our |-> handshake.our,
                      peers |-> handshake.peers, checked |-> handshake.checked,
                      outcome |-> handshake.outcome, mismatches |-> handshake.mismatches]
  BY DEF Handshakes

\* The answer of a contract, whatever release of the train it runs.
LEMMA AnswersAreInfos ==
  ASSUME FleetTypeOK, NEW c \in Contracts, NEW k \in Places
  PROVE  BuildNegotiationInfo(c, k) \in Infos
<1>1. Train[k] \in Releases
  BY TrainOfReleases
<1>2. stored[c] \in Nat /\ paused[c] \in BOOLEAN
  BY DEF FleetTypeOK
<1>3. (stored[c] # Train[k].storage) \in BOOLEAN
  OBVIOUS
<1> QED
  BY <1>1, <1>2, <1>3 DEF BuildNegotiationInfo, Infos, Releases

LEMMA IdleIsJudged ==
  ASSUME handshake' = Idle, FleetTypeOK'
  PROVE  HandshakeInv'
<1>1. Idle \in Handshakes
  BY DEF Idle, Handshakes, Outcomes, Ours
<1>2. Idle.checked = 0 /\ Idle.peers = << >> /\ Idle.candidate = NoContract
  BY DEF Idle
<1> QED
  BY <1>1, <1>2 DEF HandshakeInv, Negotiating

LEMMA NothingSeenIsJudged ==
  ASSUME NEW our
  PROVE  Judged(our, {}, "Compatible", << >>)
  BY DEF Judged

LEMMA ProposeKeepsHandshake ==
  ASSUME HandshakeInv, NEW c \in Contracts, NEW k \in Places, Propose(c, k)
  PROVE  HandshakeInv'
<1> DEFINE our == BuildNegotiationInfo(HubOf[c], IF HubOf[c] = c THEN k ELSE release[HubOf[c]])
<1>1. our \in Infos
  BY TrainAssumption, AnswersAreInfos DEF HandshakeInv, FleetTypeOK
<1> HIDE DEF our
<1>2. handshake' = [Idle EXCEPT !.candidate = c, !.target = k, !.our = our]
  BY DEF Propose, our
<1>3. handshake' = [candidate |-> c, target |-> k, our |-> our, peers |-> << >>, checked |-> 0,
                    outcome |-> "Compatible", mismatches |-> << >>]
  BY <1>2 DEF Idle
<1>4. handshake' \in Handshakes
  BY <1>1, <1>3 DEF Handshakes, Ours, Outcomes, Places
<1>5. FleetTypeOK'
  BY DEF Propose, fleetVars, HandshakeInv, FleetTypeOK
<1>6. Seen' = {}
  BY <1>3 DEF Seen
<1>7. Judged(handshake'.our, {}, handshake'.outcome, handshake'.mismatches)
  BY <1>3, NothingSeenIsJudged
<1> QED
  BY <1>1, <1>3, <1>4, <1>5, <1>6, <1>7 DEF HandshakeInv

LEMMA CollectKeepsHandshake ==
  ASSUME HandshakeInv, NEW c \in Contracts, Collect(c)
  PROVE  HandshakeInv'
<1>1. Candidacy(c) \in Infos
  BY AnswersAreInfos DEF Collect, Candidacy, Info, HandshakeInv, FleetTypeOK
<1>2. handshake' = [handshake EXCEPT !.peers = Append(@, Candidacy(c))]
  BY DEF Collect
<1>3. handshake.peers \in Seq(Infos) /\ handshake.checked \in Nat /\ handshake \in Handshakes
  BY DEF HandshakeInv, Handshakes
<1>4. handshake' \in Handshakes
  <2>1. handshake' = [candidate |-> handshake.candidate, target |-> handshake.target, our |-> handshake.our,
                      peers |-> Append(handshake.peers, Candidacy(c)), checked |-> handshake.checked,
                      outcome |-> handshake.outcome, mismatches |-> handshake.mismatches]
    BY <1>2, <1>3, HandshakeFields
  <2>2. Append(handshake.peers, Candidacy(c)) \in Seq(Infos)
    BY <1>1, <1>3
  <2>3. /\ handshake.candidate \in Contracts \cup {NoContract} /\ handshake.target \in Nat /\ handshake.our \in Ours
        /\ handshake.checked \in Nat /\ handshake.outcome \in Outcomes /\ handshake.mismatches \in Seq(Details)
    BY <1>3 DEF Handshakes
  <2> QED
    BY <2>1, <2>2, <2>3 DEF Handshakes
<1>5. /\ handshake'.peers = Append(handshake.peers, Candidacy(c))
      /\ handshake'.checked = handshake.checked /\ handshake'.candidate = handshake.candidate
      /\ handshake'.our = handshake.our /\ handshake'.target = handshake.target
      /\ handshake'.outcome = handshake.outcome /\ handshake'.mismatches = handshake.mismatches
  BY <1>2, <1>3 DEF Handshakes
<1>6. handshake.checked <= Len(handshake.peers)
  BY DEF HandshakeInv
<1>7. \A i \in 1 .. handshake.checked : handshake'.peers[i] = handshake.peers[i]
  BY <1>1, <1>3, <1>5, <1>6
<1>8. Seen' = Seen
  BY <1>5, <1>7 DEF Seen
<1>9. FleetTypeOK'
  BY DEF Collect, fleetVars, HandshakeInv, FleetTypeOK
<1>10. Len(handshake'.peers) = Len(handshake.peers) + 1
  BY <1>1, <1>3, <1>5
<1> QED
  BY <1>3, <1>4, <1>5, <1>6, <1>8, <1>9, <1>10 DEF HandshakeInv, Negotiating

LEMMA CheckPeerKeepsHandshake ==
  ASSUME HandshakeInv, CheckPeer
  PROVE  HandshakeInv'
<1> DEFINE peer == handshake.peers[handshake.checked + 1]
<1>1. /\ handshake \in Handshakes /\ handshake.peers \in Seq(Infos) /\ handshake.checked \in Nat
      /\ handshake.outcome \in Outcomes /\ handshake.mismatches \in Seq(Details)
  BY DEF HandshakeInv, Handshakes
<1>2. /\ Negotiating /\ handshake.checked < Len(handshake.peers) /\ handshake.our \in Infos
      /\ handshake.target \in Places
      /\ Judged(handshake.our, Seen, handshake.outcome, handshake.mismatches)
  BY DEF CheckPeer, HandshakeInv
<1>3. peer \in Infos /\ Seen \in SUBSET Infos
  BY <1>1, <1>2 DEF Seen
<1>4. handshake' = [handshake EXCEPT !.checked    = @ + 1,
                                     !.mismatches = @ \o Mismatches(handshake.our, peer),
                                     !.outcome    = Downgrade(@, handshake.our, peer)]
  BY DEF CheckPeer
<1> HIDE DEF peer
<1>5. /\ handshake'.peers = handshake.peers /\ handshake'.our = handshake.our
      /\ handshake'.candidate = handshake.candidate /\ handshake'.target = handshake.target
      /\ handshake'.checked = handshake.checked + 1
      /\ handshake'.mismatches = handshake.mismatches \o Mismatches(handshake.our, peer)
      /\ handshake'.outcome = Downgrade(handshake.outcome, handshake.our, peer)
  BY <1>1, <1>4 DEF Handshakes
<1>6. Seen' = Seen \cup {peer}
  BY <1>1, <1>5 DEF Seen, peer
<1>7. /\ Judged(handshake'.our, Seen', handshake'.outcome, handshake'.mismatches)
      /\ handshake'.outcome \in Outcomes
  BY <1>1, <1>2, <1>3, <1>5, <1>6, TurnJudges
<1>8. Mismatches(handshake.our, peer) \in Seq(Details)
  <2>1. Justified(handshake.our, peer) \subseteq Details
    BY DEF Justified
  <2> QED
    BY <1>2, <1>3, <2>1, MismatchesMean
<1>9. handshake'.mismatches \in Seq(Details)
  BY <1>1, <1>5, <1>8, ConcatAdds
<1>10. handshake' \in Handshakes
  <2>1. handshake' = [candidate |-> handshake.candidate, target |-> handshake.target, our |-> handshake.our,
                      peers |-> handshake.peers, checked |-> handshake.checked + 1,
                      outcome |-> Downgrade(handshake.outcome, handshake.our, peer),
                      mismatches |-> handshake.mismatches \o Mismatches(handshake.our, peer)]
    BY <1>1, <1>4, HandshakeFields
  <2>2. /\ handshake.candidate \in Contracts \cup {NoContract} /\ handshake.target \in Nat /\ handshake.our \in Ours
        /\ handshake.checked + 1 \in Nat
    BY <1>1 DEF Handshakes
  <2>3. /\ Downgrade(handshake.outcome, handshake.our, peer) \in Outcomes
        /\ handshake.mismatches \o Mismatches(handshake.our, peer) \in Seq(Details)
    BY <1>5, <1>7, <1>9
  <2> QED
    BY <1>1, <2>1, <2>2, <2>3 DEF Handshakes
<1>11. FleetTypeOK'
  BY DEF CheckPeer, fleetVars, HandshakeInv, FleetTypeOK
<1> QED
  BY <1>1, <1>2, <1>5, <1>7, <1>10, <1>11 DEF HandshakeInv

\* A contract is migrated or paused: what was collected stays as it was answered.
LEMMA FleetMovesKeepHandshake ==
  ASSUME HandshakeInv, FleetTypeOK', UNCHANGED handshake
  PROVE  HandshakeInv'
  BY DEF HandshakeInv, Negotiating, Seen

LEMMA HandshakeInductive == HandshakeInv /\ [Next]_vars => HandshakeInv'
<1> SUFFICES ASSUME HandshakeInv, [Next]_vars
             PROVE  HandshakeInv'
  OBVIOUS
<1>1. CASE UNCHANGED negotiationVars
  BY <1>1, FleetMovesKeepHandshake DEF negotiationVars, fleetVars, HandshakeInv, FleetTypeOK
<1>2. ASSUME NEW c \in Contracts, NEW k \in Places, Propose(c, k)
      PROVE  HandshakeInv'
  BY <1>2, ProposeKeepsHandshake
<1>3. ASSUME NEW c \in Contracts, Collect(c)
      PROVE  HandshakeInv'
  BY <1>3, CollectKeepsHandshake
<1>4. CASE CheckPeer
  BY <1>4, CheckPeerKeepsHandshake
<1>5. CASE Deploy
  <2>1. FleetTypeOK'
    BY <1>5 DEF Deploy, Concluded, HandshakeInv, FleetTypeOK
  <2> QED
    BY <1>5, <2>1, IdleIsJudged DEF Deploy
<1>6. CASE Block
  BY <1>6, IdleIsJudged DEF Block, fleetVars, HandshakeInv, FleetTypeOK
<1>7. ASSUME NEW c \in Contracts, Migrate(c)
      PROVE  HandshakeInv'
  <2>1. Train[release[c]].storage \in Nat
    BY TrainOfReleases DEF HandshakeInv, FleetTypeOK, Releases
  <2> QED
    BY <1>7, <2>1, FleetMovesKeepHandshake DEF Migrate, HandshakeInv, FleetTypeOK
<1>8. ASSUME NEW c \in Pausable, NEW flag \in BOOLEAN, SetPaused(c, flag)
      PROVE  HandshakeInv'
  BY <1>8, FleetMovesKeepHandshake DEF SetPaused, HandshakeInv, FleetTypeOK
<1> QED
  BY <1>1, <1>2, <1>3, <1>4, <1>5, <1>6, <1>7, <1>8
     DEF Next, Rollout, NegotiationNext, HandshakeStep, StartWorkflow, WorkflowStep, CallStep, Rollback, EndRollback,
         FinalizeWorkflow, FailWorkflow, EndWorkflow, vars

LEMMA HandshakeStarts == Init => HandshakeInv
<1> SUFFICES ASSUME Init
             PROVE  HandshakeInv
  OBVIOUS
<1>1. 1 \in Places /\ Train[1].storage \in Nat
  BY TrainOfReleases DEF Releases
<1>2. FleetTypeOK
  BY <1>1 DEF Init, NegotiationInit, FleetTypeOK
<1>3. handshake = Idle
  BY DEF Init, NegotiationInit
<1>4. Idle \in Handshakes
  BY DEF Idle, Handshakes, Outcomes, Ours
<1>5. Idle.checked = 0 /\ Idle.peers = << >> /\ Idle.candidate = NoContract
  BY DEF Idle
<1> QED
  BY <1>2, <1>3, <1>4, <1>5 DEF HandshakeInv, Negotiating

\* For any fleet, any train of releases and any hub, at every turn of the loop:
\* the verdict is the one the rules of version_negotiation.rs state over the
\* peers seen so far, and every detail blames the contract that is behind.
THEOREM VerdictAlwaysExact == Spec => []VerdictExact
<1>1. HandshakeInv => VerdictExact
  <2> SUFFICES ASSUME HandshakeInv, Negotiating
               PROVE  VerdictExact
    BY DEF VerdictExact
  <2>1. Judged(handshake.our, Seen, handshake.outcome, handshake.mismatches)
    BY DEF HandshakeInv
  <2>2. BlamesTheRightOne
    <3>1. ASSUME NEW i \in 1 .. Len(handshake.mismatches)
          PROVE  \E peer \in Seen : handshake.mismatches[i] \in Justified(handshake.our, peer)
      BY <2>1 DEF Judged
    <3> QED
      BY <3>1 DEF BlamesTheRightOne, Justified
  <2> QED
    BY <2>1, <2>2 DEF VerdictExact, Judged
<1> QED
  BY <1>1, HandshakeStarts, HandshakeInductive, PTL DEF Spec

-----------------------------------------------------------------------------
(* The fleet, when each upgrade is decided by the upgraded contract *)

SelfDecided ==
  /\ HubOf = [c \in Contracts |-> c]
  /\ \A k \in Places : Train[k].protocol >= Train[k].min_compatible

\* What an answer says of the release at place k; the rest of it is the answer
\* of a moment.
Runs(info, k) ==
  /\ info.protocol = Train[k].protocol /\ info.min_compatible = Train[k].min_compatible
  /\ info.schema = Train[k].schema /\ info.event = Train[k].event

FleetInv ==
  /\ HandshakeInv
  /\ FleetInterops
  /\ Negotiating => /\ handshake.our.contract_name = handshake.candidate
                    /\ Runs(handshake.our, handshake.target)
                    /\ \A i \in 1 .. Len(handshake.peers) :
                         /\ handshake.peers[i].contract_name \in Contracts \ {handshake.candidate}
                         /\ Runs(handshake.peers[i], release[handshake.peers[i].contract_name])

LEMMA ProposeKeepsFleet ==
  ASSUME SelfDecided, FleetInv, NEW c \in Contracts, NEW k \in Places, Propose(c, k)
  PROVE  FleetInv'
<1>1. handshake' = [Idle EXCEPT !.candidate = c, !.target = k, !.our = BuildNegotiationInfo(c, k)]
  BY DEF Propose, SelfDecided
<1>2. /\ handshake'.candidate = c /\ handshake'.target = k /\ handshake'.our = BuildNegotiationInfo(c, k)
      /\ handshake'.peers = << >>
  BY <1>1 DEF Idle
<1>3. Runs(BuildNegotiationInfo(c, k), k) /\ BuildNegotiationInfo(c, k).contract_name = c
  BY DEF Runs, BuildNegotiationInfo
<1>4. UNCHANGED release
  BY DEF Propose, fleetVars
<1>5. HandshakeInv'
  BY ProposeKeepsHandshake DEF FleetInv
<1> QED
  BY <1>2, <1>3, <1>4, <1>5 DEF FleetInv, FleetInterops, Runs

LEMMA CollectKeepsFleet ==
  ASSUME FleetInv, NEW c \in Contracts, Collect(c)
  PROVE  FleetInv'
<1>1. Negotiating /\ c # handshake.candidate
  BY DEF Collect, Outstanding, FleetInv
<1>2. /\ Candidacy(c).contract_name = c /\ Runs(Candidacy(c), release[c])
      /\ Candidacy(c) \in Infos
  <2>1. Candidacy(c) = BuildNegotiationInfo(c, release[c])
    BY <1>1 DEF Candidacy, Info
  <2>2. FleetTypeOK
    BY DEF FleetInv, HandshakeInv
  <2> QED
    BY <2>1, <2>2, AnswersAreInfos DEF BuildNegotiationInfo, Runs, FleetTypeOK
<1>3. handshake \in Handshakes /\ handshake.peers \in Seq(Infos)
  BY DEF FleetInv, HandshakeInv, Handshakes
<1>4. /\ handshake'.peers = Append(handshake.peers, Candidacy(c))
      /\ handshake'.candidate = handshake.candidate /\ handshake'.target = handshake.target
      /\ handshake'.our = handshake.our
  BY <1>3 DEF Collect, Handshakes
<1>5. release' = release
  BY DEF Collect, fleetVars
<1>6. HandshakeInv'
  BY CollectKeepsHandshake DEF FleetInv
<1>7. ASSUME NEW i \in 1 .. Len(handshake'.peers)
      PROVE  /\ handshake'.peers[i].contract_name \in Contracts \ {handshake.candidate}
             /\ Runs(handshake'.peers[i], release[handshake'.peers[i].contract_name])
  <2>1. CASE i \in 1 .. Len(handshake.peers)
    <3>1. handshake'.peers[i] = handshake.peers[i]
      BY <1>2, <1>3, <1>4, <2>1
    <3> QED
      BY <1>1, <2>1, <3>1 DEF FleetInv
  <2>2. CASE i = Len(handshake.peers) + 1
    <3>1. handshake'.peers[i] = Candidacy(c)
      BY <1>2, <1>3, <1>4, <2>2
    <3> QED
      BY <1>1, <1>2, <3>1
  <2> QED
    BY <1>2, <1>3, <1>4, <2>1, <2>2
<1> QED
  BY <1>1, <1>4, <1>5, <1>6, <1>7 DEF FleetInv, FleetInterops, Runs

LEMMA CheckPeerKeepsFleet ==
  ASSUME FleetInv, CheckPeer
  PROVE  FleetInv'
<1>1. handshake \in Handshakes /\ Negotiating
  BY DEF FleetInv, HandshakeInv, CheckPeer
<1>2. /\ handshake'.peers = handshake.peers /\ handshake'.candidate = handshake.candidate
      /\ handshake'.target = handshake.target /\ handshake'.our = handshake.our
  BY <1>1 DEF CheckPeer, Handshakes
<1>3. release' = release
  BY DEF CheckPeer, fleetVars
<1>4. HandshakeInv'
  BY CheckPeerKeepsHandshake DEF FleetInv
<1> QED
  BY <1>1, <1>2, <1>3, <1>4 DEF FleetInv, FleetInterops, Runs

\* Every other contract has answered and none was refused: the candidate's new
\* release can talk to all of them, and they could talk to one another before.
LEMMA DeployKeepsFleet ==
  ASSUME SelfDecided, FleetInv, Deploy
  PROVE  FleetInv'
<1> DEFINE x == handshake.candidate
           k == handshake.target
<1>1. /\ Negotiating /\ handshake.our.contract_name = x /\ Runs(handshake.our, k)
      /\ k \in Places /\ handshake.our \in Infos
      /\ handshake.checked = Len(handshake.peers) /\ handshake.peers \in Seq(Infos)
      /\ Outstanding = {}
  BY DEF Deploy, Concluded, FleetInv, HandshakeInv, Handshakes
<1>2. x \in Contracts
  BY <1>1 DEF Negotiating, FleetInv, HandshakeInv, Handshakes
<1>3. \A peer \in Seen : Interoperable(handshake.our, peer)
  BY <1>1 DEF Deploy, FleetInv, HandshakeInv, Judged
<1>4. ASSUME NEW d \in Contracts \ {x}
      PROVE  /\ Train[k].protocol >= Train[release[d]].min_compatible
             /\ Train[release[d]].protocol >= Train[k].min_compatible
             /\ Train[k].schema = Train[release[d]].schema /\ Train[k].event = Train[release[d]].event
  <2>1. d \in Collected
    BY <1>1 DEF Outstanding
  <2>2. PICK i \in 1 .. Len(handshake.peers) : handshake.peers[i].contract_name = d
    BY <2>1 DEF Collected
  <2>3. Runs(handshake.peers[i], release[d])
    BY <1>1, <2>2 DEF FleetInv
  <2>4. handshake.peers[i] \in Seen
    BY <1>1, <2>2 DEF Seen
  <2>5. Interoperable(handshake.our, handshake.peers[i])
    BY <1>3, <2>4
  <2> QED
    BY <1>1, <2>3, <2>5 DEF Interoperable, Runs
<1>5. release \in [Contracts -> Places] /\ release' = [release EXCEPT ![x] = k]
  BY DEF Deploy, FleetInv, HandshakeInv, FleetTypeOK
<1>6. ASSUME NEW c \in Contracts, NEW d \in Contracts
      PROVE  /\ Train[release'[c]].protocol >= Train[release'[d]].min_compatible
             /\ Train[release'[c]].schema = Train[release'[d]].schema
             /\ Train[release'[c]].event = Train[release'[d]].event
  <2>1. CASE c = x /\ d = x
    BY <1>1, <1>5, <2>1 DEF SelfDecided
  <2>2. CASE c = x /\ d # x
    BY <1>4, <1>5, <2>2
  <2>3. CASE c # x /\ d = x
    BY <1>4, <1>5, <2>3
  <2>4. CASE c # x /\ d # x
    BY <1>5, <2>4 DEF FleetInv, FleetInterops
  <2> QED
    BY <2>1, <2>2, <2>3, <2>4
<1>7. FleetInterops'
  BY <1>6 DEF FleetInterops
<1>8. handshake' = Idle /\ FleetTypeOK'
  BY <1>1, <1>5 DEF Deploy, FleetInv, HandshakeInv, FleetTypeOK
<1>9. HandshakeInv' /\ ~Negotiating'
  BY <1>8, IdleIsJudged DEF Negotiating, Idle
<1> QED
  BY <1>7, <1>9 DEF FleetInv

LEMMA BlockKeepsFleet ==
  ASSUME FleetInv, Block
  PROVE  FleetInv'
<1>1. release' = release /\ handshake' = Idle /\ FleetTypeOK'
  BY DEF Block, fleetVars, FleetInv, HandshakeInv, FleetTypeOK
<1>2. HandshakeInv' /\ ~Negotiating'
  BY <1>1, IdleIsJudged DEF Negotiating, Idle
<1> QED
  BY <1>1, <1>2 DEF FleetInv, FleetInterops

\* Nothing but a deployment changes what a contract runs.
LEMMA OthersKeepFleet ==
  ASSUME FleetInv, HandshakeInv', UNCHANGED << release, handshake >>
  PROVE  FleetInv'
  BY DEF FleetInv, FleetInterops, Negotiating, Runs

LEMMA FleetInductive ==
  ASSUME SelfDecided
  PROVE  FleetInv /\ [Next]_vars => FleetInv'
<1> SUFFICES ASSUME FleetInv, [Next]_vars
             PROVE  FleetInv'
  OBVIOUS
<1>1. HandshakeInv'
  BY HandshakeInductive DEF FleetInv
<1>2. CASE UNCHANGED negotiationVars
  BY <1>1, <1>2, OthersKeepFleet DEF negotiationVars, fleetVars
<1>3. ASSUME NEW c \in Contracts, NEW k \in Places, Propose(c, k)
      PROVE  FleetInv'
  BY <1>3, ProposeKeepsFleet
<1>4. ASSUME NEW c \in Contracts, Collect(c)
      PROVE  FleetInv'
  BY <1>4, CollectKeepsFleet
<1>5. CASE CheckPeer
  BY <1>5, CheckPeerKeepsFleet
<1>6. CASE Deploy
  BY <1>6, DeployKeepsFleet
<1>7. CASE Block
  BY <1>7, BlockKeepsFleet
<1>8. ASSUME NEW c \in Contracts, Migrate(c)
      PROVE  FleetInv'
  BY <1>1, <1>8, OthersKeepFleet DEF Migrate
<1>9. ASSUME NEW c \in Pausable, NEW flag \in BOOLEAN, SetPaused(c, flag)
      PROVE  FleetInv'
  BY <1>1, <1>9, OthersKeepFleet DEF SetPaused
<1> QED
  BY <1>2, <1>3, <1>4, <1>5, <1>6, <1>7, <1>8, <1>9
     DEF Next, Rollout, NegotiationNext, HandshakeStep, StartWorkflow, WorkflowStep, CallStep, Rollback, EndRollback,
         FinalizeWorkflow, FailWorkflow, EndWorkflow, vars

LEMMA FleetStarts ==
  ASSUME SelfDecided
  PROVE  Init => FleetInv
<1> SUFFICES ASSUME Init
             PROVE  FleetInv
  OBVIOUS
<1>1. HandshakeInv /\ ~Negotiating
  BY HandshakeStarts DEF Init, NegotiationInit, Negotiating, Idle
<1>2. 1 \in Places
  BY TrainOfReleases
<1>3. FleetInterops
  BY <1>2 DEF FleetInterops, Init, NegotiationInit, SelfDecided
<1> QED
  BY <1>1, <1>3 DEF FleetInv

\* For any number of contracts and any train of releases each of which accepts
\* itself: single upgrades decided by the upgraded contract's own handshake keep
\* every two contracts of the fleet on talking terms, although no handshake
\* compares two peers (version_negotiation.rs, negotiate_contract_versions).
THEOREM FleetAlwaysInterops ==
  ASSUME SelfDecided
  PROVE  Spec => []FleetInterops
<1>1. Init => FleetInv
  BY FleetStarts
<1>2. FleetInv /\ [Next]_vars => FleetInv'
  BY FleetInductive
<1>3. FleetInv => FleetInterops
  BY DEF FleetInv
<1> QED
  BY <1>1, <1>2, <1>3, PTL DEF Spec

-----------------------------------------------------------------------------
(* The rules, over all the peers at once *)

\* The loop is well defined, as the ones of VecOps are.
LEMMA VerdictLoopEquation ==
  ASSUME NEW our, NEW peers, Len(peers) \in Nat
  PROVE  VerdictLoop(our, peers) =
           [i \in 0 .. Len(peers) |->
              IF i = 0 THEN "Compatible" ELSE Downgrade(VerdictLoop(our, peers)[i - 1], our, peers[i])]
<1> DEFINE Body(f, i) == IF i = 0 THEN "Compatible" ELSE Downgrade(f[i - 1], our, peers[i])
           Defined == { n \in Nat : \E f : f = [i \in 0 .. n |-> Body(f, i)] }
<1>1. 0 \in Defined
  <2>1. [i \in 0 .. 0 |-> "Compatible"] = [i \in 0 .. 0 |-> Body([j \in 0 .. 0 |-> "Compatible"], i)]
    OBVIOUS
  <2> QED BY <2>1
<1>2. ASSUME NEW n \in Nat, n \in Defined PROVE n + 1 \in Defined
  <2>1. PICK f : f = [i \in 0 .. n |-> Body(f, i)]
    BY <1>2
  <2>2. PICK next : next = Downgrade(f[n], our, peers[n + 1])
    OBVIOUS
  <2> DEFINE g == [i \in 0 .. n + 1 |-> IF i = n + 1 THEN next ELSE f[i]]
  <2>3. \A i \in 0 .. n + 1 : g[i] = Body(g, i)
    <3> SUFFICES ASSUME NEW i \in 0 .. n + 1 PROVE g[i] = Body(g, i)
      OBVIOUS
    <3>1. CASE i = n + 1
      <4>1. g[n] = f[n] /\ g[i] = next /\ i # 0 /\ i - 1 = n
        BY <3>1
      <4> HIDE DEF g
      <4>2. Body(g, i) = Downgrade(g[i - 1], our, peers[i])
        BY <4>1
      <4> HIDE DEF Body
      <4> QED BY <2>2, <3>1, <4>1, <4>2
    <3>2. CASE i # n + 1
      <4>1. i \in 0 .. n
        BY <3>2
      <4>2. g[i] = f[i]
        BY <3>2
      <4>3. f[i] = Body(f, i)
        <5> HIDE DEF Body, g
        <5> QED BY <2>1, <4>1, Zenon
      <4>4. i # 0 => g[i - 1] = f[i - 1]
        BY <3>2
      <4> HIDE DEF g
      <4> QED BY <4>2, <4>3, <4>4
    <3> QED BY <3>1, <3>2
  <2>4. g = [i \in 0 .. n + 1 |-> Body(g, i)]
    <3>1. g = [i \in 0 .. n + 1 |-> g[i]]
      OBVIOUS
    <3> HIDE DEF g
    <3> QED BY <2>3, <3>1
  <2> HIDE DEF g
  <2> QED BY <2>4
<1>3. Len(peers) \in Defined
  <2>1. \A n \in Nat : n \in Defined
    <3> HIDE DEF Defined
    <3> QED BY <1>1, <1>2, SetInduction
  <2> HIDE DEF Defined
  <2> QED BY <2>1
<1> QED BY <1>3 DEF VerdictLoop

(***************************************************************************)
(* The outcome of negotiate_contract_versions for any peers in any order:  *)
(* incompatible exactly when one of them cannot talk to us, compatible     *)
(* exactly when all of them can and speak our protocol.  No later peer     *)
(* takes back what an earlier one has brought about.                       *)
(***************************************************************************)
THEOREM VerdictMeans ==
  ASSUME NEW our \in Infos, NEW peers \in Seq(Infos)
  PROVE  /\ Verdict(our, peers) = "Incompatible" <=> \E i \in 1 .. Len(peers) : ~Interoperable(our, peers[i])
         /\ Verdict(our, peers) = "Compatible" <=>
              \A i \in 1 .. Len(peers) : Interoperable(our, peers[i]) /\ peers[i].protocol = our.protocol
<1> DEFINE loop == VerdictLoop(our, peers)
           first(n) == { peers[i] : i \in 1 .. n }
           Good(n) == loop[n] \in Outcomes /\ \E m : Judged(our, first(n), loop[n], m)
           Fine == { n \in Nat : n <= Len(peers) => Good(n) }
<1>0. Len(peers) \in Nat
  OBVIOUS
<1>1. loop = [i \in 0 .. Len(peers) |-> IF i = 0 THEN "Compatible" ELSE Downgrade(loop[i - 1], our, peers[i])]
  BY <1>0, VerdictLoopEquation
<1> HIDE DEF loop
<1>2. loop[0] = "Compatible"
  BY <1>0, <1>1
<1>3. \A i \in 1 .. Len(peers) : loop[i] = Downgrade(loop[i - 1], our, peers[i])
  BY <1>0, <1>1
<1>4. 0 \in Fine
  <2>1. first(0) = {}
    OBVIOUS
  <2>2. << >> \in Seq(UNION { Justified(our, peer) : peer \in {} })
    OBVIOUS
  <2> HIDE DEF first
  <2>3. Judged(our, first(0), loop[0], << >>)
    BY <1>2, <2>1, <2>2 DEF Judged
  <2>4. loop[0] \in Outcomes
    BY <1>2 DEF Outcomes
  <2> QED BY <2>3, <2>4
<1>5. ASSUME NEW n \in Nat, n \in Fine PROVE n + 1 \in Fine
  <2> HIDE DEF Good
  <2> SUFFICES ASSUME n + 1 <= Len(peers) PROVE Good(n + 1)
    OBVIOUS
  <2>1. n + 1 \in 1 .. Len(peers) /\ n <= Len(peers) /\ (n + 1) - 1 = n
    BY <1>0
  <2>2. PICK peer \in Infos : peer = peers[n + 1]
    BY <2>1
  <2>3. loop[n] \in Outcomes /\ \E m : Judged(our, first(n), loop[n], m)
    BY <1>5, <2>1 DEF Good
  <2>4. loop[n + 1] = Downgrade(loop[n], our, peer)
    BY <1>3, <2>1, <2>2
  <2>5. first(n + 1) = first(n) \cup {peer}
    <3>1. \A i \in 1 .. n + 1 : i \in 1 .. n \/ i = n + 1
      OBVIOUS
    <3>2. 1 .. n \subseteq 1 .. n + 1 /\ n + 1 \in 1 .. n + 1
      OBVIOUS
    <3> QED BY <2>2, <3>1, <3>2
  <2>6. first(n) \in SUBSET Infos
    <3>1. \A i \in 1 .. n : peers[i] \in Infos
      BY <2>1
    <3> QED BY <3>1
  <2> HIDE DEF first
  <2>7. PICK m : Judged(our, first(n), loop[n], m)
    BY <2>3
  <2>8. /\ Judged(our, first(n) \cup {peer}, Downgrade(loop[n], our, peer), m \o Mismatches(our, peer))
        /\ Downgrade(loop[n], our, peer) \in Outcomes
    BY <2>3, <2>6, <2>7, TurnJudges
  <2> QED BY <2>4, <2>5, <2>8 DEF Good
<1>6. Good(Len(peers))
  <2>1. \A n \in Nat : n \in Fine
    <3> HIDE DEF Fine
    <3> QED BY <1>4, <1>5, SetInduction
  <2> HIDE DEF Good
  <2> QED BY <1>0, <2>1
<1>7. PICK m : Judged(our, first(Len(peers)), loop[Len(peers)], m)
  BY <1>6
<1>8. Verdict(our, peers) = loop[Len(peers)]
  BY DEF Verdict, loop
<1> QED BY <1>7, <1>8 DEF Judged

-----------------------------------------------------------------------------
(* What runs out                                                             *)
(*                                                                           *)
(* That a handshake is decided is left to TLC, fairness being out of reach   *)
(* here.  What its termination rests on is not: each step uses up some of a  *)
(* number that nothing gives back before the end.                            *)

\* The answers still to come count twice, for each is judged later; the ones
\* that wait to be judged once, and the decision once.
HandshakeRank ==
  IF Negotiating THEN 2 * Cardinality(Outstanding) + (Len(handshake.peers) - handshake.checked) + 1 ELSE 0

LEMMA HandshakeCounts ==
  ASSUME IsFiniteSet(Contracts), HandshakeInv
  PROVE  /\ IsFiniteSet(Outstanding) /\ Cardinality(Outstanding) \in Nat
         /\ Len(handshake.peers) \in Nat /\ handshake.checked \in Nat
         /\ handshake.checked <= Len(handshake.peers)
         /\ HandshakeRank \in Nat /\ (Negotiating <=> HandshakeRank > 0)
<1>1. Outstanding \subseteq Contracts
  BY DEF Outstanding
<1>2. IsFiniteSet(Outstanding) /\ Cardinality(Outstanding) \in Nat
  BY <1>1, FS_Subset, FS_CardinalityType
<1>3. /\ handshake.peers \in Seq(Infos) /\ handshake.checked \in Nat
      /\ handshake.checked <= Len(handshake.peers)
  BY DEF HandshakeInv, Handshakes
<1>4. Len(handshake.peers) \in Nat
  BY <1>3
<1> DEFINE n == Cardinality(Outstanding)
           l == Len(handshake.peers)
<1>5. HandshakeRank = IF Negotiating THEN 2 * n + (l - handshake.checked) + 1 ELSE 0
  BY DEF HandshakeRank
<1>6. n \in Nat /\ l \in Nat /\ handshake.checked <= l
  BY <1>2, <1>3, <1>4
<1> HIDE DEF n, l
<1>7. HandshakeRank \in Nat /\ (Negotiating <=> HandshakeRank > 0)
  BY <1>3, <1>5, <1>6
<1> QED
  BY <1>2, <1>3, <1>4, <1>7

RankIsNumber == HandshakeRank \in Nat

LEMMA HandshakeCountsNext ==
  ASSUME IsFiniteSet(Contracts)
  PROVE  HandshakeInv' => RankIsNumber'
<1>1. HandshakeInv => RankIsNumber
  BY HandshakeCounts DEF RankIsNumber
<1> QED
  BY <1>1, PTL

\* An answer is asked for once: it leaves one contract fewer to ask.
LEMMA CollectLowersRank ==
  ASSUME IsFiniteSet(Contracts), HandshakeInv, NEW c \in Contracts, Collect(c)
  PROVE  HandshakeRank' < HandshakeRank
<1>1. /\ handshake \in Handshakes /\ handshake.peers \in Seq(Infos) /\ handshake.checked \in Nat
      /\ Negotiating /\ c \in Outstanding /\ handshake.target \in Places
  BY DEF HandshakeInv, Handshakes, Collect
<1>2. Candidacy(c) \in Infos /\ Candidacy(c).contract_name = c
  BY <1>1, AnswersAreInfos DEF Candidacy, Info, HandshakeInv, FleetTypeOK, BuildNegotiationInfo
<1>3. handshake' = [handshake EXCEPT !.peers = Append(@, Candidacy(c))]
  BY DEF Collect
<1>4. /\ handshake'.peers = Append(handshake.peers, Candidacy(c))
      /\ handshake'.checked = handshake.checked /\ handshake'.candidate = handshake.candidate
      /\ handshake'.our = handshake.our
  BY <1>1, <1>3 DEF Handshakes
<1>5. /\ Len(handshake'.peers) = Len(handshake.peers) + 1
      /\ handshake'.peers[Len(handshake.peers) + 1] = Candidacy(c)
      /\ \A i \in 1 .. Len(handshake.peers) : handshake'.peers[i] = handshake.peers[i]
      /\ Len(handshake.peers) \in Nat
  BY <1>1, <1>2, <1>4
<1>6. Collected' = Collected \cup {c}
  BY <1>2, <1>5 DEF Collected
<1>7. Outstanding' = Outstanding \ {c}
  BY <1>4, <1>6 DEF Outstanding
<1>8. IsFiniteSet(Outstanding) /\ Cardinality(Outstanding) \in Nat
  BY HandshakeCounts
<1>9. Cardinality(Outstanding \ {c}) = Cardinality(Outstanding) - 1
  BY <1>1, <1>8, FS_RemoveElement
<1>10. Negotiating'
  BY <1>1, <1>4 DEF Negotiating
<1>11. PICK n \in Nat, l \in Nat, k \in Nat :
          n = Cardinality(Outstanding) /\ l = Len(handshake.peers) /\ k = handshake.checked
  BY <1>1, <1>5, <1>8
<1>12. HandshakeRank = 2 * n + (l - k) + 1
  BY <1>1, <1>11 DEF HandshakeRank
<1>13. HandshakeRank' = 2 * (n - 1) + (l + 1 - k) + 1
  <2>1. Cardinality(Outstanding)' = n - 1
    BY <1>7, <1>9, <1>11
  <2>2. Len(handshake.peers)' = l + 1 /\ handshake.checked' = k
    BY <1>4, <1>5, <1>11
  <2> QED
    BY <1>10, <2>1, <2>2 DEF HandshakeRank
<1> QED
  BY <1>12, <1>13

LEMMA CheckLowersRank ==
  ASSUME IsFiniteSet(Contracts), HandshakeInv, CheckPeer
  PROVE  HandshakeRank' < HandshakeRank
<1>1. handshake \in Handshakes /\ handshake.checked \in Nat /\ Negotiating
  BY DEF HandshakeInv, Handshakes, CheckPeer
<1>2. /\ handshake'.peers = handshake.peers /\ handshake'.our = handshake.our
      /\ handshake'.candidate = handshake.candidate
      /\ handshake'.checked = handshake.checked + 1
  BY <1>1 DEF CheckPeer, Handshakes
<1>3. Outstanding' = Outstanding /\ Negotiating'
  BY <1>1, <1>2 DEF Outstanding, Collected, Negotiating
<1> DEFINE n == Cardinality(Outstanding)
           l == Len(handshake.peers)
<1>4. HandshakeRank = 2 * n + (l - handshake.checked) + 1
  BY <1>1 DEF HandshakeRank
<1>5. HandshakeRank' = 2 * n + (l - (handshake.checked + 1)) + 1
  BY <1>2, <1>3 DEF HandshakeRank
<1>6. n \in Nat /\ l \in Nat
  BY HandshakeCounts
<1> HIDE DEF n, l
<1> QED
  BY <1>1, <1>4, <1>5, <1>6

LEMMA HandshakeLowersRank ==
  ASSUME IsFiniteSet(Contracts), HandshakeInv, HandshakeStep
  PROVE  HandshakeRank' < HandshakeRank
<1>1. CASE \E c \in Contracts : Collect(c)
  BY <1>1, CollectLowersRank
<1>2. CASE CheckPeer
  BY <1>2, CheckLowersRank
<1>3. CASE Deploy \/ Block
  <2>1. Negotiating /\ handshake' = Idle
    BY <1>3 DEF Deploy, Block, Concluded
  <2>2. HandshakeRank' = 0
    BY <2>1 DEF HandshakeRank, Negotiating, Idle
  <2> QED
    BY <2>1, <2>2, HandshakeCounts
<1> QED
  BY <1>1, <1>2, <1>3 DEF HandshakeStep

LEMMA OnlyProposalsRaise ==
  ASSUME IsFiniteSet(Contracts), HandshakeInv, [Next]_vars,
         ~(\E c \in Contracts, k \in Places : Propose(c, k))
  PROVE  HandshakeRank' <= HandshakeRank
<1>1. HandshakeRank \in Nat
  BY HandshakeCounts
<1>2. CASE UNCHANGED handshake
  <2>1. HandshakeRank' = HandshakeRank
    BY <1>2 DEF HandshakeRank, Negotiating, Outstanding, Collected
  <2> QED
    BY <1>1, <2>1
<1>3. CASE HandshakeStep
  <2>1. HandshakeInv'
    BY HandshakeInductive
  <2>2. HandshakeRank' \in Nat
    BY <2>1, HandshakeCountsNext DEF RankIsNumber
  <2> QED
    BY <1>1, <1>3, <2>2, HandshakeLowersRank
<1> QED
  BY <1>2, <1>3 DEF Next, Rollout, NegotiationNext, Migrate, SetPaused, StartWorkflow, WorkflowStep, CallStep,
                    Rollback, EndRollback, FinalizeWorkflow, FailWorkflow, EndWorkflow, vars, negotiationVars

\* For any finite fleet and any train of releases, every step of a handshake
\* lowers a natural number that is zero only between handshakes, and nothing
\* but the next proposal raises it: no migration and no pause during it makes
\* the coordinator ask or judge a contract twice (version_negotiation.rs,
\* negotiate_contract_versions and its callers).
THEOREM HandshakeRunsDown ==
  ASSUME IsFiniteSet(Contracts)
  PROVE  Spec => /\ [](HandshakeRank \in Nat /\ (Negotiating <=> HandshakeRank > 0))
                 /\ [][/\ HandshakeStep => HandshakeRank' < HandshakeRank
                       /\ ~(\E c \in Contracts, k \in Places : Propose(c, k))
                            => HandshakeRank' <= HandshakeRank]_vars
<1>1. Init => HandshakeInv
  BY HandshakeStarts
<1>2. HandshakeInv /\ [Next]_vars => HandshakeInv'
  BY HandshakeInductive
<1>3. HandshakeInv => HandshakeRank \in Nat /\ (Negotiating <=> HandshakeRank > 0)
  BY HandshakeCounts
<1>4. HandshakeInv /\ [Next]_vars
        => [/\ HandshakeStep => HandshakeRank' < HandshakeRank
            /\ ~(\E c \in Contracts, k \in Places : Propose(c, k)) => HandshakeRank' <= HandshakeRank]_vars
  BY HandshakeLowersRank, OnlyProposalsRaise
<1> QED
  BY <1>1, <1>2, <1>3, <1>4, PTL DEF Spec

=============================================================================

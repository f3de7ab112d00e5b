------------------------------ MODULE CallSafety ------------------------------
(***************************************************************************)
(* CrossContractSafety: a workflow of calls to other contracts, with a     *)
(* stack of the calls that would undo them.                                *)
(*                                                                         *)
(* The host runs each call in a frame of its own: a callee that fails      *)
(* leaves nothing behind, and so does everything a contract called when    *)
(* that contract itself answers Err.  try_invoke_contract::<Val, Val> has  *)
(* two ends here: the callee answered, or it failed.  A third, an answer   *)
(* that does not convert, cannot be met, a Val being any answer.           *)
(*                                                                         *)
(* The caller is the loop of the module's usage notes: it makes its calls  *)
(* in order, rolls back when one answers Err, and finalizes after the      *)
(* last.  Nothing in the module makes it do so; what it then answers       *)
(* itself is its own choice.                                               *)
(***************************************************************************)
EXTENDS Naturals, Sequences, FiniteSets, SequencesExt

CONSTANTS
  Steps               \* how many calls a workflow makes

ASSUME StepsAssumption == Steps \in Nat \ {0}

VARIABLES
  phase,              \* "idle", "running", "failed", "rolled_back", "finalized", "reverted"
  called,             \* calls made so far
  compensationStack,  \* the steps whose compensation is registered
  effects,            \* what each call has left at the contract it called
  undone              \* history variable: compensations invoked, in order

workflowVars == << phase, called, compensationStack, effects, undone >>

Fresh == [s \in 1 .. Steps |-> "none"]

Replies == { "Ok(Ok)", "Err" }

\* safe_invoke_contract; the other three statuses are never made.
SafeInvoke(answer) == IF answer = "Ok(Ok)" THEN "Success" ELSE "FatalError"

RequiresRollback(status) == status = "FatalError"

New ==
  /\ phase' = "running"
  /\ called' = 0
  /\ compensationStack' = << >>
  /\ effects' = Fresh
  /\ undone' = << >>

\* Mutant: the compensation is registered before the call is known to stand.
CallRegistersFirst(answer) ==
  LET status == SafeInvoke(answer)
      step   == called + 1
  IN  /\ phase = "running" /\ called < Steps
      /\ called' = step
      /\ effects' = IF answer = "Err" THEN effects ELSE [effects EXCEPT ![step] = "done"]
      /\ compensationStack' = Append(compensationStack, step)
      /\ phase' = IF RequiresRollback(status) THEN "failed" ELSE "running"
      /\ UNCHANGED undone

Call(answer) ==
  LET status == SafeInvoke(answer)
      step   == called + 1
  IN  /\ phase = "running" /\ called < Steps
      /\ called' = step
      /\ effects' = IF answer = "Err" THEN effects ELSE [effects EXCEPT ![step] = "done"]
      /\ compensationStack' = IF RequiresRollback(status) THEN compensationStack
                                                          ELSE Append(compensationStack, step)
      /\ phase' = IF RequiresRollback(status) THEN "failed" ELSE "running"
      /\ UNCHANGED undone

\* Mutant: the stack is walked from the bottom.
RollbackOldest(refused) ==
  /\ phase = "failed" /\ compensationStack # << >>
  /\ LET step == Head(compensationStack)
     IN  /\ undone' = Append(undone, step)
         /\ effects' = IF refused THEN effects ELSE [effects EXCEPT ![step] = "undone"]
  /\ compensationStack' = Tail(compensationStack)
  /\ UNCHANGED << phase, called >>

\* Mutant: a compensation that fails ends the rollback.
RollbackGivesUp(refused) ==
  /\ phase = "failed" /\ compensationStack # << >>
  /\ LET step == Last(compensationStack)
     IN  /\ undone' = Append(undone, step)
         /\ effects' = IF refused THEN effects ELSE [effects EXCEPT ![step] = "undone"]
  /\ compensationStack' = Front(compensationStack)
  /\ phase' = IF refused THEN "rolled_back" ELSE phase
  /\ UNCHANGED called

\* One turn of rollback_all: the newest compensation is popped and invoked, a
\* call of its own; that it failed is ignored.
RollbackNext(refused) ==
  /\ phase = "failed" /\ compensationStack # << >>
  /\ LET step == Last(compensationStack)
     IN  /\ undone' = Append(undone, step)
         /\ effects' = IF refused THEN effects ELSE [effects EXCEPT ![step] = "undone"]
  /\ compensationStack' = Front(compensationStack)
  /\ UNCHANGED << phase, called >>

\* The loop ends with the stack.
RollbackDone ==
  /\ phase = "failed" /\ compensationStack = << >>
  /\ phase' = "rolled_back"
  /\ UNCHANGED << called, compensationStack, effects, undone >>

Finalize ==
  /\ phase = "running" /\ called = Steps
  /\ compensationStack' = << >>
  /\ phase' = "finalized"
  /\ UNCHANGED << called, effects, undone >>

\* The caller answers Err: the host takes back its whole frame.
ReturnErr ==
  /\ phase = "rolled_back"
  /\ effects' = Fresh
  /\ phase' = "reverted"
  /\ UNCHANGED << called, compensationStack, undone >>

WorkflowInit ==
  /\ phase = "idle"
  /\ called = 0
  /\ compensationStack = << >>
  /\ effects = Fresh
  /\ undone = << >>

WorkflowNext ==
  \/ \E answer \in Replies : Call(answer)
  \/ \E refused \in BOOLEAN : RollbackNext(refused)
  \/ RollbackDone
  \/ Finalize
  \/ ReturnErr

-----------------------------------------------------------------------------
(* Properties *)

WorkflowTypeOK ==
  /\ phase \in { "idle", "running", "failed", "rolled_back", "finalized", "reverted" }
  /\ called \in 0 .. Steps
  /\ compensationStack \in Seq(1 .. Steps)
  /\ effects \in [1 .. Steps -> { "none", "done", "undone" }]
  /\ undone \in Seq(1 .. Steps)

\* The calls that have left something behind.
Standing == IF phase \in { "failed", "rolled_back" } THEN called - 1 ELSE called

\* While a workflow can still fail, and through every turn of its rollback, what
\* is registered to be undone is what has been done, call by call and in their
\* order, less the newest of them that were undone, newest first: no call that
\* left something behind is forgotten, none that left nothing would be "undone".
OwedIsRegistered ==
  LET owed == Standing - Len(undone)
  IN  phase \in { "running", "failed", "rolled_back" } =>
        /\ Len(undone) <= Standing
        /\ compensationStack = [i \in 1 .. owed |-> i]
        /\ undone = [i \in 1 .. Len(undone) |-> Standing + 1 - i]
        /\ \A s \in 1 .. Steps : /\ s <= owed => effects[s] = "done"
                                 /\ s > Standing <=> effects[s] = "none"

\* At every moment a failure would be undone by what is registered, and a
\* workflow ends with all of its calls done, with all of them taken back by the
\* host, or with the compensation of each done one invoked, newest first and
\* however many of them fail on the way.
NothingHalfDone ==
  /\ OwedIsRegistered
  /\ phase = "finalized" => \A s \in 1 .. Steps : effects[s] = "done"
  /\ phase = "reverted" => effects = Fresh
  /\ phase = "rolled_back" => Len(undone) = Standing
  /\ phase \in { "idle", "running" } => undone = << >>

=============================================================================

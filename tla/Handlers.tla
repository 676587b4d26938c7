------------------------------ MODULE Handlers ------------------------------
(***************************************************************************)
(* Asynchronous calls of the API.  A call runs from one await to the next; *)
(* what it still has to do is a sequence of steps, so that the steps of    *)
(* calls in progress interleave.  A step may put further steps in front    *)
(* (the function it calls), return, or throw, which drops what its callers *)
(* had left, up to the catch around them.  A crash drops everything that   *)
(* is in progress.                                                         *)
(***************************************************************************)
EXTENDS Sequences, Integers, FiniteSets

CONSTANTS
  Requests,      \* bound: requests and webhooks in progress at once
  Workers,       \* the processes that run the sweep (one replica when deployed)
  MaxCrashes,    \* bound: restarts
  MaxFailures    \* bound: calls to Razorpay that fail

ASSUME HandlersAssumption ==
  /\ IsFiniteSet(Requests)
  /\ IsFiniteSet(Workers)
  /\ Requests \cap Workers = {}
  /\ MaxCrashes \in Nat
  /\ MaxFailures \in Nat

VARIABLES
  todo,          \* handler -> the steps its call still has to make
  faults         \* the crashes and the failed calls so far

All == Requests \cup Workers

Free(h) == todo[h] = <<>>

AtRest == \A h \in All : Free(h)

At(h, op) == todo[h] # <<>> /\ Head(todo[h]).op = op

Arg(h) == Head(todo[h])

Begin(h, steps) == Free(h) /\ todo' = [todo EXCEPT ![h] = steps]

Continue(h, steps) == todo' = [todo EXCEPT ![h] = steps \o Tail(@)]

Return(h) == Continue(h, <<>>)

(* A step [op |-> "catch"] is the end of a try block. *)
Catches(h) == {i \in 1..Len(todo[h]) : todo[h][i].op = "catch"}

Throw(h) ==
  todo' = [todo EXCEPT ![h] =
    IF Catches(h) = {} THEN <<>>
    ELSE LET first == CHOOSE i \in Catches(h) : \A j \in Catches(h) : i <= j
         IN  SubSeq(@, first + 1, Len(@))]

Caught(h) == At(h, "catch") /\ Return(h)

HandlersInit ==
  /\ todo = [h \in All |-> <<>>]
  /\ faults = [crashes |-> 0, failures |-> 0]

Restart ==
  /\ faults.crashes < MaxCrashes
  /\ faults' = [faults EXCEPT !.crashes = @ + 1]
  /\ todo' = [h \in All |-> <<>>]

Refused ==
  /\ faults.failures < MaxFailures
  /\ faults' = [faults EXCEPT !.failures = @ + 1]

Undisturbed == AtRest /\ faults.crashes = 0

=============================================================================

-------------------------- MODULE BridgeThreads --------------------------
(***************************************************************************)
(* What the runtime bridges share (src/integrations/runtime-bridges).      *)
(* Every bridge is one Python object whose endpoints are plain functions:  *)
(* FastAPI runs each request in a thread of its pool, so several invokes   *)
(* work on the dicts of one bridge without a lock. The bridges' README     *)
(* asks for Python 3.9 or later, where a thread may lose the interpreter   *)
(* between any two bytecodes: a read and the write that depends on it are  *)
(* two steps here, a single dict or list operation is one.                 *)
(*                                                                         *)
(* A thread that serves no request is Idle. A request whose answer depends *)
(* on one look at the state is one action and leaves its thread Idle.      *)
(***************************************************************************)
EXTENDS Naturals, FiniteSets, Dicts

CONSTANT Threads

ASSUME ThreadsAssumption == IsFiniteSet(Threads) /\ Threads # {}

Idle == [at |-> "idle"]

AllIdle == [t \in Threads |-> Idle]

At(call, t, place) == call[t].at = place

==========================================================================

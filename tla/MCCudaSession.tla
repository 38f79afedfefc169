---------------------------- MODULE MCCudaSession ----------------------------
(***************************************************************************)
(* A small instance of CudaSession for TLC: a program that computes, and   *)
(* another that fills the session's memory and may leave at any time.      *)
(***************************************************************************)
EXTENDS CudaSession

CONSTANTS a1, a2

MCPayloads == {<<1>>}
MCUses == [a \in {a1, a2} |->
    IF a = a1 THEN {"malloc", "free", "htod", "dtoh", "add", "sync"}
              ELSE {"malloc", "free"}]
==============================================================================

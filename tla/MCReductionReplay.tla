-------------------------- MODULE MCReductionReplay --------------------------
(***************************************************************************)
(* An instance of ReductionReplay for TLC.  Its substrate combines the     *)
(* shapes the replay tests of substrate.rs use: a carried tail value that  *)
(* an empty chapter passes on, and a contribution a chapter leaves open    *)
(* for a later one to resolve.                                             *)
(***************************************************************************)
EXTENDS ReductionReplay, TLC

(* A chapter's content stands for its stamp.                               *)
(*   open    leaves a contribution of its own dangling                     *)
(*   close   resolves what is carried and leaves nothing                   *)
(*   pass    holds no content: forwards whatever entered                   *)
Contents == {"open", "close", "pass"}

MCStates == [owner : Tokens \cup {NoOwner}, tail : {"start", "word"}]

MCDefault == [owner |-> NoOwner, tail |-> "start"]

MCOwner(state) == state.owner

MCLeaving(o, entering) ==
    CASE o.stamp = "open"  -> [owner |-> o.token, tail |-> "word"]
      [] o.stamp = "close" -> [owner |-> NoOwner, tail |-> "word"]
      [] o.stamp = "pass"  -> entering

Symmetry == Permutations(Tokens)
==============================================================================

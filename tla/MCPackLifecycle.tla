--------------------------- MODULE MCPackLifecycle ---------------------------
(* Small projects for the model checker. *)
EXTENDS PackLifecycle, TLC

CONSTANTS p1, p2, a, b, v1, v2, x, y

\* Pack a renders x and y and drops y in v2.  Pack b renders y: `a` + `b-c` and
\* `a-b` + `c` both make pack-a-b-c.md.
TwoPacks == [r \in Pack \X Version |->
    CASE r = <<a, v1>> -> {x, y}
      [] r = <<a, v2>> -> {x}
      [] r[1] = b -> {y}]

\* One pack with two files, both kept by its upgrade.
OnePack == [r \in Pack \X Version |-> {x, y}]

\* Two packs that render the same single file.
SharedFile == [r \in Pack \X Version |-> {x}]

\* The processes are interchangeable.
ProcSymmetry == Permutations(Proc)
=============================================================================

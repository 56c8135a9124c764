----------------------------- MODULE MCFrontend -----------------------------
(* All modules of one long file and of two short ones.                       *)
EXTENDS Frontend

CONSTANTS OneFile, TwoFiles  (* Bounds on the number of tokens of a file.    *)

ASSUME BoundsAssumption == OneFile \in Nat /\ TwoFiles \in Nat

FilesUpTo(n) ==
  UNION {[1..k -> TokenKinds \ {"lexerr"}] : k \in 0..n} \cup {<<"lexerr">>}

MCModules ==
  {<<f>> : f \in FilesUpTo(OneFile)} \cup {<<f, g>> : f, g \in FilesUpTo(TwoFiles)}
=============================================================================

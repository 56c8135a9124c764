--------------------------- MODULE CodegenMeaning ---------------------------
(***************************************************************************)
(* The code generated for a module implements what its source means.       *)
(***************************************************************************)
EXTENDS Codegen

Meaning == INSTANCE SourceMeaning WITH source <- module.source

\* The type checker's trees, the basic blocks and their execution have the
\* effects of the source, in the order of the source: the program asks as
\* often, ends the same way, and it does end if the source does.
RunsLikeTheSource == Meaning!MeaningSpec
=============================================================================

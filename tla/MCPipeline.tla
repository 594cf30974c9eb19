----------------------------- MODULE MCPipeline -----------------------------
(***************************************************************************)
(* A small instance of Pipeline for TLC: a picture, a video of it and a    *)
(* frame cut from the video; a run of everything, one from the second task *)
(* on and one of the first task alone; a run with a browser and nobody     *)
(* there, the same one with every try judged by a person (--gate-extract), *)
(* and one without a browser that stops at the first failure.              *)
(***************************************************************************)
EXTENDS Pipeline

MCTypeOf == <<"image", "video", "extract">>
MCInputsOf == <<{}, {1}, {2}>>
MCScopes == {1 .. 3, 2 .. 3, {1}}
MCModes ==
  {[auto |-> TRUE, gateExtract |-> FALSE, stop |-> FALSE, tool |-> TRUE,
    attended |-> FALSE],
   [auto |-> FALSE, gateExtract |-> TRUE, stop |-> FALSE, tool |-> TRUE,
    attended |-> TRUE],
   [auto |-> TRUE, gateExtract |-> FALSE, stop |-> TRUE, tool |-> FALSE,
    attended |-> TRUE]}
=============================================================================

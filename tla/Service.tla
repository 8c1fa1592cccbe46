------------------------------- MODULE Service --------------------------------
(***************************************************************************)
(* deepseek-hybrid-router.service: uvicorn runs the application in several   *)
(* worker processes, which share the files and nothing else.                *)
(***************************************************************************)
EXTENDS FiniteSets

CONSTANT Workers   \* the worker processes, two in the service file

ASSUME WorkersAssumption == IsFiniteSet(Workers)
=============================================================================

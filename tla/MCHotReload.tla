----------------------------- MODULE MCHotReload -----------------------------
(***************************************************************************)
(* An engine with a manager that an application goroutine also reloads by  *)
(* hand, and one with CompiledRules; the file is written twice, and a      *)
(* worker of each engine evaluates.                                        *)
(***************************************************************************)
EXTENDS HotReload, TLC

OneWorkerEach == ("w1" :> "e1") @@ ("w2" :> "e2")
=============================================================================

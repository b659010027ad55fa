--------------------------- MODULE ConfigurationDAL ---------------------------
(***************************************************************************)
(* The configuration DAL (common/configuration/dal/dal.go): four methods  *)
(* over the module_configuration table, each running one generated query  *)
(* and translating its error at the edge with dalerrs.TranslatePGError.   *)
(*                                                                         *)
(* The queries are not under src/, so a method is modelled as a function *)
(* of the class of error its query returned (any class of DALErrors; a   *)
(* value is read when the query succeeds). The result records whether a *)
(* value is returned and the error.                                       *)
(***************************************************************************)
EXTENDS DALErrors

(* GetModuleConfiguration and ListModuleConfiguration: nil and the        *)
(* translated error when the query fails, the value and nil otherwise.   *)
GetModuleConfiguration(q) ==
  IF q # "ok" THEN [val |-> FALSE, err |-> TranslatePGError(q)]
              ELSE [val |-> TRUE, err |-> "ok"]

ListModuleConfiguration(q) ==
  IF q # "ok" THEN [val |-> FALSE, err |-> TranslatePGError(q)]
              ELSE [val |-> TRUE, err |-> "ok"]

(* SetModuleConfiguration and UnsetModuleConfiguration return             *)
(* TranslatePGError(err), which is nil when the query succeeded.          *)
SetModuleConfiguration(q) == [val |-> FALSE, err |-> TranslatePGError(q)]

UnsetModuleConfiguration(q) == [val |-> FALSE, err |-> TranslatePGError(q)]

==============================================================================

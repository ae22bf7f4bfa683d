----------------------------- MODULE MCServices -----------------------------
(***************************************************************************)
(* One instance of each of six parts that share no state: the automation,  *)
(* the provider's budget, the rotation of the logs, the geographic grid,   *)
(* the visit of a website and the exports.  part says which of them a      *)
(* behaviour shows; the others stand still, since no step of theirs can    *)
(* matter to it.                                                           *)
(***************************************************************************)
EXTENDS Automation, ProviderBudget, LogRotation, GeographicGrid, WebsiteVisit, ExportFiles,
        TLC

AllPeriodic == [s \in Schedules |-> "PERIODIC"]
TwoConfigs == {[concurrent |-> 1, delay |-> d, daily |-> 1, monthly |-> 2] : d \in {0, 1}}

Page(protocol, plain, fragment, host) ==
  [protocol |-> protocol, plain |-> plain, fragment |-> fragment, host |-> host]

FiveAddresses == {Page("none", TRUE, TRUE, "a"), Page("http", TRUE, FALSE, "b"),
                  Page("https", FALSE, FALSE, "a"), Page("other", TRUE, FALSE, "a"),
                  Page("https", TRUE, FALSE, "localhost")}

CONSTANTS s1, k1, k2, c1, g1, n1, n2, p1, p2, e1, e2

VARIABLE part

vars == <<part, autoVars, budgetVars, logVars, gridVars, visitVars, exportVars>>

Init ==
  /\ part \in {"automation", "budget", "logs", "grid", "visit", "export"}
  /\ AutomationInit /\ BudgetInit /\ LogInit /\ GridInit /\ VisitInit /\ ExportInit
  /\ part # "visit" => current = Page("none", TRUE, TRUE, "a")
  /\ part # "export" => stock = 0
  /\ config.delay = DefaultDelay

Next ==
  \/ /\ part = "automation" /\ AutomationNext
     /\ UNCHANGED <<part, budgetVars, logVars, gridVars, visitVars, exportVars>>
  \/ /\ part = "budget" /\ BudgetNext
     /\ UNCHANGED <<part, autoVars, logVars, gridVars, visitVars, exportVars>>
  \/ /\ part = "logs" /\ LogNext
     /\ UNCHANGED <<part, autoVars, budgetVars, gridVars, visitVars, exportVars>>
  \/ /\ part = "grid" /\ GridNext
     /\ UNCHANGED <<part, autoVars, budgetVars, logVars, visitVars, exportVars>>
  \/ /\ part = "visit" /\ VisitNext
     /\ UNCHANGED <<part, autoVars, budgetVars, logVars, gridVars, exportVars>>
  \/ /\ part = "export" /\ ExportNext
     /\ UNCHANGED <<part, autoVars, budgetVars, logVars, gridVars, visitVars>>

Fairness ==
  \A k \in Ticks : /\ WF_autoVars(part = "automation" /\ StartTick(k))
                   /\ WF_autoVars(part = "automation" /\ Handle(k))

Spec == Init /\ [][Next]_vars /\ Fairness
=============================================================================

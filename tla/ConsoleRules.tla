---------------------------- MODULE ConsoleRules ----------------------------
(***************************************************************************)
(* The access rules page of the console (TenantRulesPage.tsx and           *)
(* components/tenant/rules), with the rule operations of PlatformContext   *)
(* and the rows of the backend's rules.py.                                 *)
(*                                                                         *)
(* A rule is its type, whether it is active and whether it names gates.    *)
(* The rules of the model are about the same target at all sites.  A type  *)
(* is a name and its case, because toLowerCase and upper() decide how it   *)
(* is read; names and texts are left out.                                  *)
(***************************************************************************)
EXTENDS Integers, FiniteSets

CONSTANTS RuleIds, MaxRuleOps

VARIABLES
  ruleRows,     \* tenant_access_rules
  tenantAccessRules,
  ruleOps,
  ruleDialog,   \* the dialog that covers the page, and its rule
  wizard,       \* the form of CreateEditRuleModal
  isSubmitting,
  submitTimers,       \* submissions whose 400 ms are not over
  simulation    \* RuleSimulatorModal: its plate, the plate asked, the plate of the result

ruleVars == <<ruleRows, tenantAccessRules, ruleOps, ruleDialog, wizard, isSubmitting, submitTimers,
              simulation>>
formVars == <<wizard, isSubmitting, submitTimers>>

R == INSTANCE TenantReload
       WITH rows <- ruleRows, view <- tenantAccessRules, ops <- ruleOps, MaxOps <- MaxRuleOps

Type(name) == [name |-> name, upper |-> FALSE]
Upper(t) == [t EXCEPT !.upper = TRUE]
Lower(t) == [t EXCEPT !.upper = FALSE]

(* What the page shows of a row.                                           *)
mapRule(r) ==
  [id |-> r.id, type |-> r.type, code |-> Upper(r.type), active |-> r.active, gates |-> r.gates,
   action |-> IF r.type = Type("deny") THEN "deny" ELSE "allow"]

Rules == {mapRule(r) : r \in tenantAccessRules}

(* What the edge and decide_access do with a row.                          *)
Denies(r) == r.active /\ r.type = Type("deny_list")

-----------------------------------------------------------------------------
(* PlatformContext.  A body says which fields it has; RuleIn wants a name  *)
(* and a type.                                                             *)

RuleBody(named, type, active, gates) ==
  [named |-> named, type |-> type, active |-> active, gates |-> gates]

detectRuleConflicts(form) ==
  {o.id : o \in {o \in Rules : o.id # form.rule /\ o.active /\ o.action # form.action}}

createTenantAccessRule(s) ==
  R!Begin("create", "new", RuleBody(TRUE, Type(s.action), TRUE, s.gates))

updateTenantAccessRule(s) ==
  R!Begin("update", s.rule, RuleBody(TRUE, Type(s.action), ~s.draft, s.gates))

(* The rule as the page shows it: its code, and no gates.                  *)
setRuleActive(r, active) == R!Begin("update", r.id, RuleBody(TRUE, r.code, active, "all"))

duplicateTenantAccessRule(r) ==
  R!Begin("create", "new", RuleBody(TRUE, Lower(r.type), FALSE, "all"))

deleteTenantAccessRule(id) == R!Begin("delete", id, RuleBody(FALSE, Type("none"), FALSE, "all"))

(* The first of its requests has a priority only.                          *)
reorderRulePriorities(ids) ==
  \E id \in ids : R!Begin("update", id, RuleBody(FALSE, Type("none"), FALSE, "all"))

(* rules.py.                                                               *)
NewRow(id, b) == [id |-> id, type |-> b.type, active |-> b.active, gates |-> b.gates]

RuleResults(op) ==
  CASE op.kind = "create" -> {ruleRows \cup {NewRow(id, op.body)} :
                                id \in {i \in RuleIds : R!Row(i) = {}}}
    [] op.kind = "update" -> IF op.body.named /\ R!Row(op.id) # {}
                             THEN {(ruleRows \ R!Row(op.id)) \cup {NewRow(op.id, op.body)}} ELSE {}
    [] op.kind = "delete" -> IF R!Row(op.id) # {} THEN {ruleRows \ R!Row(op.id)} ELSE {}

RuleRequests ==
  /\ \E op \in ruleOps :
       \/ \E new \in RuleResults(op) : R!Served(op, new) \/ R!AnswerLost(op, new)
       \/ R!Fails(op) \/ R!LoadServed(op) \/ R!LoadEnds(op)
  /\ UNCHANGED <<ruleDialog, formVars, simulation>>

-----------------------------------------------------------------------------
(* CreateEditRuleModal.                                                    *)

(* A mutant: the effect that resets the form ends the submission too.      *)
OpenedFresh(busy) == FALSE

(* What opening the wizard does to isSubmitting: nothing.                  *)
Opened(busy) == busy

NewForm == [rule |-> "new", step |-> 1, ok |-> [s \in 1..5 |-> s # 1],
            action |-> "allow", gates |-> "all", conflicts |-> {}]
EditForm(r) == [NewForm EXCEPT !.rule = r.id, !.ok = [s \in 1..5 |-> TRUE],
                               !.action = r.action, !.gates = r.gates]

(* The effect on the fields; a reload of the rules does not run it.        *)
Warned(form) == [form EXCEPT !.conflicts = detectRuleConflicts(form)]

NoDialog == [kind |-> "none", rule |-> {}]

(* The effect on [ruleToEdit, isOpen]; it runs when the wizard closes too. *)
OpenWizard(form) ==
  /\ ruleDialog' = [kind |-> "wizard", rule |-> {}]
  /\ wizard' = Warned(form)
  /\ isSubmitting' = Opened(isSubmitting)
  /\ UNCHANGED <<ruleRows, tenantAccessRules, ruleOps, submitTimers, simulation>>

CloseWizard == ruleDialog' = NoDialog /\ wizard' = NewForm

(* ok[s]: what validateStep(s) says.                                       *)
validateStep(s) == IF s = 6 THEN TRUE ELSE wizard.ok[s]

InWizard == ruleDialog.kind = "wizard"
SetForm(w) ==
  wizard' = w /\ UNCHANGED <<ruleRows, tenantAccessRules, ruleOps, ruleDialog, isSubmitting, submitTimers,
                             simulation>>

(* The buttons below a step, those that are not disabled.                  *)
FooterButtons ==
  (IF wizard.step < 6 THEN {"next"} ELSE IF isSubmitting THEN {} ELSE {"draft", "save"})
    \cup (IF wizard.step > 1 /\ ~isSubmitting THEN {"back"} ELSE {})

handleNext == InWizard /\ "next" \in FooterButtons /\ validateStep(wizard.step)
              /\ SetForm([wizard EXCEPT !.step = @ + 1])

handleBack == InWizard /\ "back" \in FooterButtons
              /\ SetForm([wizard EXCEPT !.step = @ - 1])

(* The stepper in the header goes anywhere from a step that is valid.      *)
Stepper(s) == InWizard /\ s # wizard.step /\ (s < wizard.step \/ validateStep(wizard.step))
              /\ SetForm([wizard EXCEPT !.step = s])

(* What the fields of a step can be turned into.                           *)
BasicInfo(w) == {[w EXCEPT !.ok[1] = v] : v \in BOOLEAN}
TargetEntity(w) == {[w EXCEPT !.ok[2] = v] : v \in BOOLEAN}
Scope(w) == {[w EXCEPT !.gates = g, !.ok[3] = g # "none"] : g \in {"all", "some", "none"}}
OperatingSchedule(w) == {[w EXCEPT !.ok[4] = v] : v \in BOOLEAN}
ActionPriority(w) == {[w EXCEPT !.action = a, !.ok[5] = v] : a \in {"allow", "deny"}, v \in BOOLEAN}
Review(w) == {w}

FillIn ==
  /\ InWizard
  /\ \E w \in CASE wizard.step = 1 -> BasicInfo(wizard)
                [] wizard.step = 2 -> TargetEntity(wizard)
                [] wizard.step = 3 -> Scope(wizard)
                [] wizard.step = 4 -> OperatingSchedule(wizard)
                [] wizard.step = 5 -> ActionPriority(wizard)
                [] OTHER -> Review(wizard) :
       w # wizard /\ SetForm(Warned(w))

(* Both buttons of the review pass the status: the one of step 1 is unused. *)
handleSubmit(draft) ==
  /\ InWizard /\ (IF draft THEN "draft" ELSE "save") \in FooterButtons
  /\ \A s \in 1..5 : validateStep(s)
  /\ isSubmitting' = TRUE
  /\ submitTimers' = submitTimers \cup {[rule |-> wizard.rule, action |-> wizard.action,
                             gates |-> wizard.gates, draft |-> draft]}
  /\ UNCHANGED <<ruleRows, tenantAccessRules, ruleOps, ruleDialog, wizard, simulation>>

(* setTimeout: the request, whose result nobody reads, then onClose.       *)
SubmitTimer ==
  \E s \in submitTimers :
    /\ IF s.rule = "new" THEN createTenantAccessRule(s) ELSE updateTenantAccessRule(s)
    /\ submitTimers' = submitTimers \ {s}
    /\ isSubmitting' = FALSE
    /\ IF InWizard THEN CloseWizard ELSE UNCHANGED <<ruleDialog, wizard>>
    /\ UNCHANGED simulation

-----------------------------------------------------------------------------
(* The page, the drawer and the other dialogs.  A dialog keeps the rule as *)
(* it was when it was opened.                                              *)

OpenDialog(kind, rule) ==
  /\ ruleDialog' = [kind |-> kind, rule |-> rule]
  /\ UNCHANGED <<ruleRows, tenantAccessRules, ruleOps, formVars, simulation>>

(* The cross and the backdrop, which do not wait for a submission.         *)
CloseDialog ==
  /\ ruleDialog # NoDialog
  /\ CloseWizard
  /\ UNCHANGED <<ruleRows, tenantAccessRules, ruleOps, isSubmitting, submitTimers, simulation>>

DialogStays == UNCHANGED <<ruleDialog, formVars, simulation>>
DialogCloses == ruleDialog' = NoDialog /\ UNCHANGED <<formVars, simulation>>

(* The rules a filter of the toolbar leaves.                               *)
RuleFilters == {"all", "active", "inactive", "allow", "deny"}
filteredRules(f) ==
  {r \in Rules : CASE f = "active" -> r.active [] f = "inactive" -> ~r.active
                   [] f \in {"allow", "deny"} -> r.action = f [] OTHER -> TRUE}

handleToggleStatus(r) == setRuleActive(r, ~r.active)

(* What each place offers for a rule.                                      *)
CardButtons == {"drawer", "simulate", "edit", "duplicate", "toggle", "delete"}
TableButtons == {"drawer", "simulate", "edit", "delete"}
DrawerButtons == {"simulate", "edit", "toggle", "duplicate", "delete"}

PressRule(button, r) ==
  \/ button = "edit" /\ OpenWizard(EditForm(r))
  \/ button = "toggle" /\ handleToggleStatus(r) /\ DialogStays
  \/ button = "duplicate" /\ duplicateTenantAccessRule(r) /\ DialogStays
  \/ button \in {"drawer", "simulate", "delete"} /\ OpenDialog(button, {r})

PageButton ==
  /\ ruleDialog = NoDialog
  /\ \/ \E f \in RuleFilters : \E r \in filteredRules(f) :
          \E button \in CardButtons \cup TableButtons : PressRule(button, r)
     \/ OpenWizard(NewForm)
     \/ OpenDialog("simulate", {}) \/ OpenDialog("reorder", {})

DrawerButton ==
  /\ ruleDialog.kind = "drawer"
  /\ \E r \in ruleDialog.rule, button \in DrawerButtons : PressRule(button, r)

(* RuleDeleteConfirmDialog.                                                *)
ConfirmDelete ==
  /\ ruleDialog.kind = "delete"
  /\ \E r \in ruleDialog.rule : deleteTenantAccessRule(r.id)
  /\ DialogCloses

(* RulePriorityReorderModal: the ids in the order they were moved to.      *)
handleSave ==
  /\ ruleDialog.kind = "reorder"
  /\ reorderRulePriorities({r.id : r \in tenantAccessRules})
  /\ DialogCloses

(* RuleSimulatorModal: the result stays when the plate is changed and when *)
(* the dialog is closed.                                                   *)
setPlate(p) ==
  ruleDialog.kind = "simulate" /\ simulation' = [simulation EXCEPT !.plate = p]
handleRunSimulation ==
  /\ ruleDialog.kind = "simulate" /\ simulation.asked = "none"
  /\ simulation' = [simulation EXCEPT !.asked = simulation.plate]
SimulationAnswered ==
  /\ simulation.asked # "none"
  /\ \E res \in {simulation.asked, simulation.result} :
       simulation' = [simulation EXCEPT !.asked = "none", !.result = res]

Simulator ==
  /\ (\E p \in {"p1", "p2"} : setPlate(p)) \/ handleRunSimulation \/ SimulationAnswered
  /\ UNCHANGED <<ruleRows, tenantAccessRules, ruleOps, ruleDialog, formVars>>

RulesInit(deny) ==
  /\ ruleRows = {[id |-> id, type |-> deny, active |-> TRUE, gates |-> "some"] :
                   id \in {CHOOSE id \in RuleIds : TRUE}}
  /\ tenantAccessRules = ruleRows
  /\ ruleOps = {} /\ submitTimers = {} /\ isSubmitting = FALSE
  /\ ruleDialog = NoDialog /\ wizard = NewForm
  /\ simulation = [plate |-> "p1", asked |-> "none", result |-> "none"]

WizardStep ==
  \/ handleNext \/ handleBack \/ FillIn
  \/ \E s \in 1..6 : Stepper(s)
  \/ \E draft \in BOOLEAN : handleSubmit(draft)

RulesNext ==
  \/ RuleRequests \/ WizardStep \/ SubmitTimer
  \/ PageButton \/ DrawerButton \/ ConfirmDelete \/ handleSave \/ CloseDialog \/ Simulator

RulesSpec ==
  (\E name \in {"deny", "deny_list"} : RulesInit(Type(name))) /\ [][RulesNext]_ruleVars

-----------------------------------------------------------------------------
(* A press of Save makes one request, whatever is closed and opened again  *)
(* in the 400 ms before it is sent.                                        *)
SubmissionUnique == Cardinality(submitTimers) <= 1 /\ (isSubmitting <=> submitTimers # {})

(* `Barrier remains closed' (CreateEditRuleModal.tsx:1004): an active rule *)
(* that the page shows as DENY denies.                                     *)
DenyEnforced == \A r \in ruleRows : r.active /\ mapRule(r).action = "deny" => Denies(r)

(* `Save policy configuration without active gate enforcement'             *)
(* (CreateEditRuleModal.tsx:546): what was saved as a draft is not active. *)
DraftInactive ==
  [][\A s \in submitTimers \ submitTimers', op \in ruleOps' \ ruleOps : s.draft => ~op.body.active]_ruleVars

(* `echo the stored rule alongside the toggle' (PlatformContext.tsx:2041): *)
(* switching a rule off and on changes nothing else of it.                 *)
EchoesStored ==
  [][DialogStays /\ ruleOps # ruleOps' =>
       \A op \in ruleOps' \ ruleOps, r \in tenantAccessRules :
          op.at = "sent" /\ op.kind = "update" /\ op.id = r.id =>
            op.body.type = r.type /\ op.body.gates = r.gates]_ruleVars

(* `Priorities will automatically re-index' (RulePriorityReorderModal.tsx: *)
(* 163): the server takes the requests of a reordering.                    *)
ReorderReindexes ==
  \A op \in ruleOps :
    op.kind = "update" /\ op.at = "sent" /\ R!Row(op.id) # {} => RuleResults(op) # {}
=============================================================================

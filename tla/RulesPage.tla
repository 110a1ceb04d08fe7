----------------------------- MODULE RulesPage -----------------------------
(***************************************************************************)
(* The pages of the rules: frontend/src/routes/block-rules.tsx with its    *)
(* table, its filters and BulkAddBlockRulesModal, which reads CSV          *)
(* (lib/csv-parser.ts), and routes/url-rules.tsx; what they send is        *)
(* handled in BlockRules.  Of a text only whether it is empty matters.     *)
(* The dialog is opened and closed only while the bound leaves room for    *)
(* something to do after it.                                               *)
(***************************************************************************)
EXTENDS BlockRules

CONSTANT CsvRow      \* rows of a CSV file: [type, value, domain, extra]

\* A file has an end, and the domains a row may have are those of the rules.
ASSUME CsvAssumption ==
  IsFiniteSet(CsvRow) /\ \A row \in CsvRow : row.domain \in {"", "value", "other"}

VARIABLES ruleForm,  \* ruleType, value, domain
          bulk,      \* the dialog: open, text, rows being registered, result, error
          view,      \* typeFilter, domainFilter, sortField, sortDirection
          urlForm,   \* domain, ruleType, pattern
          listed     \* query data of ["block-rules"] and ["url-rules"]

ruleForms == <<ruleForm, bulk, urlForm>>
rulesPage == <<ruleForms, view, listed>>
ruleVars == <<ruleDb, job, scans, asked, ruleActs, story, rulesPage>>

NoFilter == "all"
Field == {"ruleType", "value", "domain"}
Domain == {"", "value", "other"}
Form == [type : Type, value : BOOLEAN, domain : {"", "other"}]
UrlForm == [domain : BOOLEAN, type : UrlType, pattern : BOOLEAN]
Unsorted == [field |-> "none", down |-> FALSE]

\* Rows that can be registered, and all the rows of the text.
RowCounts == [success : 0 .. Cardinality(CsvRow), total : 0 .. Cardinality(CsvRow)]
ClosedBulk == [open |-> FALSE, text |-> {}, counts |-> {}, result |-> {}, error |-> FALSE]

RulesPageTypeOK ==
  /\ RulesTypeOK
  /\ ruleForm \in Form /\ urlForm \in UrlForm
  /\ bulk \in [open : BOOLEAN, text : SUBSET CsvRow, counts : SUBSET RowCounts,
               result : SUBSET RowCounts, error : BOOLEAN]
  /\ view.type \in Type \cup {NoFilter} /\ view.domain \in Domain \cup {NoFilter}
  /\ view.sort \in [field : Field \cup {"none"}, down : BOOLEAN]
  /\ listed.rules \subseteq Rule \X RuleId /\ listed.urlRules \subseteq UrlType

RulesPageInit ==
  /\ RulesInit
  /\ ruleForm = [type |-> "user", value |-> FALSE, domain |-> ""]
  /\ bulk = ClosedBulk
  /\ view = [type |-> NoFilter, domain |-> NoFilter, sort |-> Unsorted]
  /\ urlForm = [domain |-> FALSE, type |-> "subdomain", pattern |-> FALSE]
  /\ listed = [rules |-> {}, urlRules |-> urlRules]

Idle(m) == asked[m].phase = "idle"
RulesReachable == ~bulk.open
SetAsked(m, request) == asked' = [asked EXCEPT ![m] = request]
Request == [Unasked EXCEPT !.phase = "sent"]

-----------------------------------------------------------------------------
(* The table.                                                              *)

\* rulesQuery: what the filters let through.
RuleRows ==
  {rule \in listed.rules : /\ view.type \in {NoFilter, rule[1].type}
                           /\ view.domain \in {NoFilter, rule[1].domain}}

\* The options of the second filter are the domains of all rules.
UniqueDomains == {rule[1].domain : rule \in listed.rules} \ {""}

SortIndicator(field) ==
  IF view.sort.field # field THEN {} ELSE {IF view.sort.down THEN "down" ELSE "up"}

\* A row: a badge of its domain if it has one, and Delete.
DomainBadge(rule) == {rule[1].domain} \ {""}
DeleteEnabled == Idle("delete")

\* The buttons of the narrow screen: the direction only once there is a field.
SortButtons == IF view.sort.field = "none" THEN {} ELSE {"direction"}

\* A filter on a domain stays when its last rule goes.
SetFilters(type, domain) ==
  /\ RulesReachable /\ RuleAct
  /\ domain \in UniqueDomains \cup {NoFilter, view.domain}
  /\ view' = [view EXCEPT !.type = type, !.domain = domain]
  /\ view' # view
  /\ UNCHANGED <<ruleDb, job, scans, asked, story, ruleForms, listed>>

\* toggleSort, by a header, or by the select and the button of the narrow
\* screen.
ToggleSort(field) ==
  /\ RulesReachable /\ RuleAct
  /\ view' = [view EXCEPT !.sort =
                IF field = "none" THEN Unsorted
                ELSE [field |-> field, down |-> SortIndicator(field) = {"up"}]]
  /\ UNCHANGED <<ruleDb, job, scans, asked, story, ruleForms, listed>>

\* Delete sends the id the row has.
Delete(rule) ==
  /\ RulesReachable /\ rule \in RuleRows /\ DeleteEnabled /\ RuleAct
  /\ SetAsked("delete", [Request EXCEPT !.id = rule[2]])
  /\ UNCHANGED <<ruleDb, job, scans, story, rulesPage>>

-----------------------------------------------------------------------------
(* The form.                                                               *)

AddRuleEnabled == Idle("add")

Fill(f) ==
  /\ RulesReachable /\ f # ruleForm /\ RuleAct
  /\ ruleForm' = f
  /\ UNCHANGED <<ruleDb, job, scans, asked, story, bulk, urlForm, view, listed>>

\* Mutated Submittable: a rule on a user at no domain is sent, too.
SubmittableAny(f) == f.value

Submittable(f) == f.value /\ (f.type \in {"user_domain", "domain"} => f.domain # "")

HandleSubmit ==
  /\ RulesReachable /\ AddRuleEnabled /\ Submittable(ruleForm) /\ RuleAct
  /\ SetAsked("add", [Request EXCEPT !.inputs = {ruleForm}])
  /\ UNCHANGED <<ruleDb, job, scans, story, rulesPage>>

-----------------------------------------------------------------------------
(* BulkAddBlockRulesModal.                                                 *)

\* parseCSVBlockRules: a domain rule without a domain is about its value.
Parsed(row) ==
  [type |-> row.type, value |-> row.value,
   domain |-> IF row.domain = "" /\ row.type = "domain" /\ row.value THEN "value"
              ELSE row.domain]

RowError(row) ==
  IF row.extra THEN "Too many columns"
  ELSE IF row.type \notin Type THEN "Invalid rule type"
  ELSE IF ~row.value THEN "Missing value"
  ELSE IF row.type = "user_domain" /\ row.domain = "" THEN "Missing domain for user_domain"
  ELSE "none"

\* The table below the text.
Preview == [row \in bulk.text |-> [rule |-> Parsed(row), error |-> RowError(row)]]

ValidRows == {row \in bulk.text : Preview[row].error = "none"}

\* Equal ones are one.
ValidRules == {Preview[row].rule : row \in ValidRows}

BulkPending == ~Idle("bulk")

Buttons == IF bulk.result # {} THEN {"Done"}
           ELSE {b \in {"Cancel"} : ~BulkPending}
                  \cup {b \in {"Register"} : ~BulkPending /\ ValidRules # {}}

\* What is said of the result: of how many rows, and whether some were left out.
Summary == {[success |-> n.success, partial |-> n.total > n.success] : n \in bulk.result}

OpenBulk ==
  /\ RulesReachable /\ RuleRoom
  /\ bulk' = [bulk EXCEPT !.open = TRUE]
  /\ UNCHANGED <<ruleDb, job, scans, asked, ruleActs, story, ruleForm, urlForm, view, listed>>

\* Typed, or from a file, also while the last text is being registered.
ChangeText(rows) ==
  /\ bulk.open /\ rows # bulk.text /\ RuleAct
  /\ bulk' = [bulk EXCEPT !.text = rows, !.result = {}, !.error = FALSE]
  /\ UNCHANGED <<ruleDb, job, scans, asked, story, ruleForm, urlForm, view, listed>>

FileUnreadable ==
  /\ bulk.open /\ RuleAct
  /\ bulk' = [bulk EXCEPT !.error = TRUE]
  /\ UNCHANGED <<ruleDb, job, scans, asked, story, ruleForm, urlForm, view, listed>>

\* The rows are counted now, whatever the text is by the time of the answer.
HandleRegister ==
  /\ bulk.open /\ "Register" \in Buttons /\ RuleAct
  /\ SetAsked("bulk", [Request EXCEPT !.inputs = ValidRules])
  /\ bulk' = [bulk EXCEPT !.error = FALSE, !.counts =
                {[success |-> Cardinality(ValidRows), total |-> Cardinality(bulk.text)]}]
  /\ UNCHANGED <<ruleDb, job, scans, story, ruleForm, urlForm, view, listed>>

\* By a button, Escape, or a click beside it; not while rules are registered.
HandleClose ==
  /\ bulk.open /\ ~BulkPending /\ RuleRoom
  /\ bulk' = ClosedBulk
  /\ UNCHANGED <<ruleDb, job, scans, asked, ruleActs, story, ruleForm, urlForm, view, listed>>

-----------------------------------------------------------------------------
(* URL rules.                                                              *)

UrlFill(f) ==
  /\ RulesReachable /\ f # urlForm /\ RuleAct
  /\ urlForm' = f
  /\ UNCHANGED <<ruleDb, job, scans, asked, story, ruleForm, bulk, view, listed>>

UrlSubmit ==
  /\ RulesReachable /\ Idle("urlAdd") /\ urlForm.domain /\ urlForm.pattern /\ RuleAct
  /\ SetAsked("urlAdd", [Request EXCEPT !.url = {urlForm.type}])
  /\ UNCHANGED <<ruleDb, job, scans, story, rulesPage>>

UrlDelete(type) ==
  /\ RulesReachable /\ type \in listed.urlRules /\ Idle("urlDelete") /\ RuleAct
  /\ SetAsked("urlDelete", [Request EXCEPT !.url = {type}])
  /\ UNCHANGED <<ruleDb, job, scans, story, rulesPage>>

-----------------------------------------------------------------------------
(* Answers.                                                                *)

\* onSuccess clears a form, with what was typed since it was sent.
RuleOver(m, ok) ==
  /\ ruleForm' = IF m = "add" /\ ok
                 THEN [ruleForm EXCEPT !.value = FALSE, !.domain = ""] ELSE ruleForm
  /\ urlForm' = IF m = "urlAdd" /\ ok
                THEN [urlForm EXCEPT !.domain = FALSE, !.pattern = FALSE] ELSE urlForm
  /\ bulk' = CASE m = "bulk" /\ ok -> [bulk EXCEPT !.text = {}, !.counts = {},
                                                    !.result = bulk.counts]
               [] m = "bulk" /\ ~ok -> [bulk EXCEPT !.error = TRUE, !.counts = {}]
               [] OTHER -> bulk

\* The list is loaded again in time; an answer may also be lost.
RuleAnswered(m) ==
  /\ asked[m].phase \in {"done", "refused"}
  /\ \E ok \in {FALSE, asked[m].phase = "done"} : RuleOver(m, ok)
  /\ SetAsked(m, Unasked)
  /\ UNCHANGED <<ruleDb, job, scans, ruleActs, story, view, listed>>

\* itemBlockRulesQueryOptions, urlParsingRulesQueryOptions.
List ==
  /\ listed' = [rules |-> {<<r, rules[r]>> : r \in {s \in Rule : Present(s)}},
                urlRules |-> urlRules]
  /\ listed' # listed
  /\ UNCHANGED <<ruleDb, job, scans, asked, ruleActs, story, ruleForms, view>>

PageStep ==
  \/ \E f \in Form : Fill(f)
  \/ \E f \in UrlForm : UrlFill(f)
  \/ \E rows \in SUBSET CsvRow : ChangeText(rows)
  \/ \E type \in Type \cup {NoFilter}, domain \in Domain \cup {NoFilter} :
       SetFilters(type, domain)
  \/ \E field \in Field \cup {"none"} : ToggleSort(field)
  \/ \E rule \in listed.rules : Delete(rule)
  \/ \E type \in UrlType : UrlDelete(type)
  \/ HandleSubmit \/ OpenBulk \/ FileUnreadable \/ HandleRegister \/ HandleClose \/ UrlSubmit
  \/ List
  \/ \E m \in Source : RuleAnswered(m)

RulesPageNext == PageStep \/ (RulesStep /\ UNCHANGED rulesPage)

RulesPageSpec == RulesPageInit /\ [][RulesPageNext]_ruleVars

-----------------------------------------------------------------------------
(* Properties.                                                             *)

\* Whatever order rules are added in, items saved, and scans run: once a rule's
\* scan is over, each stored item it matches has its block, also one that was
\* saved or changed while the scan ran; but for a scan cut short, and for rules
\* on users after the URL rules changed (handler.go:1270, write_queue.go:122).
BlocksComplete ==
  \A r \in Rule \ lost :
    /\ Present(r) /\ ~\E s \in scans : <<r, rules[r]>> \in s.rules
    /\ r.type \in {"user", "user_domain"} => ~drifted
    => \A i \in StoredItem :
         ShouldBlock(i, items[i], r, urlRules) => <<i, rules[r]>> \in blocks

\* What the forms and the CSV dialog let through is what the server accepts:
\* two hand-written validations agree (block-rules.tsx:118, csv-parser.ts:107,
\* handler.go:1230).
FormsAccepted ==
  \A m \in Source : asked[m].phase = "sent" =>
    /\ \A input \in asked[m].inputs : Valid(input)
    /\ m \in {"add", "bulk"} => asked[m].inputs # {}
    /\ m = "urlAdd" => asked[m].url # {}
=============================================================================

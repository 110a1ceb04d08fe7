-------------------------- MODULE BlockRulesProofs --------------------------
(***************************************************************************)
(* For any items, versions, rules and number of acts, and any CSV file:    *)
(* every stored item that a rule matches has its block once the rule's     *)
(* scan is over.  What a scan misses, since it works on a snapshot of the  *)
(* items, a job has written that knew the rule.  What the two forms and    *)
(* the CSV dialog send is valid.  And everything has its type.             *)
(***************************************************************************)
EXTENDS RulesPage, FiniteSetTheorems, TLAPS

-----------------------------------------------------------------------------
(* The inductive invariant.                                                *)

AskField == {"phase", "inputs", "id", "url"}

\* What is typed, parsed and sent has one of the three domains.
InputInv ==
  /\ DOMAIN ruleForm = {"type", "value", "domain"} /\ ruleForm.domain \in {"", "other"}
  /\ DOMAIN bulk = {"open", "text", "counts", "result", "error"} /\ bulk.text \subseteq CsvRow
  /\ DOMAIN asked = Source
  /\ \A m \in Source : /\ DOMAIN asked[m] = AskField
                       /\ \A input \in asked[m].inputs : input.domain \in Domain

\* Ids only grow, so that a rule that is deleted and added again is not the
\* one that an earlier scan has.
IdsInv ==
  /\ ids \in Nat /\ DOMAIN items = FeedItem
  /\ rules \in [Rule -> Nat] /\ \A r \in Rule : rules[r] <= ids
  /\ \A s \in scans : /\ DOMAIN s = {"phase", "rules", "urls", "items"}
                      /\ s.rules \subseteq Rule \X (0 .. ids)

JobForm == DOMAIN job = {"phase", "item", "version", "rules", "urls", "stale"}

\* A job whose snapshot is the newest knows the rules that there are.
JobExact ==
  job.phase = "read" /\ ~job.stale =>
    job.urls = urlRules /\ job.rules = {r \in Rule : Present(r)}

\* So does a scan, until the URL rules change.
UrlsExact ==
  ~drifted => \A s \in scans : s.phase \in {"items", "rules"} => s.urls = urlRules

\* The rules whose blocks can be known.
OnUser(r) == r.type \in {"user", "user_domain"}
Sure(r) == Present(r) /\ (OnUser(r) => ~drifted)

Blocked(i, r) ==
  i \in StoredItem /\ ShouldBlock(i, items[i], r, urlRules) => <<i, rules[r]>> \in blocks

\* The rule waits in a scan.
Due(r) == \E s \in scans : <<r, rules[r]>> \in s.rules

\* Of an item that a scan does not have as it is now, a job has taken care.
ScansExact ==
  \A s \in scans : s.phase = "rules" =>
    \A r \in Rule : Sure(r) /\ <<r, rules[r]>> \in s.rules =>
      \A i \in FeedItem : Blocked(i, r) \/ s.items[i] = items[i]

AllBlocked ==
  \A r \in Rule : Sure(r) /\ r \notin lost => Due(r) \/ \A i \in FeedItem : Blocked(i, r)

Scanned == IdsInv /\ UrlsExact /\ ScansExact /\ AllBlocked
RulesInv == InputInv /\ JobForm /\ JobExact /\ Scanned

-----------------------------------------------------------------------------
(* Numbers for new rules.                                                  *)

(* There are finitely many rules.                                          *)
LEMMA RulesFinite == IsFiniteSet(Rule)
<1> DEFINE D == {"", "value", "other"}
           f == [p \in Type \X D |-> [type |-> p[1], domain |-> p[2]]]
<1>1. IsFiniteSet(Type)
  <2>1. Type = ((({} \cup {"user"}) \cup {"domain"}) \cup {"user_domain"}) \cup {"keyword"}
    BY DEF Type
  <2> QED
    BY <2>1, FS_EmptySet, FS_AddElement
<1>2. IsFiniteSet(D)
  <2>1. D = (({} \cup {""}) \cup {"value"}) \cup {"other"}
    OBVIOUS
  <2> HIDE DEF D
  <2> QED
    BY <2>1, FS_EmptySet, FS_AddElement
<1> HIDE DEF D
<1>3. IsFiniteSet(Type \X D)
  BY <1>1, <1>2, FS_Product
<1>4. f \in Surjection(Type \X D, Rule)
  <2>1. Rule = [type : Type, domain : D]
    BY DEF Rule, D
  <2>2. f \in [Type \X D -> Rule]
    BY <2>1
  <2>3. ASSUME NEW r \in Rule PROVE \E p \in Type \X D : f[p] = r
    <3>1. r = [type |-> r.type, domain |-> r.domain] /\ r.type \in Type /\ r.domain \in D
      BY <2>1
    <3>2. <<r.type, r.domain>> \in Type \X D
      BY <3>1
    <3> QED
      BY <3>1, <3>2
  <2> HIDE DEF f
  <2> QED
    BY <2>2, <2>3 DEF Surjection
<1> QED
  BY <1>3, <1>4, FS_Surjection

(* The new rules' ids are new.                                             *)
LEMMA NumbersAreNew ==
  ASSUME ids \in Nat, NEW new \in SUBSET Rule
  PROVE  /\ Cardinality(new) \in Nat
         /\ \A r \in new : /\ Numbered(new)[r] \in Nat /\ Numbered(new)[r] > ids
                           /\ Numbered(new)[r] <= ids + Cardinality(new)
<1> DEFINE n == Cardinality(new)
<1>1. n \in Nat /\ ExistsBijection(1 .. n, new)
  BY RulesFinite, FS_Subset, FS_CardinalityType
<1>2. PICK f \in Bijection(1 .. n, new) : TRUE
  BY <1>1 DEF ExistsBijection
<1> HIDE DEF n
<1>3. /\ f \in [1 .. n -> new]
      /\ \A r \in new : \E k \in 1 .. n : f[k] = r
  BY <1>2 DEF Bijection, Injection, Surjection
<1> DEFINE back(r) == CHOOSE k \in 1 .. n : f[k] = r
           g == [r \in new |-> ids + back(r)]
<1>4. \A r \in new : back(r) \in 1 .. n /\ f[back(r)] = r
  BY <1>3
<1> HIDE DEF back
<1>5. g \in [new -> ids + 1 .. ids + n]
  BY <1>1, <1>4
<1>6. \A r, s \in new : g[r] = g[s] => r = s
  BY <1>1, <1>4
<1> HIDE DEF g
<1>7. Numbered(new) \in [new -> ids + 1 .. ids + n]
  BY <1>5, <1>6 DEF Numbered, n
<1> HIDE DEF n
<1> QED
  BY <1>1, <1>7 DEF n
-----------------------------------------------------------------------------
(* What does not depend on what.                                           *)

(* The domains and keywords of an item do not come from the URL rules.     *)
LEMMA UrlsForUsersOnly ==
  ASSUME NEW r \in Rule, ~OnUser(r), NEW i, NEW v, NEW urls1, NEW urls2
  PROVE  ShouldBlock(i, v, r, urls1) <=> ShouldBlock(i, v, r, urls2)
<1>1. r.type = "keyword" \/ r.type = "domain"
  BY DEF Rule, Type, OnUser
<1>2. "keyword" # "domain"
  OBVIOUS
<1> QED
  BY <1>1, <1>2, Zenon DEF ShouldBlock

(* A commit makes a snapshot old.                                          *)
LEMMA CommitsStale == JobForm /\ Commits => JobForm' /\ JobExact'
<1> SUFFICES ASSUME JobForm, Commits PROVE JobForm' /\ JobExact'
  OBVIOUS
<1> DEFINE old == job.stale \/ job.phase = "read"
<1>1. job' = [job EXCEPT !.stale = old]
  BY DEF Commits
<1>2. job.phase = "read" => old
  OBVIOUS
<1> HIDE DEF old
<1>3. JobForm' /\ job'.phase = job.phase /\ job'.stale = old
  BY <1>1 DEF JobForm
<1> QED
  BY <1>2, <1>3, Zenon DEF JobExact

(* What is known of a job stays while nothing it has read changes.         *)
LEMMA JobStays ==
  ASSUME JobForm, JobExact, UNCHANGED <<job, urlRules>>,
         \A r \in Rule : rules'[r] = rules[r]
  PROVE  JobForm' /\ JobExact'
<1>1. job' = job /\ urlRules' = urlRules
  OBVIOUS
<1>2. {r \in Rule : Present(r)}' = {r \in Rule : Present(r)}
  BY DEF Present
<1> QED
  BY <1>1, <1>2, Zenon DEF JobForm, JobExact

(* Nothing that is stored changes but for the rules, and blocks of rules   *)
(* that are there are kept.                                                *)
LEMMA SameItemsBlocked ==
  ASSUME UNCHANGED <<items, urlRules>>, NEW r \in Rule, rules'[r] = rules[r],
         NEW i \in FeedItem, <<i, rules[r]>> \in blocks => <<i, rules[r]>> \in blocks',
         Blocked(i, r)
  PROVE  Blocked(i, r)'
<1>1. items' = items /\ urlRules' = urlRules
  OBVIOUS
<1> QED
  BY <1>1, Zenon DEF Blocked, StoredItem, ShouldBlock, Extracted

(* So does what is known of scans.                                         *)
LEMMA ScannedStays == Scanned /\ UNCHANGED <<ruleDb, scans, story>> => Scanned'
<1> SUFFICES ASSUME Scanned, UNCHANGED <<ruleDb, scans, story>> PROVE Scanned'
  OBVIOUS
<1>1. /\ items' = items /\ rules' = rules /\ blocks' = blocks /\ urlRules' = urlRules
      /\ ids' = ids /\ scans' = scans /\ lost' = lost /\ drifted' = drifted
  BY DEF ruleDb, story
<1>2. IdsInv'
  BY <1>1 DEF Scanned, IdsInv
<1>3. UrlsExact'
  BY <1>1, Zenon DEF Scanned, UrlsExact
<1>4. \A r \in Rule : /\ (Sure(r)' <=> Sure(r)) /\ (Due(r)' <=> Due(r))
                      /\ \A i \in FeedItem : Blocked(i, r) => Blocked(i, r)'
  BY <1>1, SameItemsBlocked, Zenon DEF Sure, Present, OnUser, Due
<1>5. ScansExact'
  BY <1>1, <1>4, Zenon DEF Scanned, ScansExact
<1>6. AllBlocked'
  BY <1>1, <1>4, Zenon DEF Scanned, AllBlocked
<1> QED
  BY <1>2, <1>3, <1>5, <1>6 DEF Scanned

(* The page stays, and so do the questions but for their phases.           *)
LEMMA InputStays ==
  ASSUME InputInv, UNCHANGED rulesPage,
         asked' = asked \/ \E m \in Source : \E phase : RuleAnswer(m, phase)
  PROVE  InputInv'
<1>1. ruleForm' = ruleForm /\ bulk' = bulk
  BY DEF rulesPage, ruleForms
<1>2. DOMAIN asked' = Source /\ \A m \in Source : DOMAIN asked'[m] = AskField
        /\ asked'[m].inputs = asked[m].inputs
  <2>1. CASE asked' = asked
    BY <2>1 DEF InputInv
  <2>2. ASSUME NEW m \in Source, NEW phase, RuleAnswer(m, phase)
        PROVE  DOMAIN asked' = Source /\ \A k \in Source : DOMAIN asked'[k] = AskField
                 /\ asked'[k].inputs = asked[k].inputs
    <3> DEFINE r == [asked[m] EXCEPT !.phase = phase]
    <3>1. asked' = [asked EXCEPT ![m] = r]
      BY <2>2 DEF RuleAnswer
    <3>2. DOMAIN r = AskField /\ r.inputs = asked[m].inputs
      BY DEF InputInv, AskField
    <3> HIDE DEF r
    <3> QED
      BY <3>1, <3>2 DEF InputInv
  <2> QED
    BY <2>1, <2>2
<1> QED
  BY <1>1, <1>2 DEF InputInv

-----------------------------------------------------------------------------
(* Initially, and on the pages.                                            *)

(* There is nothing yet.                                                   *)
LEMMA RulesInvInit == RulesPageInit => RulesInv
<1> SUFFICES ASSUME RulesPageInit PROVE RulesInv
  OBVIOUS
<1>1. /\ items = [i \in FeedItem |-> 0] /\ rules = [r \in Rule |-> 0] /\ ids = 0
      /\ job = NoJob /\ scans = {} /\ asked = [m \in Source |-> Unasked]
      /\ ruleForm = [type |-> "user", value |-> FALSE, domain |-> ""]
      /\ bulk = ClosedBulk
  BY Zenon DEF RulesPageInit, RulesInit
<1>2. InputInv
  BY <1>1 DEF InputInv, AskField, Unasked, ClosedBulk
<1>3. JobForm /\ job.phase # "read"
  BY <1>1 DEF JobForm, NoJob
<1>4. JobExact
  BY <1>3, Zenon DEF JobExact
<1>5. IdsInv /\ \A r \in Rule : ~Present(r)
  <2>1. items = [i \in FeedItem |-> 0] /\ rules = [r \in Rule |-> 0] /\ ids = 0 /\ scans = {}
    BY <1>1
  <2>2. rules \in [Rule -> Nat] /\ \A r \in Rule : rules[r] <= ids
    BY <2>1
  <2>3. \A r \in Rule : ~Present(r)
    BY <2>1 DEF Present
  <2> QED
    BY <2>1, <2>2, <2>3 DEF IdsInv
<1>6. UrlsExact /\ ScansExact /\ AllBlocked
  BY <1>1, <1>5, Zenon DEF UrlsExact, ScansExact, AllBlocked, Sure
<1> QED
  BY <1>2, <1>3, <1>4, <1>5, <1>6 DEF RulesInv, Scanned

(* A question that is asked has inputs of the three domains.               *)
LEMMA QuestionStays ==
  ASSUME InputInv, NEW m, NEW request, SetAsked(m, request), DOMAIN request = AskField,
         \A input \in request.inputs : input.domain \in Domain
  PROVE  /\ DOMAIN asked' = Source
         /\ \A k \in Source : /\ DOMAIN asked'[k] = AskField
                              /\ \A input \in asked'[k].inputs : input.domain \in Domain
  BY DEF InputInv, SetAsked

(* A question without inputs.                                              *)
LEMMA PlainQuestions ==
  /\ DOMAIN Unasked = AskField /\ Unasked.inputs = {}
  /\ DOMAIN Request = AskField /\ Request.inputs = {}
  BY DEF Unasked, Request, AskField

still == <<ruleDb, job, scans, story>>

(* The pages change neither tables nor scans, and send known domains.      *)
LEMMA PageStays == InputInv /\ PageStep => UNCHANGED still /\ InputInv'
<1> SUFFICES ASSUME InputInv, PageStep PROVE UNCHANGED still /\ InputInv'
  OBVIOUS
<1> USE DEF still, ruleForms, rulesPage
<1>1. CASE \E f \in Form : Fill(f)
  <2>1. PICK f \in Form : Fill(f)
    BY <1>1
  <2>2. ruleForm' = f /\ UNCHANGED <<still, asked, bulk>>
    BY <2>1, Zenon DEF Fill
  <2>3. DOMAIN f = {"type", "value", "domain"} /\ f.domain \in {"", "other"}
    BY DEF Form
  <2> QED
    BY <2>2, <2>3 DEF InputInv
<1>2. CASE \E rows \in SUBSET CsvRow : ChangeText(rows)
  <2>1. PICK rows \in SUBSET CsvRow : ChangeText(rows)
    BY <1>2
  <2>2. /\ bulk' = [bulk EXCEPT !.text = rows, !.result = {}, !.error = FALSE]
        /\ UNCHANGED <<still, asked, ruleForm>>
    BY <2>1, Zenon DEF ChangeText
  <2> QED
    BY <2>2 DEF InputInv
<1>3. CASE FileUnreadable \/ OpenBulk
  <2>1. /\ bulk' = [bulk EXCEPT !.error = TRUE] \/ bulk' = [bulk EXCEPT !.open = TRUE]
        /\ UNCHANGED <<still, asked, ruleForm>>
    BY <1>3, Zenon DEF FileUnreadable, OpenBulk
  <2> QED
    BY <2>1 DEF InputInv
<1>4. CASE HandleClose
  <2>1. bulk' = ClosedBulk /\ UNCHANGED <<still, asked, ruleForm>>
    BY <1>4, Zenon DEF HandleClose
  <2> QED
    BY <2>1 DEF InputInv, ClosedBulk
<1>5. CASE HandleSubmit
  <2> DEFINE request == [Request EXCEPT !.inputs = {ruleForm}]
  <2>1. SetAsked("add", request) /\ UNCHANGED <<still, ruleForm, bulk>>
    BY <1>5, Zenon DEF HandleSubmit
  <2>2. DOMAIN request = AskField /\ \A input \in request.inputs : input.domain \in Domain
    BY PlainQuestions DEF InputInv, Domain, AskField
  <2> HIDE DEF request
  <2> QED
    BY <2>1, <2>2, QuestionStays DEF InputInv
<1>6. CASE HandleRegister
  <2> DEFINE request == [Request EXCEPT !.inputs = ValidRules]
  <2>1. /\ SetAsked("bulk", request)
        /\ \E c : bulk' = [bulk EXCEPT !.error = FALSE, !.counts = c]
        /\ UNCHANGED <<still, ruleForm>>
    BY <1>6, Zenon DEF HandleRegister
  <2>2. \A rule \in ValidRules : rule.domain \in Domain
    <3>1. ASSUME NEW row \in bulk.text PROVE Parsed(row).domain \in Domain
      BY <3>1, CsvAssumption DEF InputInv, Parsed, Domain
    <3>2. ASSUME NEW row \in bulk.text PROVE Preview[row].rule = Parsed(row)
      BY <3>2 DEF Preview
    <3> QED
      BY <3>1, <3>2 DEF ValidRules, ValidRows
  <2>3. DOMAIN request = AskField /\ \A input \in request.inputs : input.domain \in Domain
    BY <2>2, PlainQuestions DEF AskField
  <2> HIDE DEF request
  <2> QED
    BY <2>1, <2>3, QuestionStays DEF InputInv
<1>7. ASSUME NEW m, NEW request, SetAsked(m, request), DOMAIN request = AskField,
             request.inputs = {}, UNCHANGED <<still, rulesPage>>
      PROVE  UNCHANGED still /\ InputInv'
  BY <1>7, QuestionStays DEF InputInv
<1>8. CASE UrlSubmit \/ (\E type \in UrlType : UrlDelete(type))
            \/ \E rule \in listed.rules : Delete(rule)
  <2>1. PICK m, request :
          /\ SetAsked(m, request) /\ UNCHANGED <<still, rulesPage>>
          /\ \/ \E id : request = [Request EXCEPT !.id = id]
             \/ \E url : request = [Request EXCEPT !.url = url]
    BY <1>8, Zenon DEF UrlSubmit, UrlDelete, Delete
  <2>2. DOMAIN request = AskField /\ request.inputs = {}
    BY <2>1, PlainQuestions DEF AskField
  <2> QED
    BY <1>7, <2>1, <2>2
<1>9. CASE \E m \in Source : RuleAnswered(m)
  <2>1. PICK m \in Source : RuleAnswered(m)
    BY <1>9
  <2>2. SetAsked(m, Unasked) /\ UNCHANGED still
    BY <2>1, Zenon DEF RuleAnswered
  <2>3. PICK ok : RuleOver(m, ok)
    BY <2>1, Zenon DEF RuleAnswered
  <2>4. \/ ruleForm' = ruleForm \/ ruleForm' = [ruleForm EXCEPT !.value = FALSE, !.domain = ""]
    BY <2>3, Zenon DEF RuleOver
  <2>5. \/ bulk' = bulk \/ bulk' = [bulk EXCEPT !.error = TRUE, !.counts = {}]
        \/ bulk' = [bulk EXCEPT !.text = {}, !.counts = {}, !.result = bulk.counts]
    BY <2>3 DEF RuleOver
  <2>6. /\ DOMAIN ruleForm' = {"type", "value", "domain"} /\ ruleForm'.domain \in {"", "other"}
        /\ DOMAIN bulk' = {"open", "text", "counts", "result", "error"} /\ bulk'.text \subseteq CsvRow
    BY <2>4, <2>5 DEF InputInv
  <2> QED
    BY <2>2, <2>6, PlainQuestions, QuestionStays DEF InputInv
<1>10. ASSUME UNCHANGED <<still, asked, ruleForm, bulk>> PROVE UNCHANGED still /\ InputInv'
  BY <1>10 DEF InputInv
<1>11. CASE \/ \E f \in UrlForm : UrlFill(f)
            \/ \E type \in Type \cup {NoFilter}, domain \in Domain \cup {NoFilter} :
                 SetFilters(type, domain)
            \/ \E field \in Field \cup {"none"} : ToggleSort(field)
            \/ List
  <2>1. UNCHANGED <<still, asked, ruleForm, bulk>>
    BY <1>11, Zenon DEF UrlFill, SetFilters, ToggleSort, List
  <2> QED
    BY <1>10, <2>1
<1> QED
  BY <1>1, <1>2, <1>3, <1>4, <1>5, <1>6, <1>8, <1>9, <1>11, Zenon DEF PageStep

-----------------------------------------------------------------------------
(* The job that saves items.                                               *)

(* It begins, reads, or fails; or a request is refused.                    *)
LEMMA JobQuiet ==
  ASSUME RulesInv,
         \/ \E i \in FeedItem, version \in Version : Fetch(i, version)
         \/ JobReads \/ JobFails \/ \E m \in Source : Refuse(m)
  PROVE  Scanned' /\ JobForm' /\ JobExact'
<1>1. UNCHANGED <<ruleDb, scans, story>>
  BY Zenon DEF Fetch, JobReads, JobFails, Refuse, ruleDb, story
<1> SUFFICES JobForm' /\ JobExact'
  BY <1>1, ScannedStays, Zenon DEF RulesInv
<1>2. CASE \E i \in FeedItem, version \in Version : Fetch(i, version)
  <2>1. PICK i, version : job' = [NoJob EXCEPT !.phase = "fetched", !.item = i, !.version = version]
    BY <1>2, Zenon DEF Fetch
  <2>2. JobForm' /\ job'.phase # "read"
    BY <2>1 DEF JobForm, NoJob
  <2> QED
    BY <2>2, Zenon DEF JobExact
<1>3. CASE JobReads
  <2> DEFINE all == {r \in Rule : Present(r)}
  <2>1. job' = [job EXCEPT !.phase = "read", !.urls = urlRules, !.rules = all]
    BY <1>3, Zenon DEF JobReads
  <2>2. all' = all /\ urlRules' = urlRules
    BY <1>1 DEF ruleDb, Present
  <2> HIDE DEF all
  <2>3. JobForm' /\ job'.urls = urlRules /\ job'.rules = all
    BY <2>1 DEF RulesInv, JobForm
  <2> QED
    BY <2>2, <2>3 DEF JobExact, all
<1>4. CASE JobFails
  <2>1. JobForm' /\ job'.phase # "read"
    BY <1>4 DEF JobFails, JobForm, NoJob
  <2> QED
    BY <2>1, Zenon DEF JobExact
<1>5. CASE \E m \in Source : Refuse(m)
  <2>1. UNCHANGED <<job, urlRules>> /\ \A r \in Rule : rules'[r] = rules[r]
    BY <1>5, Zenon DEF Refuse, ruleDb
  <2> QED
    BY <2>1, JobStays DEF RulesInv
<1> QED
  BY <1>2, <1>3, <1>4, <1>5

(* An item is saved with the blocks of all rules, since the job's snapshot *)
(* is the newest.                                                          *)
LEMMA JobSavesAll ==
  ASSUME RulesInv, JobSaves
  PROVE  Scanned' /\ JobForm' /\ JobExact'
<1> DEFINE hit == {s \in job.rules : ShouldBlock(job.item, job.version, s, job.urls)}
           new == {<<job.item, rules[r]>> : r \in hit}
<1>1. /\ job.phase = "read" /\ ~job.stale /\ job' = NoJob
      /\ items' = [items EXCEPT ![job.item] = job.version] /\ blocks' = blocks \cup new
      /\ rules' = rules /\ urlRules' = urlRules /\ ids' = ids /\ scans' = scans
      /\ lost' = lost /\ drifted' = drifted
  BY Zenon DEF JobSaves, story
<1>2. job.urls = urlRules /\ job.rules = {r \in Rule : Present(r)}
  BY <1>1, Zenon DEF RulesInv, JobExact
<1>3. DOMAIN items = FeedItem
  BY DEF RulesInv, Scanned, IdsInv
<1>4. ASSUME NEW r \in Rule, Present(r), NEW i \in FeedItem, i = job.item PROVE Blocked(i, r)'
  <2>1. items'[i] = job.version
    BY <1>1, <1>3, <1>4
  <2>2. ShouldBlock(i, items'[i], r, urlRules') => r \in hit
    BY <1>1, <1>2, <1>4, <2>1
  <2>3. r \in hit => <<i, rules'[r]>> \in blocks'
    BY <1>1, <1>4
  <2> QED
    BY <2>2, <2>3, Zenon DEF Blocked, ShouldBlock, Extracted
<1>5. ASSUME NEW r \in Rule, NEW i \in FeedItem, i # job.item
      PROVE  items'[i] = items[i] /\ (Blocked(i, r) => Blocked(i, r)')
  <2>1. items'[i] = items[i]
    BY <1>1, <1>3, <1>5
  <2>2. <<i, rules[r]>> \in blocks => <<i, rules'[r]>> \in blocks'
    BY <1>1
  <2>3. i \in StoredItem' => i \in StoredItem
    BY <2>1 DEF StoredItem
  <2> QED
    BY <1>1, <2>1, <2>2, <2>3, Zenon DEF Blocked, ShouldBlock, Extracted
<1>6. \A r \in Rule : (Sure(r)' => Sure(r)) /\ (Due(r) => Due(r)') /\ (Sure(r) => Present(r))
  BY <1>1, Zenon DEF Sure, Present, OnUser, Due
<1>7. IdsInv'
  BY <1>1, <1>3 DEF RulesInv, Scanned, IdsInv
<1>8. UrlsExact'
  BY <1>1, Zenon DEF RulesInv, Scanned, UrlsExact
<1>9. ScansExact'
  <2> SUFFICES ASSUME NEW s \in scans, s.phase = "rules", NEW r \in Rule, Sure(r)',
                      <<r, rules[r]>> \in s.rules, NEW i \in FeedItem
               PROVE  Blocked(i, r)' \/ s.items[i] = items'[i]
    BY <1>1, Zenon DEF ScansExact
  <2>1. Blocked(i, r) \/ s.items[i] = items[i]
    BY <1>6, Zenon DEF RulesInv, Scanned, ScansExact
  <2> QED
    BY <1>4, <1>5, <1>6, <2>1, Zenon
<1>10. AllBlocked'
  <2> SUFFICES ASSUME NEW r \in Rule, Sure(r)', r \notin lost, ~Due(r)', NEW i \in FeedItem
               PROVE  Blocked(i, r)'
    BY <1>1, Zenon DEF AllBlocked
  <2>1. Blocked(i, r)
    BY <1>6, Zenon DEF RulesInv, Scanned, AllBlocked
  <2> QED
    BY <1>4, <1>5, <1>6, <2>1, Zenon
<1>11. JobForm' /\ job'.phase # "read"
  BY <1>1 DEF JobForm, NoJob
<1>12. JobExact'
  BY <1>11, Zenon DEF JobExact
<1> QED
  BY <1>7, <1>8, <1>9, <1>10, <1>11, <1>12 DEF Scanned

-----------------------------------------------------------------------------
(* Requests.                                                               *)

(* Rules are added; each of them, also one that was there, is due in a     *)
(* scan, and no earlier scan has the id of a new one.                      *)
LEMMA AddStays ==
  ASSUME RulesInv, NEW m \in Source, AddRules(m)
  PROVE  Scanned' /\ JobForm' /\ JobExact'
<1> DEFINE wanted == {Normalised(input) : input \in asked[m].inputs}
           new == {r \in wanted : ~Present(r)}
           scan == [phase |-> "urls", rules |-> {<<r, rules'[r]>> : r \in wanted},
                    urls |-> {}, items |-> [i \in FeedItem |-> 0]]
<1>1. /\ \A input \in asked[m].inputs : Valid(input)
      /\ rules' = [r \in Rule |-> IF r \in new THEN Numbered(new)[r] ELSE rules[r]]
      /\ ids' = ids + Cardinality(new) /\ scans' = scans \cup {scan}
      /\ IF new = {} THEN UNCHANGED job ELSE Commits
      /\ items' = items /\ blocks' = blocks /\ urlRules' = urlRules
      /\ lost' = lost /\ drifted' = drifted
  BY Zenon DEF AddRules, story
<1>2. wanted \subseteq Rule
  <2> SUFFICES ASSUME NEW input \in asked[m].inputs PROVE Normalised(input) \in Rule
    OBVIOUS
  <2>1. input.type \in Type /\ input.domain \in Domain
    BY <1>1, Zenon DEF Valid, RulesInv, InputInv
  <2> QED
    BY <2>1 DEF Normalised, Rule, Domain
<1>3. /\ scan.phase = "urls" /\ DOMAIN scan = {"phase", "rules", "urls", "items"}
      /\ scan.rules = {<<r, rules'[r]>> : r \in wanted}
  OBVIOUS
<1> HIDE DEF wanted, scan
<1>4. /\ ids \in Nat /\ rules \in [Rule -> Nat] /\ \A r \in Rule : rules[r] <= ids
      /\ DOMAIN items = FeedItem
      /\ \A s \in scans : /\ DOMAIN s = {"phase", "rules", "urls", "items"}
                          /\ s.rules \subseteq Rule \X (0 .. ids)
  BY DEF RulesInv, Scanned, IdsInv
<1>5. new \subseteq Rule
  BY <1>2
<1> HIDE DEF new
<1>6. /\ Cardinality(new) \in Nat
      /\ \A r \in new : /\ Numbered(new)[r] \in Nat /\ Numbered(new)[r] > ids
                        /\ Numbered(new)[r] <= ids + Cardinality(new)
  BY <1>4, <1>5, NumbersAreNew
<1>7. /\ \A r \in new : rules'[r] \in Nat /\ rules'[r] > ids /\ rules'[r] <= ids'
      /\ \A r \in Rule \ new : rules'[r] = rules[r]
      /\ ids' \in Nat /\ ids <= ids'
  BY <1>1, <1>4, <1>5, <1>6
<1>8. rules' \in [Rule -> Nat] /\ \A r \in Rule : rules'[r] <= ids'
  <2>1. \A r \in Rule : rules'[r] \in Nat /\ rules'[r] <= ids'
    BY <1>4, <1>7
  <2> QED
    BY <1>1, <2>1
<1>9. IdsInv'
  <2>1. scan.rules \subseteq Rule \X (0 .. ids')
    BY <1>2, <1>3, <1>7, <1>8
  <2>2. \A s \in scans : s.rules \subseteq Rule \X (0 .. ids')
    BY <1>4, <1>7
  <2> QED
    BY <1>1, <1>3, <1>4, <1>7, <1>8, <2>1, <2>2 DEF IdsInv
<1>10. ASSUME NEW r \in Rule, NEW s \in scans, <<r, rules'[r]>> \in s.rules
       PROVE  rules'[r] = rules[r]
  <2>1. rules'[r] <= ids
    BY <1>4, <1>10
  <2> QED
    BY <1>4, <1>7, <2>1
<1>11. ASSUME NEW r \in Rule, rules'[r] = rules[r]
       PROVE  /\ Sure(r)' => Sure(r)
              /\ Due(r) => Due(r)'
              /\ \A i \in FeedItem : Blocked(i, r) => Blocked(i, r)'
  BY <1>1, <1>11, SameItemsBlocked, Zenon DEF Sure, Present, OnUser, Due
<1>12. UrlsExact'
  <2>1. scan.phase \notin {"items", "rules"}
    BY <1>3
  <2> QED
    BY <1>1, <2>1, Zenon DEF RulesInv, Scanned, UrlsExact
<1>13. ScansExact'
  <2> SUFFICES ASSUME NEW s \in scans', s.phase = "rules", NEW r \in Rule, Sure(r)',
                      <<r, rules'[r]>> \in s.rules, NEW i \in FeedItem
               PROVE  Blocked(i, r)' \/ s.items[i] = items'[i]
    BY Zenon DEF ScansExact
  <2>1. s \in scans
    BY <1>1, <1>3
  <2>2. rules'[r] = rules[r]
    BY <1>10, <2>1
  <2> QED
    BY <1>1, <1>11, <2>1, <2>2, Zenon DEF RulesInv, Scanned, ScansExact
<1>14. AllBlocked'
  <2> SUFFICES ASSUME NEW r \in Rule, Sure(r)', r \notin lost, ~Due(r)', NEW i \in FeedItem
               PROVE  Blocked(i, r)'
    BY <1>1, Zenon DEF AllBlocked
  <2>1. r \notin new
    <3>1. r \in wanted => Due(r)'
      BY <1>1, <1>3 DEF Due
    <3> QED
      BY <3>1 DEF new
  <2>2. rules'[r] = rules[r]
    BY <1>7, <2>1
  <2> QED
    BY <1>1, <1>11, <2>2, Zenon DEF RulesInv, Scanned, AllBlocked
<1>15. JobForm' /\ JobExact'
  <2>1. CASE new = {}
    <3>1. \A r \in Rule : rules'[r] = rules[r]
      BY <1>7, <2>1
    <3> QED
      BY <1>1, <2>1, <3>1, JobStays DEF RulesInv
  <2>2. CASE new # {}
    BY <1>1, <2>2, CommitsStale, Zenon DEF RulesInv
  <2> QED
    BY <2>1, <2>2
<1> QED
  BY <1>9, <1>12, <1>13, <1>14, <1>15 DEF Scanned

(* A rule goes with its blocks.                                            *)
LEMMA DeleteStays ==
  ASSUME RulesInv, DeleteRule
  PROVE  Scanned' /\ JobForm' /\ JobExact'
<1> DEFINE id == asked["delete"].id
<1>1. /\ rules' = [r \in Rule |-> IF rules[r] = id THEN 0 ELSE rules[r]]
      /\ blocks' = {b \in blocks : b[2] # id}
      /\ lost' = {r \in lost : rules'[r] # 0} /\ Commits
      /\ items' = items /\ urlRules' = urlRules /\ ids' = ids /\ scans' = scans
      /\ drifted' = drifted
  BY Zenon DEF DeleteRule
<1> HIDE DEF id
<1>2. IdsInv
  BY DEF RulesInv, Scanned
<1>3. IdsInv'
  <2>1. \A r \in Rule : rules'[r] \in Nat /\ rules'[r] <= ids
    BY <1>1, <1>2 DEF IdsInv
  <2> QED
    BY <1>1, <1>2, <2>1 DEF IdsInv
<1>4. ASSUME NEW r \in Rule, Sure(r)'
      PROVE  /\ rules'[r] = rules[r] /\ rules[r] # id
             /\ Sure(r) /\ (r \in lost => r \in lost')
  <2>1. rules'[r] # 0
    BY <1>4, Zenon DEF Sure, Present
  <2>2. rules'[r] = rules[r] /\ rules[r] # id /\ (r \in lost => r \in lost')
    BY <1>1, <2>1
  <2> QED
    BY <1>1, <1>4, <2>2, Zenon DEF Sure, Present, OnUser
<1>5. ASSUME NEW r \in Rule, Sure(r)', NEW i \in FeedItem, Blocked(i, r) PROVE Blocked(i, r)'
  <2>1. <<i, rules[r]>> \in blocks => <<i, rules[r]>> \in blocks'
    BY <1>1, <1>4, <1>5
  <2> QED
    BY <1>1, <1>4, <1>5, <2>1, SameItemsBlocked
<1>6. UrlsExact'
  BY <1>1, Zenon DEF RulesInv, Scanned, UrlsExact
<1>7. ScansExact'
  BY <1>1, <1>4, <1>5, Zenon DEF RulesInv, Scanned, ScansExact
<1>8. AllBlocked'
  <2> SUFFICES ASSUME NEW r \in Rule, Sure(r)', r \notin lost', ~Due(r)', NEW i \in FeedItem
               PROVE  Blocked(i, r)'
    BY Zenon DEF AllBlocked
  <2>1. ~Due(r)
    BY <1>1, <1>4, Zenon DEF Due
  <2> QED
    BY <1>4, <1>5, <2>1, Zenon DEF RulesInv, Scanned, AllBlocked
<1>9. JobForm' /\ JobExact'
  BY <1>1, CommitsStale DEF RulesInv
<1> QED
  BY <1>3, <1>6, <1>7, <1>8, <1>9 DEF Scanned

(* After a change of the URL rules, nothing is said of rules on users.     *)
LEMMA UrlRulesStay ==
  ASSUME RulesInv, AddUrlRule \/ DeleteUrlRule
  PROVE  Scanned' /\ JobForm' /\ JobExact'
<1>1. /\ drifted' = TRUE /\ Commits /\ items' = items /\ rules' = rules
      /\ blocks' = blocks /\ ids' = ids /\ scans' = scans /\ lost' = lost
  BY Zenon DEF AddUrlRule, DeleteUrlRule
<1>2. IdsInv'
  BY <1>1 DEF RulesInv, Scanned, IdsInv
<1>3. UrlsExact'
  BY <1>1, Zenon DEF UrlsExact
<1>4. ASSUME NEW r \in Rule, Sure(r)' PROVE Sure(r) /\ ~OnUser(r)
  BY <1>1, <1>4, Zenon DEF Sure, Present, OnUser
<1>5. ASSUME NEW r \in Rule, Sure(r)', NEW i \in FeedItem, Blocked(i, r) PROVE Blocked(i, r)'
  <2>1. ShouldBlock(i, items[i], r, urlRules) <=> ShouldBlock(i, items[i], r, urlRules')
    BY <1>4, <1>5, UrlsForUsersOnly
  <2>2. (i \in StoredItem)' <=> i \in StoredItem
    BY <1>1 DEF StoredItem
  <2> QED
    BY <1>1, <1>5, <2>1, <2>2, Zenon DEF Blocked, ShouldBlock, Extracted
<1>6. ScansExact'
  BY <1>1, <1>4, <1>5, Zenon DEF RulesInv, Scanned, ScansExact
<1>7. AllBlocked'
  BY <1>1, <1>4, <1>5, Zenon DEF RulesInv, Scanned, AllBlocked, Due
<1>8. JobForm' /\ JobExact'
  BY <1>1, CommitsStale DEF RulesInv
<1> QED
  BY <1>2, <1>3, <1>6, <1>7, <1>8 DEF Scanned

-----------------------------------------------------------------------------
(* Scans.                                                                  *)

(* A scan reads the URL rules, then the items.                             *)
LEMMA ScanReads ==
  ASSUME RulesInv, NEW s \in scans, ScanUrlRules(s) \/ ScanItems(s)
  PROVE  Scanned' /\ JobForm' /\ JobExact'
<1> DEFINE t == IF s.phase = "urls" THEN [s EXCEPT !.phase = "items", !.urls = urlRules]
                ELSE [s EXCEPT !.phase = "rules", !.items = items]
<1>1. /\ scans' = (scans \ {s}) \cup {t} /\ s.phase \in {"urls", "items"}
      /\ UNCHANGED <<ruleDb, job, story>>
  BY DEF ScanUrlRules, ScanItems, Becomes
<1>2. /\ items' = items /\ rules' = rules /\ blocks' = blocks /\ urlRules' = urlRules
      /\ ids' = ids /\ lost' = lost /\ drifted' = drifted /\ job' = job
  BY <1>1 DEF ruleDb, story
<1>3. DOMAIN s = {"phase", "rules", "urls", "items"} /\ s.rules \subseteq Rule \X (0 .. ids)
  BY DEF RulesInv, Scanned, IdsInv
<1>4. /\ DOMAIN t = {"phase", "rules", "urls", "items"} /\ t.rules = s.rules
      /\ t.phase = "rules" => t.items = items
      /\ t.urls = urlRules \/ (s.phase = "items" /\ t.urls = s.urls)
  BY <1>1, <1>3
<1> HIDE DEF t
<1>5. IdsInv'
  BY <1>1, <1>2, <1>3, <1>4 DEF RulesInv, Scanned, IdsInv
<1>6. UrlsExact'
  <2> SUFFICES ASSUME ~drifted, NEW u \in scans', u.phase \in {"items", "rules"}
               PROVE  u.urls = urlRules
    BY <1>2, Zenon DEF UrlsExact
  <2>1. \A v \in scans : v.phase \in {"items", "rules"} => v.urls = urlRules
    BY Zenon DEF RulesInv, Scanned, UrlsExact
  <2> QED
    BY <1>1, <1>4, <2>1
<1>7. \A r \in Rule : /\ (Sure(r)' <=> Sure(r)) /\ (Due(r)' <=> Due(r))
                      /\ \A i \in FeedItem : Blocked(i, r) => Blocked(i, r)'
  <2>1. ASSUME NEW x PROVE (\E u \in scans' : x \in u.rules) <=> \E u \in scans : x \in u.rules
    BY <1>1, <1>4
  <2> QED
    BY <1>2, <2>1, SameItemsBlocked, Zenon DEF Sure, Present, OnUser, Due
<1>8. ScansExact'
  <2> SUFFICES ASSUME NEW u \in scans', u.phase = "rules", NEW r \in Rule, Sure(r),
                      <<r, rules[r]>> \in u.rules, NEW i \in FeedItem
               PROVE  Blocked(i, r) \/ u.items[i] = items[i]
    BY <1>2, <1>7, Zenon DEF ScansExact
  <2>1. CASE u = t
    BY <1>4, <2>1
  <2>2. CASE u # t
    BY <1>1, <2>2 DEF RulesInv, Scanned, ScansExact
  <2> QED
    BY <2>1, <2>2
<1>9. AllBlocked'
  BY <1>2, <1>7, Zenon DEF RulesInv, Scanned, AllBlocked
<1>10. JobForm' /\ JobExact'
  <2>1. \A r \in Rule : rules'[r] = rules[r]
    BY <1>2
  <2> QED
    BY <1>2, <2>1, JobStays DEF RulesInv
<1> QED
  BY <1>5, <1>6, <1>8, <1>9, <1>10 DEF Scanned

(* A rule leaves a scan with its blocks written, as far as a job has not.  *)
LEMMA ScanRuleStays ==
  ASSUME RulesInv, NEW s \in scans, ScanRule(s)
  PROVE  Scanned' /\ JobForm' /\ JobExact'
<1> DEFINE hit(r) == {i \in FeedItem : s.items[i] # 0 /\ ShouldBlock(i, s.items[i], r, s.urls)}
           new(rule) == IF rules[rule[1]] = rule[2]
                        THEN {<<i, rule[2]>> : i \in hit(rule[1])} ELSE {}
           left(rule) == [s EXCEPT !.rules = @ \ {rule}]
<1>1. /\ s.phase = "rules" /\ items' = items /\ rules' = rules /\ urlRules' = urlRules
      /\ ids' = ids /\ lost' = lost /\ drifted' = drifted
  BY Zenon DEF ScanRule, story
<1>2. PICK rule \in s.rules :
        /\ blocks' = blocks \cup new(rule)
        /\ IF new(rule) \subseteq blocks THEN UNCHANGED job ELSE Commits
        /\ scans' = (scans \ {s}) \cup (IF s.rules = {rule} THEN {} ELSE {left(rule)})
  BY Zenon DEF ScanRule, Becomes
<1>3. DOMAIN s = {"phase", "rules", "urls", "items"} /\ s.rules \subseteq Rule \X (0 .. ids)
  BY DEF RulesInv, Scanned, IdsInv
<1>4. PICK r \in Rule, n \in 0 .. ids : rule = <<r, n>>
  BY <1>2, <1>3
<1> DEFINE t == left(rule)
<1>5. /\ DOMAIN t = {"phase", "rules", "urls", "items"} /\ t.rules = s.rules \ {rule}
      /\ t.phase = s.phase /\ t.items = s.items /\ t.urls = s.urls
  BY <1>3
<1>6. \A u \in scans' : u \in scans \/ u = t
  BY <1>2
<1>7. \A u \in scans : u # s => u \in scans'
  BY <1>2
<1>8. s.rules # {rule} => t \in scans'
  BY <1>2
<1>9. \A i \in hit(r) : rules[r] = n => <<i, n>> \in blocks'
  BY <1>2, <1>4
<1>10. blocks \subseteq blocks' /\ (job' = job \/ Commits)
  BY <1>2
<1> HIDE DEF t, left, new
<1>11. ASSUME NEW q \in Rule
       PROVE  (Sure(q)' <=> Sure(q)) /\ \A i \in FeedItem : Blocked(i, q) => Blocked(i, q)'
  BY <1>1, <1>10, SameItemsBlocked, Zenon DEF Sure, Present, OnUser
<1>12. ASSUME Sure(r), rules[r] = n, NEW i \in FeedItem PROVE Blocked(i, r)'
  <2>1. CASE Blocked(i, r)
    BY <1>11, <2>1
  <2>2. CASE s.items[i] = items[i]
    <3>1. SUFFICES ASSUME i \in StoredItem, ShouldBlock(i, items[i], r, urlRules)
                   PROVE  <<i, n>> \in blocks'
      BY <1>1, <1>12, Zenon DEF Blocked, StoredItem, ShouldBlock, Extracted
    <3>2. CASE OnUser(r)
      <4>1. s.urls = urlRules
        BY <1>1, <1>12, <3>2, Zenon DEF RulesInv, Scanned, UrlsExact, Sure
      <4> QED
        BY <1>9, <1>12, <2>2, <3>1, <4>1 DEF StoredItem
    <3>3. CASE ~OnUser(r)
      <4>1. ShouldBlock(i, items[i], r, s.urls)
        BY <3>1, <3>3, UrlsForUsersOnly
      <4> QED
        BY <1>9, <1>12, <2>2, <3>1, <4>1 DEF StoredItem
    <3> QED
      BY <3>2, <3>3
  <2>3. Blocked(i, r) \/ s.items[i] = items[i]
    BY <1>1, <1>2, <1>4, <1>12 DEF RulesInv, Scanned, ScansExact
  <2> QED
    BY <2>1, <2>2, <2>3
<1> HIDE DEF hit
<1>13. IdsInv'
  <2>1. t.rules \subseteq Rule \X (0 .. ids)
    BY <1>3, <1>5
  <2> QED
    BY <1>1, <1>5, <1>6, <2>1 DEF RulesInv, Scanned, IdsInv
<1>14. UrlsExact'
  BY <1>1, <1>5, <1>6, Zenon DEF RulesInv, Scanned, UrlsExact
<1>15. ScansExact'
  <2> SUFFICES ASSUME NEW u \in scans', u.phase = "rules", NEW q \in Rule, Sure(q),
                      <<q, rules[q]>> \in u.rules, NEW i \in FeedItem
               PROVE  Blocked(i, q) \/ u.items[i] = items[i]
    BY <1>1, <1>11, Zenon DEF ScansExact
  <2>1. CASE u = t
    <3>1. <<q, rules[q]>> \in s.rules /\ u.items = s.items
      BY <1>5, <2>1
    <3>2. Blocked(i, q) \/ s.items[i] = items[i]
      BY <1>1, <3>1, Zenon DEF RulesInv, Scanned, ScansExact
    <3> QED
      BY <3>1, <3>2
  <2>2. CASE u \in scans
    BY <2>2, Zenon DEF RulesInv, Scanned, ScansExact
  <2> QED
    BY <1>6, <2>1, <2>2
<1>16. AllBlocked'
  <2> SUFFICES ASSUME NEW q \in Rule, Sure(q), q \notin lost, ~Due(q)', NEW i \in FeedItem
               PROVE  Blocked(i, q)'
    BY <1>1, <1>11, Zenon DEF AllBlocked
  <2>1. CASE ~Due(q)
    BY <1>11, <2>1, Zenon DEF RulesInv, Scanned, AllBlocked
  <2>2. CASE Due(q)
    <3>1. PICK v \in scans : <<q, rules[q]>> \in v.rules
      BY <2>2, Zenon DEF Due
    <3>2. v = s
      BY <1>1, <1>7, <3>1, Zenon DEF Due
    <3>3. <<q, rules[q]>> = rule
      <4> SUFFICES ASSUME <<q, rules[q]>> # rule PROVE FALSE
        OBVIOUS
      <4>1. s.rules # {rule} /\ <<q, rules[q]>> \in t.rules
        BY <1>5, <3>1, <3>2
      <4> QED
        BY <1>1, <1>8, <4>1, Zenon DEF Due
    <3>4. q = r /\ rules[r] = n
      BY <1>4, <3>3
    <3> QED
      BY <1>12, <3>4
  <2> QED
    BY <2>1, <2>2
<1>17. JobForm' /\ JobExact'
  <2>1. CASE job' = job
    <3>1. \A q \in Rule : rules'[q] = rules[q]
      BY <1>1
    <3> QED
      BY <1>1, <2>1, <3>1, JobStays DEF RulesInv
  <2>2. CASE Commits
    BY <2>2, CommitsStale, Zenon DEF RulesInv
  <2> QED
    BY <1>10, <2>1, <2>2
<1> QED
  BY <1>13, <1>14, <1>15, <1>16, <1>17 DEF Scanned

(* A scan that is cut short leaves its rules among the lost.               *)
LEMMA ScanLostStays ==
  ASSUME RulesInv, NEW s \in scans, ScanLost(s)
  PROVE  Scanned' /\ JobForm' /\ JobExact'
<1>1. /\ scans' = (scans \ {s}) \cup {}
      /\ lost' = lost \cup {rule[1] : rule \in {t \in s.rules : rules[t[1]] = t[2]}}
      /\ UNCHANGED <<ruleDb, job, asked, drifted>>
  BY Zenon DEF ScanLost, Becomes
<1>2. /\ items' = items /\ rules' = rules /\ blocks' = blocks /\ urlRules' = urlRules
      /\ ids' = ids /\ drifted' = drifted /\ job' = job
  BY <1>1 DEF ruleDb
<1>3. scans' \subseteq scans /\ \A u \in scans : u # s => u \in scans'
  BY <1>1
<1>4. lost \subseteq lost' /\ \A r \in Rule : <<r, rules[r]>> \in s.rules => r \in lost'
  BY <1>1
<1>5. IdsInv'
  BY <1>2, <1>3 DEF RulesInv, Scanned, IdsInv
<1>6. UrlsExact'
  BY <1>2, <1>3 DEF RulesInv, Scanned, UrlsExact
<1>7. \A r \in Rule : /\ (Sure(r)' <=> Sure(r))
                      /\ \A i \in FeedItem : Blocked(i, r) => Blocked(i, r)'
  BY <1>2, SameItemsBlocked, Zenon DEF Sure, Present, OnUser
<1>8. ScansExact'
  <2> SUFFICES ASSUME NEW u \in scans', u.phase = "rules", NEW r \in Rule, Sure(r),
                      <<r, rules[r]>> \in u.rules, NEW i \in FeedItem
               PROVE  Blocked(i, r) \/ u.items[i] = items[i]
    BY <1>2, <1>7, Zenon DEF ScansExact
  <2>1. u \in scans
    BY <1>3
  <2> QED
    BY <2>1, Zenon DEF RulesInv, Scanned, ScansExact
<1>9. AllBlocked'
  <2> SUFFICES ASSUME NEW r \in Rule, Sure(r), r \notin lost', ~Due(r)', NEW i \in FeedItem
               PROVE  Blocked(i, r)'
    BY <1>7, Zenon DEF AllBlocked
  <2>1. ~Due(r)
    BY <1>2, <1>3, <1>4, Zenon DEF Due
  <2>2. r \notin lost
    BY <1>4
  <2> QED
    BY <1>7, <2>1, <2>2, Zenon DEF RulesInv, Scanned, AllBlocked
<1>10. JobForm' /\ JobExact'
  <2>1. \A r \in Rule : rules'[r] = rules[r]
    BY <1>2
  <2> QED
    BY <1>2, <2>1, JobStays DEF RulesInv
<1> QED
  BY <1>5, <1>6, <1>8, <1>9, <1>10 DEF Scanned

-----------------------------------------------------------------------------
(* The specification.                                                      *)

(* Every step keeps the invariant.                                         *)
LEMMA RulesInvStep == RulesInv /\ [RulesPageNext]_ruleVars => RulesInv'
<1> SUFFICES ASSUME RulesInv, [RulesPageNext]_ruleVars PROVE RulesInv'
  OBVIOUS
<1>1. ASSUME UNCHANGED still PROVE Scanned' /\ JobForm' /\ JobExact'
  <2>1. UNCHANGED <<ruleDb, scans, story>> /\ UNCHANGED <<job, urlRules>>
        /\ \A r \in Rule : rules'[r] = rules[r]
    BY <1>1 DEF still, ruleDb
  <2> QED
    BY <2>1, ScannedStays, JobStays DEF RulesInv
<1>2. CASE PageStep
  BY <1>1, <1>2, PageStays, Zenon DEF RulesInv
<1>3. CASE UNCHANGED ruleVars
  <2>1. UNCHANGED still /\ UNCHANGED rulesPage /\ asked' = asked
    BY <1>3, Zenon DEF ruleVars, still
  <2>2. InputInv'
    BY <2>1, InputStays DEF RulesInv
  <2> QED
    BY <1>1, <2>1, <2>2, Zenon DEF RulesInv
<1>4. CASE RulesStep /\ UNCHANGED rulesPage
  <2>1. asked' = asked \/ \E m \in Source : \E phase : RuleAnswer(m, phase)
    <3>1. CASE \/ \E i \in FeedItem, version \in Version : Fetch(i, version)
               \/ JobReads \/ JobSaves \/ JobFails
               \/ \E s \in scans : ScanUrlRules(s) \/ ScanItems(s) \/ ScanRule(s) \/ ScanLost(s)
      BY <3>1, Zenon DEF Fetch, JobReads, JobSaves, JobFails, ScanUrlRules, ScanItems,
         ScanRule, ScanLost
    <3>2. CASE \E m \in Source : AddRules(m) \/ Refuse(m)
      BY <3>2, Zenon DEF AddRules, Refuse
    <3>3. CASE DeleteRule \/ AddUrlRule \/ DeleteUrlRule
      <4>1. "delete" \in Source /\ "urlAdd" \in Source /\ "urlDelete" \in Source
        BY DEF Source
      <4> QED
        BY <3>3, <4>1, Zenon DEF DeleteRule, AddUrlRule, DeleteUrlRule
    <3> QED
      BY <1>4, <3>1, <3>2, <3>3, Zenon DEF RulesStep
  <2>2. InputInv'
    BY <1>4, <2>1, InputStays DEF RulesInv
  <2>3. Scanned' /\ JobForm' /\ JobExact'
    <3>1. CASE \/ \E i \in FeedItem, version \in Version : Fetch(i, version)
               \/ JobReads \/ JobFails \/ \E m \in Source : Refuse(m)
      BY <3>1, JobQuiet, Zenon
    <3>2. CASE JobSaves
      BY <3>2, JobSavesAll
    <3>3. CASE \E m \in Source : AddRules(m)
      BY <3>3, AddStays
    <3>4. CASE DeleteRule \/ AddUrlRule \/ DeleteUrlRule
      BY <3>4, DeleteStays, UrlRulesStay
    <3>5. CASE \E s \in scans : ScanUrlRules(s) \/ ScanItems(s) \/ ScanRule(s) \/ ScanLost(s)
      BY <3>5, ScanReads, ScanRuleStays, ScanLostStays
    <3> QED
      BY <1>4, <3>1, <3>2, <3>3, <3>4, <3>5, Zenon DEF RulesStep
  <2> QED
    BY <2>2, <2>3, Zenon DEF RulesInv
<1> QED
  BY <1>2, <1>3, <1>4, Zenon DEF RulesPageNext

(* What the invariant says of rules that no scan has is the property.      *)
LEMMA CompleteFromInv == RulesInv => BlocksComplete
<1> SUFFICES ASSUME RulesInv, NEW r \in Rule \ lost, Present(r),
                    ~\E s \in scans : <<r, rules[r]>> \in s.rules,
                    r.type \in {"user", "user_domain"} => ~drifted,
                    NEW i \in StoredItem, ShouldBlock(i, items[i], r, urlRules)
             PROVE  <<i, rules[r]>> \in blocks
  BY Zenon DEF BlocksComplete
<1>1. Sure(r) /\ ~Due(r)
  BY Zenon DEF Sure, OnUser, Due
<1>2. i \in FeedItem
  BY DEF StoredItem
<1>3. Blocked(i, r)
  BY <1>1, <1>2, Zenon DEF RulesInv, Scanned, AllBlocked
<1> QED
  BY <1>3, Zenon DEF Blocked

(* The invariant holds in every behaviour.                                 *)
LEMMA RulesInvHolds == RulesPageSpec => []RulesInv
<1>1. RulesPageInit => RulesInv
  BY RulesInvInit
<1>2. RulesInv /\ [RulesPageNext]_ruleVars => RulesInv'
  BY RulesInvStep
<1> QED
  BY <1>1, <1>2, PTL DEF RulesPageSpec

(* Whatever order rules are added in, items saved, and scans run: once a   *)
(* rule's scan is over, each stored item it matches has its block          *)
(* (handler.go:1270, write_queue.go:122).                                  *)
THEOREM RulesBlockAll == RulesPageSpec => []BlocksComplete
<1>1. RulesInv => BlocksComplete
  BY CompleteFromInv
<1> QED
  BY <1>1, RulesInvHolds, PTL

-----------------------------------------------------------------------------
(* What the forms send.                                                    *)

\* What the server is to find in a request of m.
Sound(m, request) ==
  request.phase = "sent" =>
    /\ \A input \in request.inputs : Valid(input)
    /\ m \in {"add", "bulk"} => request.inputs # {}
    /\ m = "urlAdd" => request.url # {}

SentInv == ruleForm \in Form /\ \A m \in Source : Sound(m, asked[m])

(* The form's own check is no weaker than the server's.                    *)
LEMMA FormValid == ASSUME ruleForm \in Form, Submittable(ruleForm) PROVE Valid(ruleForm)
  BY DEF Form, Submittable, Valid

(* Neither is the parser's, whose rules are completed before they are sent. *)
LEMMA RowsValid == \A rule \in ValidRules : Valid(rule)
<1> SUFFICES ASSUME NEW row \in bulk.text, RowError(row) = "none" PROVE Valid(Parsed(row))
  BY DEF ValidRules, ValidRows, Preview
<1>1. row.value /\ row.type \in Type /\ (row.type = "user_domain" => row.domain # "")
  BY DEF RowError
<1>2. row.type = "user_domain" => row.type # "domain"
  OBVIOUS
<1>3. /\ Parsed(row).type = row.type /\ (Parsed(row).value <=> row.value)
      /\ row.type = "user_domain" => Parsed(row).domain = row.domain
  BY <1>2, Zenon DEF Parsed
<1> QED
  BY <1>1, <1>3, Zenon DEF Valid

(* One request more, or one that is over.                                  *)
LEMMA SoundStays ==
  ASSUME InputInv, SentInv, NEW m \in Source, NEW request, SetAsked(m, request),
         Sound(m, request), ruleForm' \in Form
  PROVE  SentInv'
<1>1. \A k \in Source : asked'[k] = IF k = m THEN request ELSE asked[k]
  BY DEF SetAsked, InputInv
<1>2. \A k \in Source : Sound(k, asked'[k])
  BY <1>1, Zenon DEF SentInv
<1> QED
  BY <1>2 DEF SentInv, Sound, Valid

(* Requests without a form.                                                *)
LEMMA RequestFields ==
  /\ Request.phase = "sent" /\ Unasked.phase # "sent"
  /\ \A id : [Request EXCEPT !.id = id].inputs = {}
  /\ \A url : [Request EXCEPT !.url = url].inputs = {} /\ [Request EXCEPT !.url = url].url = url
  /\ \A inputs : [Request EXCEPT !.inputs = inputs].inputs = inputs
  BY DEF Request, Unasked

(* Every step of the pages keeps what is said of requests.                 *)
LEMMA PageSound == InputInv /\ SentInv /\ PageStep => SentInv'
<1> SUFFICES ASSUME InputInv, SentInv, PageStep PROVE SentInv'
  OBVIOUS
<1>1. ASSUME asked' = asked, ruleForm' \in Form PROVE SentInv'
  BY <1>1, Zenon DEF SentInv, Sound, Valid
<1>2. CASE \E f \in Form : Fill(f)
  BY <1>1, <1>2, Zenon DEF Fill
<1>3. CASE \/ \E f \in UrlForm : UrlFill(f)
           \/ \E rows \in SUBSET CsvRow : ChangeText(rows)
           \/ \E type \in Type \cup {NoFilter}, domain \in Domain \cup {NoFilter} :
                SetFilters(type, domain)
           \/ \E field \in Field \cup {"none"} : ToggleSort(field)
           \/ OpenBulk \/ FileUnreadable \/ HandleClose \/ List
  <2>1. asked' = asked /\ ruleForm' = ruleForm
    BY <1>3, Zenon DEF UrlFill, ChangeText, SetFilters, ToggleSort, OpenBulk, FileUnreadable,
       HandleClose, List, ruleForms
  <2> QED
    BY <1>1, <2>1, Zenon DEF SentInv
<1>4. CASE HandleSubmit
  <2> DEFINE request == [Request EXCEPT !.inputs = {ruleForm}]
  <2>1. /\ SetAsked("add", request) /\ ruleForm' = ruleForm /\ Submittable(ruleForm)
    BY <1>4, Zenon DEF HandleSubmit, rulesPage, ruleForms
  <2>2. request.inputs = {ruleForm}
    BY RequestFields
  <2> HIDE DEF request
  <2>3. Sound("add", request)
    BY <2>1, <2>2, FormValid DEF Sound, SentInv
  <2> QED
    BY <2>1, <2>3, SoundStays DEF SentInv, Source
<1>5. CASE HandleRegister
  <2> DEFINE request == [Request EXCEPT !.inputs = ValidRules]
  <2>1. SetAsked("bulk", request) /\ ruleForm' = ruleForm /\ "Register" \in Buttons
    BY <1>5, Zenon DEF HandleRegister
  <2>2. request.inputs = ValidRules
    BY RequestFields
  <2> HIDE DEF request
  <2>3. ValidRules # {}
    BY <2>1 DEF Buttons
  <2>4. Sound("bulk", request)
    BY <2>2, <2>3, RowsValid DEF Sound
  <2> QED
    BY <2>1, <2>4, SoundStays DEF SentInv, Source
<1>6. CASE UrlSubmit
  <2> DEFINE url == {urlForm.type}
             request == [Request EXCEPT !.url = url]
  <2>1. SetAsked("urlAdd", request) /\ ruleForm' = ruleForm
    BY <1>6, Zenon DEF UrlSubmit, rulesPage, ruleForms
  <2>2. request.inputs = {} /\ request.url # {}
    BY RequestFields
  <2> HIDE DEF request
  <2>3. Sound("urlAdd", request)
    BY <2>2 DEF Sound
  <2> QED
    BY <2>1, <2>3, SoundStays DEF SentInv, Source
<1>7. CASE (\E type \in UrlType : UrlDelete(type)) \/ \E rule \in listed.rules : Delete(rule)
  <2>1. PICK m, request :
          /\ m \in {"delete", "urlDelete"} /\ SetAsked(m, request) /\ ruleForm' = ruleForm
          /\ \/ \E id : request = [Request EXCEPT !.id = id]
             \/ \E url : request = [Request EXCEPT !.url = url]
    <3>1. CASE \E type \in UrlType : UrlDelete(type)
      BY <3>1, Zenon DEF UrlDelete, rulesPage, ruleForms
    <3>2. CASE \E rule \in listed.rules : Delete(rule)
      BY <3>2, Zenon DEF Delete, rulesPage, ruleForms
    <3> QED
      BY <1>7, <3>1, <3>2
  <2>2. request.inputs = {}
    BY <2>1, RequestFields
  <2>3. Sound(m, request) /\ m \in Source
    BY <2>1, <2>2 DEF Sound, Source
  <2> QED
    BY <2>1, <2>3, SoundStays DEF SentInv
<1>8. CASE \E m \in Source : RuleAnswered(m)
  <2>1. PICK m, ok : m \in Source /\ SetAsked(m, Unasked) /\ RuleOver(m, ok)
    BY <1>8, Zenon DEF RuleAnswered
  <2>2. ruleForm' = ruleForm \/ ruleForm' = [ruleForm EXCEPT !.value = FALSE, !.domain = ""]
    BY <2>1, Zenon DEF RuleOver
  <2>3. ruleForm' \in Form
    BY <2>2 DEF SentInv, Form
  <2>4. Sound(m, Unasked)
    BY RequestFields, Zenon DEF Sound
  <2> QED
    BY <2>1, <2>3, <2>4, SoundStays
<1> QED
  BY <1>2, <1>3, <1>4, <1>5, <1>6, <1>7, <1>8, Zenon DEF PageStep

(* An answer of the server is no request.                                  *)
LEMMA ServerSound ==
  InputInv /\ SentInv /\ RulesStep /\ UNCHANGED rulesPage => SentInv'
<1> SUFFICES ASSUME InputInv, SentInv, RulesStep, UNCHANGED rulesPage PROVE SentInv'
  OBVIOUS
<1>1. ruleForm' = ruleForm
  BY DEF rulesPage, ruleForms
<1>2. ASSUME asked' = asked PROVE SentInv'
  BY <1>1, <1>2, Zenon DEF SentInv, Sound, Valid
<1>3. ASSUME NEW m \in Source, NEW phase \in {"done", "refused"}, RuleAnswer(m, phase)
      PROVE  SentInv'
  <2> DEFINE request == [asked[m] EXCEPT !.phase = phase]
  <2>1. SetAsked(m, request)
    BY <1>3 DEF RuleAnswer, SetAsked
  <2>2. request.phase # "sent"
    BY DEF InputInv, AskField
  <2> HIDE DEF request
  <2>3. Sound(m, request)
    BY <2>2, Zenon DEF Sound
  <2> QED
    BY <1>1, <2>1, <2>3, SoundStays DEF SentInv
<1>4. CASE \/ \E i \in FeedItem, version \in Version : Fetch(i, version)
           \/ JobReads \/ JobSaves \/ JobFails
           \/ \E s \in scans : ScanUrlRules(s) \/ ScanItems(s) \/ ScanRule(s) \/ ScanLost(s)
  BY <1>2, <1>4, Zenon DEF Fetch, JobReads, JobSaves, JobFails, ScanUrlRules, ScanItems,
     ScanRule, ScanLost
<1>5. CASE \E m \in Source : AddRules(m) \/ Refuse(m)
  <2>1. "done" \in {"done", "refused"} /\ "refused" \in {"done", "refused"}
    OBVIOUS
  <2> QED
    BY <1>3, <1>5, <2>1, Zenon DEF AddRules, Refuse
<1>6. CASE DeleteRule \/ AddUrlRule \/ DeleteUrlRule
  <2>1. /\ "delete" \in Source /\ "urlAdd" \in Source /\ "urlDelete" \in Source
        /\ "done" \in {"done", "refused"}
    BY DEF Source
  <2> QED
    BY <1>3, <1>6, <2>1, Zenon DEF DeleteRule, AddUrlRule, DeleteUrlRule
<1> QED
  BY <1>4, <1>5, <1>6, Zenon DEF RulesStep

(* What the forms and the CSV dialog let through is what the server        *)
(* accepts (block-rules.tsx:118, csv-parser.ts:107, handler.go:1230), of   *)
(* every file whose last column is one of the domains.                     *)
THEOREM FormsPass == RulesPageSpec => []FormsAccepted
<1>1. RulesPageInit => SentInv
  <2> SUFFICES ASSUME RulesPageInit PROVE SentInv
    OBVIOUS
  <2>1. /\ asked = [m \in Source |-> Unasked]
        /\ ruleForm = [type |-> "user", value |-> FALSE, domain |-> ""]
    BY Zenon DEF RulesPageInit, RulesInit
  <2>2. ruleForm \in Form
    BY <2>1 DEF Form, Type
  <2>3. \A m \in Source : asked[m].phase # "sent"
    BY <2>1, RequestFields
  <2> QED
    BY <2>2, <2>3, Zenon DEF SentInv, Sound
<1>2. RulesInv /\ SentInv /\ [RulesPageNext]_ruleVars => SentInv'
  <2> SUFFICES ASSUME RulesInv, SentInv, [RulesPageNext]_ruleVars PROVE SentInv'
    OBVIOUS
  <2>1. InputInv
    BY DEF RulesInv
  <2>2. CASE UNCHANGED ruleVars
    <3>1. asked' = asked /\ ruleForm' = ruleForm
      BY <2>2, Zenon DEF ruleVars, rulesPage, ruleForms
    <3> QED
      BY <3>1, Zenon DEF SentInv, Sound, Valid
  <2> QED
    BY <2>1, <2>2, PageSound, ServerSound, Zenon DEF RulesPageNext
<1>3. SentInv => FormsAccepted
  BY Zenon DEF SentInv, Sound, FormsAccepted
<1> QED
  BY <1>1, <1>2, <1>3, RulesInvHolds, PTL DEF RulesPageSpec

-----------------------------------------------------------------------------
(* Types.  A block is of an item that is stored, whatever was stored when  *)
(* the scan that writes it began, and the number a registration reports is *)
(* that of some rows.                                                      *)

View == [type : Type \cup {NoFilter}, domain : Domain \cup {NoFilter},
         sort : [field : Field \cup {"none"}, down : BOOLEAN]]
Bulk == [open : BOOLEAN, text : SUBSET CsvRow, counts : SUBSET RowCounts, result : SUBSET RowCounts,
         error : BOOLEAN]
Versions == [FeedItem -> {0} \cup Version]

FormsTyped ==
  /\ ruleForm \in Form /\ urlForm \in UrlForm /\ bulk \in Bulk /\ view \in View
  /\ listed.rules \subseteq Rule \X RuleId /\ listed.urlRules \subseteq UrlType

AskTyped(request) ==
  request.phase \in {"idle", "sent", "done", "refused"} /\ request.url \subseteq UrlType

AsksTyped == \A m \in Source : AskTyped(asked[m])

RulesTyped ==
  /\ rules \in [Rule -> {0} \cup RuleId] /\ ids \in 0 .. MaxRuleActs
  /\ urlRules \subseteq UrlType /\ lost \subseteq Rule /\ drifted \in BOOLEAN

JobTyped ==
  /\ job.phase \in {"idle", "fetched", "read"} /\ job.stale \in BOOLEAN
  /\ job.phase # "idle" => job.item \in FeedItem /\ job.version \in Version

\* What a scan found is stored still: nothing deletes items.
ScanTyped(s) ==
  /\ s.phase \in {"urls", "items", "rules"} /\ s.urls \subseteq UrlType
  /\ s.rules \subseteq Rule \X RuleId /\ s.items \in Versions
  /\ \A i \in FeedItem : s.items[i] # 0 => items[i] # 0

ScansTyped == \A s \in scans : ScanTyped(s)

\* A block of an item that is stored by a rule that is there.
Founded(b) == \E i \in StoredItem, r \in Rule : Present(r) /\ b = <<i, rules[r]>>

BlocksTyped == items \in Versions /\ \A b \in blocks : Founded(b)

ActsTyped == ruleActs \in 0 .. MaxRuleActs

RuleTypes ==
  FormsTyped /\ AsksTyped /\ RulesTyped /\ JobTyped /\ ScansTyped /\ BlocksTyped /\ ActsTyped

(* A step is an act or none.                                               *)
LEMMA ActsCount == ActsTyped /\ [RulesPageNext]_ruleVars => ActsTyped'
<1> SUFFICES ASSUME ActsTyped, [RulesPageNext]_ruleVars PROVE ActsTyped'
  OBVIOUS
<1> SUFFICES RuleAct \/ ruleActs' = ruleActs
  BY RuleAssumption DEF ActsTyped, RuleAct, RuleRoom
<1>1. CASE PageStep
  BY <1>1, Zenon DEF PageStep, Fill, UrlFill, ChangeText, SetFilters, ToggleSort, Delete,
     UrlDelete, HandleSubmit, OpenBulk, FileUnreadable, HandleRegister, HandleClose,
     UrlSubmit, List, RuleAnswered
<1>2. CASE RulesStep
  BY <1>2, Zenon DEF RulesStep, Fetch, JobReads, JobSaves, JobFails, AddRules, Refuse,
     DeleteRule, AddUrlRule, DeleteUrlRule, ScanUrlRules, ScanItems, ScanRule, ScanLost
<1>3. CASE UNCHANGED ruleVars
  BY <1>3, Zenon DEF ruleVars
<1> QED
  BY <1>1, <1>2, <1>3, Zenon DEF RulesPageNext

(* One request more, or one that goes on.                                  *)
LEMMA AskedTyped ==
  ASSUME InputInv, AsksTyped, NEW m \in Source, NEW request, SetAsked(m, request),
         AskTyped(request)
  PROVE  AsksTyped'
<1>1. DOMAIN asked = Source
  BY Zenon DEF InputInv
<1>2. \A k \in Source : asked'[k] = IF k = m THEN request ELSE asked[k]
  BY <1>1 DEF SetAsked
<1>3. \A k \in Source : AskTyped(asked'[k])
  BY <1>2, Zenon DEF AsksTyped
<1> QED
  BY <1>3, Zenon DEF AsksTyped, AskTyped

(* The rows of a text are not more than those there are.                   *)
LEMMA RowsCounted ==
  ASSUME InputInv
  PROVE  [success |-> Cardinality(ValidRows), total |-> Cardinality(bulk.text)] \in RowCounts
<1>1. bulk.text \subseteq CsvRow /\ ValidRows \subseteq CsvRow
  BY Zenon DEF InputInv, ValidRows
<1>2. IsFiniteSet(CsvRow)
  BY CsvAssumption, Zenon
<1>3. /\ Cardinality(bulk.text) \in 0 .. Cardinality(CsvRow)
      /\ Cardinality(ValidRows) \in 0 .. Cardinality(CsvRow)
  BY <1>1, <1>2, FS_Subset, FS_CardinalityType
<1> QED
  BY <1>3 DEF RowCounts

(* The fields of requests.                                                 *)
LEMMA RequestTypes ==
  /\ AskTyped(Unasked)
  /\ \A inputs : AskTyped([Request EXCEPT !.inputs = inputs])
  /\ \A id : AskTyped([Request EXCEPT !.id = id])
  /\ \A url \in SUBSET UrlType : AskTyped([Request EXCEPT !.url = url])
<1>1. /\ Request.phase = "sent" /\ Request.url = {} /\ DOMAIN Request = AskField
      /\ Unasked.phase = "idle" /\ Unasked.url = {}
  BY DEF Request, Unasked, AskField
<1> QED
  BY <1>1 DEF AskTyped, AskField

(* What users do, and answers, keep the types of requests.                 *)
LEMMA PageAsks == InputInv /\ FormsTyped /\ AsksTyped /\ PageStep => AsksTyped'
<1> SUFFICES ASSUME InputInv, FormsTyped, AsksTyped, PageStep PROVE AsksTyped'
  OBVIOUS
<1>0. "add" \in Source /\ "bulk" \in Source /\ "delete" \in Source /\ "urlAdd" \in Source
      /\ "urlDelete" \in Source
  BY DEF Source
<1>1. CASE \/ \E f \in Form : Fill(f)
           \/ \E f \in UrlForm : UrlFill(f)
           \/ \E rows \in SUBSET CsvRow : ChangeText(rows)
           \/ \E type \in Type \cup {NoFilter}, domain \in Domain \cup {NoFilter} :
                SetFilters(type, domain)
           \/ \E field \in Field \cup {"none"} : ToggleSort(field)
           \/ OpenBulk \/ FileUnreadable \/ HandleClose \/ List
  <2>1. asked' = asked
    BY <1>1, Zenon DEF Fill, UrlFill, ChangeText, SetFilters, ToggleSort, OpenBulk,
       FileUnreadable, HandleClose, List
  <2> QED
    BY <2>1, Zenon DEF AsksTyped, AskTyped
<1>2. CASE HandleSubmit
  BY <1>0, <1>2, RequestTypes, AskedTyped, Zenon DEF HandleSubmit
<1>3. CASE HandleRegister
  BY <1>0, <1>3, RequestTypes, AskedTyped, Zenon DEF HandleRegister
<1>4. CASE UrlSubmit
  <2>1. urlForm.type \in UrlType
    BY DEF FormsTyped, UrlForm
  <2>2. {urlForm.type} \in SUBSET UrlType
    BY <2>1
  <2> QED
    BY <1>0, <1>4, <2>2, RequestTypes, AskedTyped, Zenon DEF UrlSubmit
<1>5. CASE \E type \in UrlType : UrlDelete(type)
  <2>1. \A type \in UrlType : {type} \in SUBSET UrlType
    OBVIOUS
  <2> QED
    BY <1>0, <1>5, <2>1, RequestTypes, AskedTyped, Zenon DEF UrlDelete
<1>6. CASE \E rule \in listed.rules : Delete(rule)
  BY <1>0, <1>6, RequestTypes, AskedTyped, Zenon DEF Delete
<1>7. CASE \E m \in Source : RuleAnswered(m)
  BY <1>7, RequestTypes, AskedTyped, Zenon DEF RuleAnswered
<1> QED
  BY <1>1, <1>2, <1>3, <1>4, <1>5, <1>6, <1>7, Zenon DEF PageStep

(* And the types of forms and lists.                                       *)
LEMMA PageForms ==
  InputInv /\ FormsTyped /\ AsksTyped /\ RulesTyped /\ PageStep => FormsTyped'
<1> SUFFICES ASSUME InputInv, FormsTyped, AsksTyped, RulesTyped, PageStep PROVE FormsTyped'
  OBVIOUS
<1> USE DEF ruleForms, rulesPage
<1>1. ASSUME UNCHANGED <<urlForm, view, listed>>, ruleForm' \in Form, bulk' \in Bulk
      PROVE  FormsTyped'
  BY <1>1, Zenon DEF FormsTyped
<1>2. CASE \E f \in Form : Fill(f)
  BY <1>2, Zenon DEF Fill, FormsTyped
<1>3. CASE \E f \in UrlForm : UrlFill(f)
  BY <1>3, Zenon DEF UrlFill, FormsTyped
<1>4. CASE \/ \E rows \in SUBSET CsvRow : ChangeText(rows)
           \/ OpenBulk \/ FileUnreadable \/ HandleRegister \/ HandleClose
  <2>1. UNCHANGED <<urlForm, view, listed, ruleForm>>
    BY <1>4, Zenon DEF ChangeText, OpenBulk, FileUnreadable, HandleRegister, HandleClose
  <2>2. bulk' \in Bulk
    <3>1. CASE \E rows \in SUBSET CsvRow : ChangeText(rows)
      <4>1. PICK rows \in SUBSET CsvRow :
              bulk' = [bulk EXCEPT !.text = rows, !.result = {}, !.error = FALSE]
        BY <3>1, Zenon DEF ChangeText
      <4> QED
        BY <4>1 DEF FormsTyped, Bulk
    <3>2. CASE OpenBulk \/ FileUnreadable \/ HandleRegister
      <4>1. \/ bulk' = [bulk EXCEPT !.open = TRUE]
            \/ bulk' = [bulk EXCEPT !.error = TRUE]
            \/ \E c \in RowCounts : bulk' = [bulk EXCEPT !.error = FALSE, !.counts = {c}]
        BY <3>2, RowsCounted, Zenon DEF OpenBulk, FileUnreadable, HandleRegister
      <4> QED
        BY <4>1 DEF FormsTyped, Bulk
    <3>3. CASE HandleClose
      <4>1. bulk' = ClosedBulk
        BY <3>3, Zenon DEF HandleClose
      <4> QED
        BY <4>1 DEF Bulk, ClosedBulk
    <3> QED
      BY <1>4, <3>1, <3>2, <3>3
  <2> QED
    BY <2>1, <2>2, <1>1, Zenon DEF FormsTyped
<1>5. CASE \E type \in Type \cup {NoFilter}, domain \in Domain \cup {NoFilter} :
             SetFilters(type, domain)
  <2>1. PICK type \in Type \cup {NoFilter}, domain \in Domain \cup {NoFilter} :
          view' = [view EXCEPT !.type = type, !.domain = domain]
    BY <1>5, Zenon DEF SetFilters
  <2>2. view' \in View
    <3> DEFINE types == Type \cup {NoFilter}
               domains == Domain \cup {NoFilter}
               sorts == [field : Field \cup {"none"}, down : BOOLEAN]
    <3>1. view \in [type : types, domain : domains, sort : sorts]
      BY Zenon DEF FormsTyped, View
    <3>2. View = [type : types, domain : domains, sort : sorts] /\ type \in types
          /\ domain \in domains
      BY Zenon DEF View
    <3> HIDE DEF types, domains, sorts
    <3> QED
      BY <2>1, <3>1, <3>2
  <2>3. UNCHANGED <<ruleForm, bulk, urlForm, listed>>
    BY <1>5, Zenon DEF SetFilters
  <2> QED
    BY <2>2, <2>3, Zenon DEF FormsTyped
<1>6. CASE \E field \in Field \cup {"none"} : ToggleSort(field)
  <2>1. PICK field \in Field \cup {"none"} : ToggleSort(field)
    BY <1>6
  <2> DEFINE sort == IF field = "none" THEN Unsorted
                     ELSE [field |-> field, down |-> SortIndicator(field) = {"up"}]
  <2>2. view' = [view EXCEPT !.sort = sort]
    BY <2>1, Zenon DEF ToggleSort
  <2>3. sort \in [field : Field \cup {"none"}, down : BOOLEAN]
    BY DEF Unsorted
  <2> HIDE DEF sort
  <2>4. view' \in View
    <3> DEFINE types == Type \cup {NoFilter}
               domains == Domain \cup {NoFilter}
               sorts == [field : Field \cup {"none"}, down : BOOLEAN]
    <3>1. view \in [type : types, domain : domains, sort : sorts] /\ sort \in sorts
      BY <2>3, Zenon DEF FormsTyped, View
    <3>2. View = [type : types, domain : domains, sort : sorts]
      BY Zenon DEF View
    <3> HIDE DEF types, domains, sorts
    <3> QED
      BY <2>2, <3>1, <3>2
  <2>5. UNCHANGED <<ruleForm, bulk, urlForm, listed>>
    BY <2>1, Zenon DEF ToggleSort
  <2> QED
    BY <2>4, <2>5, Zenon DEF FormsTyped
<1>7. CASE \/ \E rule \in listed.rules : Delete(rule)
           \/ \E type \in UrlType : UrlDelete(type)
           \/ HandleSubmit \/ UrlSubmit
  <2>1. UNCHANGED <<ruleForm, bulk, urlForm, view, listed>>
    BY <1>7, Zenon DEF Delete, UrlDelete, HandleSubmit, UrlSubmit
  <2> QED
    BY <2>1, Zenon DEF FormsTyped
<1>8. CASE List
  <2> DEFINE there == {<<r, rules[r]>> : r \in {s \in Rule : Present(s)}}
  <2>1. listed' = [rules |-> there, urlRules |-> urlRules]
        /\ UNCHANGED <<ruleForm, bulk, urlForm, view>>
    BY <1>8, Zenon DEF List
  <2>2. there \subseteq Rule \X RuleId
    <3>1. \A r \in Rule : Present(r) => rules[r] \in RuleId
      BY DEF RulesTyped, Present
    <3> HIDE DEF there
    <3> QED
      BY <3>1 DEF there
  <2> HIDE DEF there
  <2>3. listed'.rules = there /\ listed'.urlRules = urlRules
    BY <2>1
  <2> QED
    BY <2>1, <2>2, <2>3, Zenon DEF FormsTyped, RulesTyped
<1>9. CASE \E m \in Source : RuleAnswered(m)
  <2>1. PICK m \in Source : RuleAnswered(m)
    BY <1>9
  <2>2. PICK ok \in {FALSE, asked[m].phase = "done"} : RuleOver(m, ok)
    BY <2>1, Zenon DEF RuleAnswered
  <2>3. ruleForm' \in Form
    <3>1. ruleForm' = ruleForm \/ ruleForm' = [ruleForm EXCEPT !.value = FALSE, !.domain = ""]
      BY <2>2, Zenon DEF RuleOver
    <3> QED
      BY <3>1 DEF FormsTyped, Form
  <2>4. urlForm' \in UrlForm
    <3>1. urlForm' = urlForm \/ urlForm' = [urlForm EXCEPT !.domain = FALSE, !.pattern = FALSE]
      BY <2>2, Zenon DEF RuleOver
    <3> QED
      BY <3>1 DEF FormsTyped, UrlForm
  <2>5. bulk' \in Bulk
    <3>1. \/ bulk' = bulk \/ bulk' = [bulk EXCEPT !.error = TRUE, !.counts = {}]
          \/ bulk' = [bulk EXCEPT !.text = {}, !.counts = {}, !.result = bulk.counts]
      BY <2>2 DEF RuleOver
    <3> QED
      BY <3>1 DEF FormsTyped, Bulk
  <2>6. UNCHANGED <<view, listed>>
    BY <2>1, Zenon DEF RuleAnswered
  <2> QED
    BY <2>3, <2>4, <2>5, <2>6, Zenon DEF FormsTyped
<1> QED
  BY <1>2, <1>3, <1>4, <1>5, <1>6, <1>7, <1>8, <1>9, Zenon DEF PageStep

(* The server answers what was sent.                                       *)
LEMMA ServerAsks == InputInv /\ AsksTyped /\ RulesStep => AsksTyped'
<1> SUFFICES ASSUME InputInv, AsksTyped, RulesStep PROVE AsksTyped'
  OBVIOUS
<1>1. ASSUME NEW m \in Source, NEW phase \in {"done", "refused"}, asked[m].phase = "sent",
             RuleAnswer(m, phase)
      PROVE  AsksTyped'
  <2> DEFINE request == [asked[m] EXCEPT !.phase = phase]
  <2>1. SetAsked(m, request)
    BY <1>1, Zenon DEF RuleAnswer, SetAsked
  <2>2. DOMAIN asked[m] = AskField
    BY <1>1, Zenon DEF InputInv
  <2>3. request.phase = phase /\ request.url = asked[m].url /\ request.inputs = asked[m].inputs
    BY <2>2 DEF AskField
  <2> HIDE DEF request
  <2>4. AskTyped(request)
    BY <1>1, <2>3 DEF AsksTyped, AskTyped
  <2> QED
    BY <2>1, <2>4, AskedTyped
<1>2. CASE \/ \E i \in FeedItem, version \in Version : Fetch(i, version)
           \/ JobReads \/ JobSaves \/ JobFails
           \/ \E s \in scans : ScanUrlRules(s) \/ ScanItems(s) \/ ScanRule(s) \/ ScanLost(s)
  <2>1. asked' = asked
    BY <1>2, Zenon DEF Fetch, JobReads, JobSaves, JobFails, ScanUrlRules, ScanItems,
       ScanRule, ScanLost
  <2> QED
    BY <2>1, Zenon DEF AsksTyped, AskTyped
<1>3. /\ "delete" \in Source /\ "urlAdd" \in Source /\ "urlDelete" \in Source
      /\ "done" \in {"done", "refused"} /\ "refused" \in {"done", "refused"}
  BY DEF Source
<1>4. CASE \E m \in Source : AddRules(m) \/ Refuse(m)
  BY <1>1, <1>3, <1>4, Zenon DEF AddRules, Refuse
<1>5. CASE DeleteRule \/ AddUrlRule \/ DeleteUrlRule
  BY <1>1, <1>3, <1>5, Zenon DEF DeleteRule, AddUrlRule, DeleteUrlRule
<1> QED
  BY <1>2, <1>4, <1>5, Zenon DEF RulesStep

(* Rules that are asked for are rules, and have an id in the end.          *)
LEMMA AddGives ==
  ASSUME InputInv, RulesTyped, NEW m \in Source, AddRules(m)
  PROVE  /\ rules' \in [Rule -> {0} \cup RuleId] /\ ids' \in 0 .. MaxRuleActs
         /\ \A r \in Rule : Present(r) => rules'[r] = rules[r]
         /\ \A input \in asked[m].inputs :
              Normalised(input) \in Rule /\ rules'[Normalised(input)] \in RuleId
<1> DEFINE wanted == {Normalised(input) : input \in asked[m].inputs}
           new == {r \in wanted : ~Present(r)}
<1>1. /\ ids + Cardinality(new) <= MaxRuleActs
      /\ rules' = [r \in Rule |-> IF r \in new THEN Numbered(new)[r] ELSE rules[r]]
      /\ ids' = ids + Cardinality(new)
      /\ \A input \in asked[m].inputs : Valid(input)
  BY Zenon DEF AddRules
<1>2. wanted \subseteq Rule
  <2> SUFFICES ASSUME NEW input \in asked[m].inputs PROVE Normalised(input) \in Rule
    OBVIOUS
  <2>1. input.domain \in Domain /\ input.type \in Type
    BY <1>1, Zenon DEF InputInv, Valid
  <2> QED
    BY <2>1 DEF Normalised, Rule, Domain
<1>3. new \in SUBSET Rule /\ ids \in Nat
  BY <1>2 DEF RulesTyped
<1>4. /\ Cardinality(new) \in Nat
      /\ \A r \in new : /\ Numbered(new)[r] \in Nat /\ Numbered(new)[r] > ids
                        /\ Numbered(new)[r] <= ids + Cardinality(new)
  BY <1>3, NumbersAreNew
<1>5. \A r \in wanted : r \notin new => Present(r)
  OBVIOUS
<1>6. \A r \in new : ~Present(r)
  OBVIOUS
<1>7. \A input \in asked[m].inputs : Normalised(input) \in wanted
  OBVIOUS
<1> HIDE DEF new, wanted
<1>8. \A r \in new : Numbered(new)[r] \in RuleId
  BY <1>1, <1>3, <1>4, RuleAssumption DEF RuleId
<1>9. \A r \in Rule : rules'[r] = IF r \in new THEN Numbered(new)[r] ELSE rules[r]
  BY <1>1
<1>10. \A r \in Rule : Present(r) => rules[r] \in RuleId
  BY DEF RulesTyped, Present
<1>11. \A r \in Rule : rules'[r] \in {0} \cup RuleId
  BY <1>8, <1>9 DEF RulesTyped
<1>12. rules' \in [Rule -> {0} \cup RuleId]
  BY <1>1, <1>11
<1>13. ids' \in 0 .. MaxRuleActs
  BY <1>1, <1>3, <1>4, RuleAssumption
<1>14. \A r \in Rule : Present(r) => rules'[r] = rules[r]
  BY <1>6, <1>9
<1>15. \A r \in wanted : r \in Rule /\ rules'[r] \in RuleId
  BY <1>2, <1>5, <1>8, <1>9, <1>10
<1> QED
  BY <1>7, <1>12, <1>13, <1>14, <1>15

(* The tables of rules keep their types.                                   *)
LEMMA RulesTypedStay ==
  InputInv /\ AsksTyped /\ RulesTyped /\ ScansTyped /\ RulesStep => RulesTyped'
<1> SUFFICES ASSUME InputInv, AsksTyped, RulesTyped, ScansTyped, RulesStep
             PROVE  RulesTyped'
  OBVIOUS
<1> USE DEF ruleDb, story
<1>1. CASE \/ \E i \in FeedItem, version \in Version : Fetch(i, version)
           \/ JobReads \/ JobSaves \/ JobFails \/ \E m \in Source : Refuse(m)
           \/ \E s \in scans : ScanUrlRules(s) \/ ScanItems(s) \/ ScanRule(s)
  <2>1. UNCHANGED <<rules, ids, urlRules, lost, drifted>>
    BY <1>1, Zenon DEF Fetch, JobReads, JobSaves, JobFails, Refuse, ScanUrlRules, ScanItems,
       ScanRule
  <2> QED
    BY <2>1, Zenon DEF RulesTyped
<1>2. ASSUME NEW m \in Source, AddRules(m) PROVE RulesTyped'
  <2>1. UNCHANGED <<urlRules, lost, drifted>>
    BY <1>2, Zenon DEF AddRules
  <2> QED
    BY <1>2, <2>1, AddGives, Zenon DEF RulesTyped
<1>3. CASE DeleteRule
  <2> DEFINE id == asked["delete"].id
  <2>1. /\ rules' = [r \in Rule |-> IF rules[r] = id THEN 0 ELSE rules[r]]
        /\ lost' = {r \in lost : rules'[r] # 0} /\ UNCHANGED <<urlRules, ids, drifted>>
    BY <1>3, Zenon DEF DeleteRule
  <2> HIDE DEF id
  <2>2. rules' \in [Rule -> {0} \cup RuleId]
    BY <2>1 DEF RulesTyped
  <2>3. lost' \subseteq Rule
    BY <2>1 DEF RulesTyped
  <2> QED
    BY <2>1, <2>2, <2>3, Zenon DEF RulesTyped
<1>4. CASE AddUrlRule \/ DeleteUrlRule
  <2>1. /\ \/ urlRules' = urlRules \cup asked["urlAdd"].url
           \/ urlRules' = urlRules \ asked["urlDelete"].url
        /\ drifted' = TRUE /\ UNCHANGED <<rules, ids, lost>>
    BY <1>4, Zenon DEF AddUrlRule, DeleteUrlRule
  <2>2. asked["urlAdd"].url \subseteq UrlType
    BY DEF AsksTyped, AskTyped, Source
  <2> QED
    BY <2>1, <2>2 DEF RulesTyped
<1>5. ASSUME NEW s \in scans, ScanLost(s) PROVE RulesTyped'
  <2> DEFINE gone == {rule[1] : rule \in {t \in s.rules : rules[t[1]] = t[2]}}
  <2>1. lost' = lost \cup gone /\ UNCHANGED <<rules, ids, urlRules, drifted>>
    BY <1>5, Zenon DEF ScanLost
  <2>2. gone \subseteq Rule
    BY DEF ScansTyped, ScanTyped
  <2> HIDE DEF gone
  <2> QED
    BY <2>1, <2>2 DEF RulesTyped
<1> QED
  BY <1>1, <1>2, <1>3, <1>4, <1>5, Zenon DEF RulesStep

(* A commit changes a flag of the job.                                     *)
LEMMA JobTypedStays == JobForm /\ JobTyped /\ RulesStep => JobTyped'
<1> SUFFICES ASSUME JobForm, JobTyped, RulesStep PROVE JobTyped'
  OBVIOUS
<1>1. CASE job' = job
  BY <1>1, Zenon DEF JobTyped
<1>2. CASE job' = NoJob
  BY <1>2 DEF JobTyped, NoJob
<1>3. CASE Commits
  <2> DEFINE old == job.stale \/ job.phase = "read"
  <2>1. job' = [job EXCEPT !.stale = old]
    BY <1>3 DEF Commits
  <2>2. old \in BOOLEAN
    BY Zenon
  <2> HIDE DEF old
  <2>3. job'.stale = old /\ job'.phase = job.phase /\ job'.item = job.item
        /\ job'.version = job.version
    BY <2>1 DEF JobForm
  <2> QED
    BY <2>2, <2>3, Zenon DEF JobTyped
<1>4. CASE JobReads
  <2> DEFINE all == {r \in Rule : Present(r)}
  <2>1. job' = [job EXCEPT !.phase = "read", !.urls = urlRules, !.rules = all]
        /\ job.phase = "fetched"
    BY <1>4, Zenon DEF JobReads
  <2> HIDE DEF all
  <2> QED
    BY <2>1 DEF JobTyped, JobForm
<1>5. CASE \E i \in FeedItem, version \in Version : Fetch(i, version)
  <2>1. PICK i \in FeedItem, version \in Version :
          job' = [NoJob EXCEPT !.phase = "fetched", !.item = i, !.version = version]
    BY <1>5, Zenon DEF Fetch
  <2> QED
    BY <2>1 DEF JobTyped, NoJob
<1> QED
  BY <1>1, <1>2, <1>3, <1>4, <1>5, Zenon DEF RulesStep, JobSaves, JobFails, AddRules, Refuse,
     DeleteRule, AddUrlRule, DeleteUrlRule, ScanUrlRules, ScanItems, ScanRule, ScanLost

(* Items that come and rules that come leave what blocks are about.        *)
LEMMA FoundedStays ==
  ASSUME NEW b, Founded(b), \A i \in FeedItem : items[i] # 0 => items'[i] # 0,
         \A r \in Rule : Present(r) /\ rules[r] = b[2] => rules'[r] = rules[r]
  PROVE  Founded(b)'
<1>1. PICK i \in StoredItem, r \in Rule : Present(r) /\ b = <<i, rules[r]>>
  BY DEF Founded
<1>2. rules'[r] = rules[r] /\ i \in FeedItem /\ items'[i] # 0
  BY <1>1 DEF StoredItem
<1>3. Present(r)' /\ i \in StoredItem' /\ b = <<i, rules'[r]>>
  BY <1>1, <1>2, Zenon DEF Present, StoredItem
<1> QED
  BY <1>3, Zenon DEF Founded

(* The items and the blocks.                                               *)
LEMMA BlocksTypedStay ==
  /\ JobForm /\ JobExact /\ InputInv /\ JobTyped /\ RulesTyped /\ ScansTyped /\ BlocksTyped
  /\ RulesStep
  => BlocksTyped' /\ \A i \in FeedItem : items[i] # 0 => items'[i] # 0
<1> SUFFICES ASSUME JobForm, JobExact, InputInv, JobTyped, RulesTyped, ScansTyped,
                    BlocksTyped, RulesStep
             PROVE  BlocksTyped' /\ \A i \in FeedItem : items[i] # 0 => items'[i] # 0
  OBVIOUS
<1> USE DEF ruleDb
<1>1. CASE items' = items /\ blocks' = blocks /\ \A r \in Rule : Present(r) => rules'[r] = rules[r]
  <2>1. \A b \in blocks : Founded(b)'
    BY <1>1, FoundedStays, Zenon DEF BlocksTyped
  <2> QED
    BY <1>1, <2>1, Zenon DEF BlocksTyped
<1>2. CASE \/ \E i \in FeedItem, version \in Version : Fetch(i, version)
           \/ JobReads \/ JobFails \/ \E m \in Source : Refuse(m)
           \/ AddUrlRule \/ DeleteUrlRule
           \/ \E s \in scans : ScanUrlRules(s) \/ ScanItems(s) \/ ScanLost(s)
  <2>1. items' = items /\ blocks' = blocks /\ rules' = rules
    BY <1>2, Zenon DEF Fetch, JobReads, JobFails, Refuse, AddUrlRule, DeleteUrlRule,
       ScanUrlRules, ScanItems, ScanLost
  <2> QED
    BY <1>1, <2>1, Zenon
<1>3. ASSUME NEW m \in Source, AddRules(m)
      PROVE  BlocksTyped' /\ \A i \in FeedItem : items[i] # 0 => items'[i] # 0
  <2>1. items' = items /\ blocks' = blocks
    BY <1>3, Zenon DEF AddRules
  <2> QED
    BY <1>1, <1>3, <2>1, AddGives, Zenon
<1>4. CASE DeleteRule
  <2> DEFINE id == asked["delete"].id
  <2>1. /\ rules' = [r \in Rule |-> IF rules[r] = id THEN 0 ELSE rules[r]]
        /\ blocks' = {b \in blocks : b[2] # id} /\ items' = items
    BY <1>4, Zenon DEF DeleteRule
  <2> HIDE DEF id
  <2>2. ASSUME NEW b \in blocks' PROVE Founded(b)'
    <3>1. b \in blocks /\ b[2] # id
      BY <2>1
    <3>2. \A r \in Rule : rules[r] = b[2] => rules'[r] = rules[r]
      BY <2>1, <3>1
    <3> QED
      BY <2>1, <3>1, <3>2, FoundedStays, Zenon DEF BlocksTyped
  <2> QED
    BY <2>1, <2>2, Zenon DEF BlocksTyped
<1>5. CASE JobSaves
  <2> DEFINE more == {<<job.item, rules[r]>> : r \in {s \in job.rules :
                        ShouldBlock(job.item, job.version, s, job.urls)}}
  <2>1. /\ items' = [items EXCEPT ![job.item] = job.version]
        /\ blocks' = blocks \cup more /\ rules' = rules
        /\ job.phase = "read" /\ ~job.stale
    BY <1>5, Zenon DEF JobSaves
  <2>2. job.item \in FeedItem /\ job.version \in Version /\ job.version # 0
    BY <2>1, RuleAssumption DEF JobTyped
  <2>3. items' \in Versions /\ \A i \in FeedItem : items[i] # 0 => items'[i] # 0
    BY <2>1, <2>2 DEF BlocksTyped, Versions
  <2>4. job.item \in StoredItem'
    BY <2>1, <2>2 DEF StoredItem, BlocksTyped, Versions
  <2>5. \A r \in job.rules : r \in Rule /\ Present(r)
    BY <2>1 DEF JobExact
  <2>6. ASSUME NEW b \in more PROVE Founded(b)'
    <3>1. PICK r \in job.rules : b = <<job.item, rules[r]>>
      BY <2>6
    <3>2. r \in Rule /\ Present(r)' /\ b = <<job.item, rules'[r]>>
      BY <2>1, <2>5, <3>1, Zenon DEF Present
    <3> QED
      BY <2>4, <3>2, Zenon DEF Founded
  <2>7. ASSUME NEW b \in blocks PROVE Founded(b)'
    BY <2>1, <2>3, FoundedStays, Zenon DEF BlocksTyped
  <2> HIDE DEF more
  <2> QED
    BY <2>1, <2>3, <2>6, <2>7 DEF BlocksTyped
<1>6. ASSUME NEW s \in scans, ScanRule(s)
      PROVE  BlocksTyped' /\ \A i \in FeedItem : items[i] # 0 => items'[i] # 0
  <2>1. PICK rule \in s.rules :
          LET r == rule[1]
              hit == {i \in FeedItem : s.items[i] # 0 /\ ShouldBlock(i, s.items[i], r, s.urls)}
              new == IF rules[r] = rule[2] THEN {<<i, rule[2]>> : i \in hit} ELSE {}
          IN  blocks' = blocks \cup new
    BY <1>6, Zenon DEF ScanRule
  <2> DEFINE r == rule[1]
             hit == {i \in FeedItem : s.items[i] # 0 /\ ShouldBlock(i, s.items[i], r, s.urls)}
             new == IF rules[r] = rule[2] THEN {<<i, rule[2]>> : i \in hit} ELSE {}
  <2>2. blocks' = blocks \cup new /\ items' = items /\ rules' = rules
    BY <1>6, <2>1, Zenon DEF ScanRule
  <2>3. r \in Rule /\ rule[2] \in RuleId /\ hit \subseteq StoredItem
    <3>1. rule \in Rule \X RuleId
      BY DEF ScansTyped, ScanTyped
    <3>2. hit \subseteq StoredItem
      BY DEF ScansTyped, ScanTyped, StoredItem
    <3> QED
      BY <3>1, <3>2
  <2>4. rule[2] # 0
    BY <2>3, RuleAssumption DEF RuleId
  <2>5. ASSUME NEW b \in new PROVE Founded(b)
    <3>1. rules[r] = rule[2] /\ \E i \in hit : b = <<i, rule[2]>>
      BY <2>5
    <3> HIDE DEF hit, r
    <3>2. Present(r) /\ \E i \in StoredItem : b = <<i, rules[r]>>
      BY <2>3, <2>4, <3>1 DEF Present
    <3> QED
      BY <2>3, <3>2, Zenon DEF Founded
  <2> HIDE DEF new
  <2>6. ASSUME NEW b \in blocks' PROVE Founded(b)
    BY <2>2, <2>5 DEF BlocksTyped
  <2>7. \A b \in blocks' : Founded(b)'
    BY <2>2, <2>6, FoundedStays, Zenon
  <2> QED
    BY <2>2, <2>7, Zenon DEF BlocksTyped
<1> QED
  BY <1>2, <1>3, <1>4, <1>5, <1>6, Zenon DEF RulesStep

(* The scans.                                                              *)
LEMMA ScansTypedStay ==
  ASSUME InputInv, IdsInv, AsksTyped, RulesTyped, ScansTyped, BlocksTyped, RulesStep,
         \A i \in FeedItem : items[i] # 0 => items'[i] # 0
  PROVE  ScansTyped'
<1> USE DEF ruleDb, story
<1>1. \A s : ScanTyped(s) => ScanTyped(s)'
  BY Zenon DEF ScanTyped
<1>2. ASSUME \A s \in scans' : s \in scans \/ ScanTyped(s)' PROVE ScansTyped'
  BY <1>1, <1>2, Zenon DEF ScansTyped
<1>3. CASE \/ \E i \in FeedItem, version \in Version : Fetch(i, version)
           \/ JobReads \/ JobSaves \/ JobFails \/ \E m \in Source : Refuse(m)
           \/ DeleteRule \/ AddUrlRule \/ DeleteUrlRule
  <2>1. scans' = scans
    BY <1>3, Zenon DEF Fetch, JobReads, JobSaves, JobFails, Refuse, DeleteRule, AddUrlRule,
       DeleteUrlRule
  <2> QED
    BY <1>2, <2>1, Zenon
<1>4. ASSUME NEW m \in Source, AddRules(m) PROVE ScansTyped'
  <2> DEFINE wanted == {Normalised(input) : input \in asked[m].inputs}
             new == [phase |-> "urls", rules |-> {<<r, rules'[r]>> : r \in wanted},
                     urls |-> {}, items |-> [i \in FeedItem |-> 0]]
  <2>1. scans' = scans \cup {new}
    BY <1>4, Zenon DEF AddRules
  <2>2. \A input \in asked[m].inputs :
          Normalised(input) \in Rule /\ rules'[Normalised(input)] \in RuleId
    BY <1>4, AddGives
  <2>3. new.rules \subseteq Rule \X RuleId
    <3>1. \A r \in wanted : r \in Rule /\ rules'[r] \in RuleId
      BY <2>2
    <3> HIDE DEF wanted
    <3> QED
      BY <3>1
  <2>4. new.phase = "urls" /\ new.urls = {} /\ new.items \in Versions
        /\ \A i \in FeedItem : new.items[i] = 0
    BY DEF Versions
  <2> HIDE DEF new
  <2>5. ASSUME NEW s \in scans', s \notin scans PROVE ScanTyped(s)'
    <3>1. s = new
      BY <2>1, <2>5
    <3>2. /\ s.rules \subseteq Rule \X RuleId /\ s.phase = "urls" /\ s.urls = {}
          /\ s.items \in Versions /\ \A i \in FeedItem : s.items[i] = 0
      BY <2>3, <2>4, <3>1, Zenon
    <3> QED
      BY <3>2 DEF ScanTyped
  <2> QED
    BY <1>2, <2>5, Zenon
<1>5. ASSUME NEW s \in scans, NEW t, Becomes(s, t), \A u \in t : ScanTyped(u)'
      PROVE  ScansTyped'
  BY <1>2, <1>5 DEF Becomes
<1>6. ASSUME NEW s \in scans
      PROVE  ScanTyped(s) /\ DOMAIN s = {"phase", "rules", "urls", "items"}
  BY DEF ScansTyped, IdsInv
<1>7. ASSUME NEW s \in scans, ScanUrlRules(s) PROVE ScansTyped'
  <2> DEFINE u == [s EXCEPT !.phase = "items", !.urls = urlRules]
  <2>1. Becomes(s, {u})
    BY <1>7, Zenon DEF ScanUrlRules
  <2>2. u.phase = "items" /\ u.urls = urlRules /\ u.rules = s.rules /\ u.items = s.items
    BY <1>6
  <2> HIDE DEF u
  <2>3. ScanTyped(u)
    BY <1>6, <2>2 DEF ScanTyped, RulesTyped
  <2> QED
    BY <1>1, <1>5, <2>1, <2>3
<1>8. ASSUME NEW s \in scans, ScanItems(s) PROVE ScansTyped'
  <2> DEFINE u == [s EXCEPT !.phase = "rules", !.items = items]
  <2>1. Becomes(s, {u})
    BY <1>8, Zenon DEF ScanItems
  <2>2. u.phase = "rules" /\ u.items = items /\ u.rules = s.rules /\ u.urls = s.urls
    BY <1>6
  <2> HIDE DEF u
  <2>3. ScanTyped(u)
    BY <1>6, <2>2 DEF ScanTyped, BlocksTyped
  <2> QED
    BY <1>1, <1>5, <2>1, <2>3
<1>9. ASSUME NEW s \in scans, ScanRule(s) PROVE ScansTyped'
  <2>1. PICK rule \in s.rules :
          Becomes(s, IF s.rules = {rule} THEN {} ELSE {[s EXCEPT !.rules = @ \ {rule}]})
    BY <1>9, Zenon DEF ScanRule
  <2> DEFINE u == [s EXCEPT !.rules = @ \ {rule}]
  <2>2. u.rules = s.rules \ {rule} /\ u.phase = s.phase /\ u.urls = s.urls /\ u.items = s.items
    BY <1>6
  <2>3. Becomes(s, {}) \/ Becomes(s, {u})
    BY <2>1, Zenon
  <2> HIDE DEF u
  <2>4. ScanTyped(u)
    BY <1>6, <2>2 DEF ScanTyped
  <2> QED
    BY <1>1, <1>5, <2>3, <2>4
<1>10. ASSUME NEW s \in scans, ScanLost(s) PROVE ScansTyped'
  <2>1. Becomes(s, {})
    BY <1>10, Zenon DEF ScanLost
  <2> QED
    BY <1>5, <2>1
<1> QED
  BY <1>3, <1>4, <1>7, <1>8, <1>9, <1>10, Zenon DEF RulesStep

(* Initially.                                                              *)
LEMMA RuleTypesInit == RulesPageInit => RuleTypes
<1> SUFFICES ASSUME RulesPageInit PROVE RuleTypes
  OBVIOUS
<1>1. /\ ruleForm = [type |-> "user", value |-> FALSE, domain |-> ""]
      /\ bulk = ClosedBulk
      /\ view = [type |-> NoFilter, domain |-> NoFilter, sort |-> Unsorted]
      /\ urlForm = [domain |-> FALSE, type |-> "subdomain", pattern |-> FALSE]
      /\ listed = [rules |-> {}, urlRules |-> urlRules]
  BY Zenon DEF RulesPageInit
<1>2. /\ items = [i \in FeedItem |-> 0] /\ rules = [r \in Rule |-> 0] /\ blocks = {}
      /\ urlRules \in {{}, {"path"}} /\ ids = 0
      /\ job = NoJob /\ scans = {} /\ asked = [m \in Source |-> Unasked] /\ ruleActs = 0
      /\ lost = {} /\ drifted = FALSE
  BY Zenon DEF RulesPageInit, RulesInit
<1>3. FormsTyped
  <2>1. ruleForm \in Form
    BY <1>1 DEF Form, Type
  <2>2. urlForm \in UrlForm
    BY <1>1 DEF UrlForm, UrlType
  <2>3. bulk \in Bulk
    BY <1>1 DEF Bulk, ClosedBulk
  <2>4. view \in View
    BY <1>1 DEF View, Unsorted
  <2>5. listed.rules = {} /\ listed.urlRules \subseteq UrlType
    BY <1>1, <1>2 DEF UrlType
  <2> QED
    BY <2>1, <2>2, <2>3, <2>4, <2>5, Zenon DEF FormsTyped
<1>4. AsksTyped
  <2>1. \A m \in Source : asked[m] = Unasked
    BY <1>2
  <2> QED
    BY <2>1, RequestTypes, Zenon DEF AsksTyped
<1>5. RulesTyped
  <2>1. rules \in [Rule -> {0} \cup RuleId]
    BY <1>2
  <2>2. urlRules \subseteq UrlType
    BY <1>2 DEF UrlType
  <2>3. ids = 0 /\ lost = {} /\ drifted = FALSE
    BY <1>2, Zenon
  <2>4. ids \in 0 .. MaxRuleActs
    BY <2>3, RuleAssumption
  <2>5. lost \subseteq Rule /\ drifted \in BOOLEAN
    BY <2>3, Zenon
  <2> QED
    BY <2>1, <2>2, <2>4, <2>5, Zenon DEF RulesTyped
<1>6. JobTyped
  BY <1>2 DEF JobTyped, NoJob
<1>7. ScansTyped /\ BlocksTyped
  <2>1. items \in Versions
    BY <1>2 DEF Versions
  <2> QED
    BY <1>2, <2>1, Zenon DEF ScansTyped, BlocksTyped
<1>8. ActsTyped
  BY <1>2, RuleAssumption DEF ActsTyped
<1> QED
  BY <1>3, <1>4, <1>5, <1>6, <1>7, <1>8 DEF RuleTypes

(* Every step of the pages, the server and its scans keeps the types.      *)
LEMMA RuleTypesStep == RulesInv /\ RuleTypes /\ [RulesPageNext]_ruleVars => RuleTypes'
<1> SUFFICES ASSUME RulesInv, RuleTypes, [RulesPageNext]_ruleVars PROVE RuleTypes'
  OBVIOUS
<1>0. /\ FormsTyped /\ AsksTyped /\ RulesTyped /\ JobTyped /\ ScansTyped /\ BlocksTyped
      /\ ActsTyped /\ InputInv /\ IdsInv /\ JobForm /\ JobExact
  BY DEF RuleTypes, RulesInv, Scanned
<1>1. ASSUME UNCHANGED still PROVE RulesTyped' /\ JobTyped' /\ ScansTyped' /\ BlocksTyped'
  <2>1. /\ items' = items /\ rules' = rules /\ blocks' = blocks /\ urlRules' = urlRules
        /\ ids' = ids /\ scans' = scans /\ job' = job /\ lost' = lost /\ drifted' = drifted
    BY <1>1 DEF still, ruleDb, story
  <2>2. RulesTyped'
    BY <1>0, <2>1, Zenon DEF RulesTyped
  <2>3. JobTyped'
    BY <1>0, <2>1, Zenon DEF JobTyped
  <2>4. ScansTyped'
    BY <1>0, <2>1, Zenon DEF ScansTyped, ScanTyped
  <2>5. BlocksTyped'
    BY <1>0, <2>1, Zenon DEF BlocksTyped, Founded, StoredItem, Present
  <2> QED
    BY <2>2, <2>3, <2>4, <2>5
<1>2. ActsTyped'
  BY <1>0, ActsCount
<1>3. ASSUME UNCHANGED rulesPage PROVE FormsTyped'
  BY <1>0, <1>3, Zenon DEF FormsTyped, rulesPage, ruleForms
<1>4. CASE PageStep
  BY <1>0, <1>1, <1>2, <1>4, PageStays, PageAsks, PageForms, Zenon DEF RuleTypes
<1>5. CASE RulesStep /\ UNCHANGED rulesPage
  BY <1>0, <1>2, <1>3, <1>5, ServerAsks, RulesTypedStay, JobTypedStays, BlocksTypedStay,
     ScansTypedStay, Zenon DEF RuleTypes
<1>6. CASE UNCHANGED ruleVars
  <2>1. UNCHANGED still /\ UNCHANGED rulesPage /\ asked' = asked
    BY <1>6, Zenon DEF ruleVars, still
  <2>2. AsksTyped'
    BY <1>0, <2>1, Zenon DEF AsksTyped
  <2> QED
    BY <1>1, <1>2, <1>3, <2>1, <2>2, Zenon DEF RuleTypes
<1> QED
  BY <1>4, <1>5, <1>6, Zenon DEF RulesPageNext

(* They are the types of the page.                                         *)
LEMMA RuleTypesAll == RuleTypes => RulesPageTypeOK
<1> SUFFICES ASSUME RuleTypes PROVE RulesPageTypeOK
  OBVIOUS
<1>1. blocks \subseteq StoredItem \X {rules[r] : r \in {s \in Rule : Present(s)}}
  BY DEF RuleTypes, BlocksTyped, Founded
<1>2. RulesTypeOK
  BY <1>1, Zenon DEF RuleTypes, RulesTyped, JobTyped, ScansTyped, ScanTyped, BlocksTyped,
     AsksTyped, AskTyped, ActsTyped, RulesTypeOK, Versions
<1>3. /\ view.type \in Type \cup {NoFilter} /\ view.domain \in Domain \cup {NoFilter}
      /\ view.sort \in [field : Field \cup {"none"}, down : BOOLEAN]
  <2> DEFINE types == Type \cup {NoFilter}
             domains == Domain \cup {NoFilter}
             sorts == [field : Field \cup {"none"}, down : BOOLEAN]
  <2>1. view \in [type : types, domain : domains, sort : sorts]
    BY Zenon DEF RuleTypes, FormsTyped, View
  <2> HIDE DEF types, domains, sorts
  <2>2. view.type \in types /\ view.domain \in domains /\ view.sort \in sorts
    BY <2>1
  <2> QED
    BY <2>2 DEF types, domains, sorts
<1> QED
  BY <1>2, <1>3, Zenon DEF RuleTypes, FormsTyped, Bulk, RulesPageTypeOK

(* RulesPageTypeOK, for any items, versions and file: among others that a  *)
(* block is of a stored item and a rule that is there, although scans work *)
(* on old snapshots, as the foreign keys of item_blocks demand.            *)
THEOREM RuleTypesCorrect == RulesPageSpec => []RulesPageTypeOK
<1>1. RulesInv /\ RuleTypes /\ [RulesPageNext]_ruleVars => RuleTypes'
  BY RuleTypesStep
<1> QED
  BY <1>1, RuleTypesInit, RuleTypesAll, RulesInvHolds, PTL DEF RulesPageSpec
=============================================================================

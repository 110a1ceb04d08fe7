----------------------------- MODULE BlockRules -----------------------------
(***************************************************************************)
(* Which items are blocked: the rules, their addition with the scan in the *)
(* background that follows it (internal/httpapi/handler.go,                *)
(* store/item_block_rules.go), and the job that checks items against the   *)
(* rules as it saves them (cmd/feed-reader/write_queue.go).  A transaction *)
(* reads a snapshot; SQLite, which is external, lets it write only if      *)
(* nothing was committed since (SQLITE_BUSY_SNAPSHOT is not retried,       *)
(* store/retry.go).  RulesPage sends the requests.                         *)
(***************************************************************************)
EXTENDS Integers, FiniteSets, FiniteSetsExt

CONSTANTS FeedItem,
          Version,    \* what publishers make of an item, from 1 on
          Mentions,   \* <<item, version>> with the keyword in it
          Hosted,     \* items whose URL has the domain that is blocked
          Authored,   \* items whose URL names the user, given a URL rule
          MaxRuleActs \* bound on what users and publishers do

ASSUME RuleAssumption == 0 \notin Version /\ MaxRuleActs \in Nat

VARIABLES items,      \* the stored version of each item, 0 for none
          rules,      \* item_block_rules: their ids
          blocks,     \* item_blocks: items and ids of rules
          urlRules,   \* url_parsing_rules: their types, of one domain
          ids,        \* rule ids given away
          job,        \* SaveItemsJob
          scans,      \* the runs of populateItemBlocksForRules
          asked,      \* requests under way, by the mutation that sent them
          ruleActs,
          lost,       \* history: rules whose scan was cut short
          drifted     \* history: the URL rules have changed

ruleDb == <<items, rules, blocks, urlRules, ids>>
story == <<lost, drifted>>

Type == {"user", "domain", "user_domain", "keyword"}
\* A rule's value is one and the same; its domain may be that value.
Rule == [type : Type, domain : {"", "value", "other"}]
UrlType == {"subdomain", "path"}
RuleId == 1 .. MaxRuleActs
Source == {"add", "bulk", "delete", "urlAdd", "urlDelete"}
NoJob == [phase |-> "idle", item |-> 0, version |-> 0, rules |-> {}, urls |-> {}, stale |-> FALSE]
Unasked == [phase |-> "idle", inputs |-> {}, id |-> 0, url |-> {}]
StoredItem == {i \in FeedItem : items[i] # 0}
Present(r) == rules[r] # 0

RulesTypeOK ==
  /\ items \in [FeedItem -> {0} \cup Version]
  /\ rules \in [Rule -> {0} \cup RuleId] /\ ids \in 0 .. MaxRuleActs
  /\ blocks \subseteq StoredItem \X {rules[r] : r \in {s \in Rule : Present(s)}}
  /\ urlRules \subseteq UrlType
  /\ job.phase \in {"idle", "fetched", "read"} /\ job.stale \in BOOLEAN
  /\ \A s \in scans : /\ s.phase \in {"urls", "items", "rules"} /\ s.urls \subseteq UrlType
                      /\ s.rules \subseteq Rule \X RuleId /\ s.items \in [FeedItem -> {0} \cup Version]
  /\ \A m \in Source : asked[m].phase \in {"idle", "sent", "done", "refused"}
  /\ ruleActs \in 0 .. MaxRuleActs /\ lost \subseteq Rule /\ drifted \in BOOLEAN

RulesInit ==
  /\ items = [i \in FeedItem |-> 0] /\ rules = [r \in Rule |-> 0] /\ blocks = {}
  /\ urlRules \in {{}, {"path"}} /\ ids = 0
  /\ job = NoJob /\ scans = {} /\ asked = [m \in Source |-> Unasked] /\ ruleActs = 0
  /\ lost = {} /\ drifted = FALSE

RuleRoom == ruleActs < MaxRuleActs
RuleAct == RuleRoom /\ ruleActs' = ruleActs + 1

-----------------------------------------------------------------------------
(* What is blocked.                                                        *)

\* ExtractUserInfo: by the first rule that fits.
Extracted(i, urls) == i \in Authored /\ urls # {}

\* ShouldBlockItem.
ShouldBlock(i, version, r, urls) ==
  CASE r.type = "keyword" -> <<i, version>> \in Mentions
    [] r.type = "domain" -> i \in Hosted
    [] r.type = "user" -> Extracted(i, urls)
    [] r.type = "user_domain" -> Extracted(i, urls) /\ r.domain = "other"

\* A commit of anybody else leaves the job's snapshot behind.
Commits == job' = [job EXCEPT !.stale = @ \/ job.phase = "read"]

-----------------------------------------------------------------------------
(* SaveItemsJob.                                                           *)

\* A fetch has found an item, or a new version of it.
Fetch(i, version) ==
  /\ job.phase = "idle" /\ version # items[i] /\ RuleAct
  /\ job' = [NoJob EXCEPT !.phase = "fetched", !.item = i, !.version = version]
  /\ UNCHANGED <<ruleDb, scans, asked, story>>

\* ListItemBlockRules, ListURLParsingRules: the snapshot begins.
JobReads ==
  /\ job.phase = "fetched"
  /\ job' = [job EXCEPT !.phase = "read", !.urls = urlRules,
                        !.rules = {r \in Rule : Present(r)}]
  /\ UNCHANGED <<ruleDb, scans, asked, ruleActs, story>>

\* Mutated JobSaves: the rules were read before the transaction.
JobSavesStale ==
  /\ job.phase = "read"
  /\ items' = [items EXCEPT ![job.item] = job.version]
  /\ blocks' = blocks \cup
       {<<job.item, rules[r]>> : r \in {s \in job.rules :
          Present(s) /\ ShouldBlock(job.item, job.version, s, job.urls)}}
  /\ job' = NoJob
  /\ UNCHANGED <<rules, urlRules, ids, scans, asked, ruleActs, story>>

\* The item and its blocks; the first write takes the lock.
JobSaves ==
  /\ job.phase = "read" /\ ~job.stale
  /\ items' = [items EXCEPT ![job.item] = job.version]
  /\ blocks' = blocks \cup
       {<<job.item, rules[r]>> : r \in {s \in job.rules :
          ShouldBlock(job.item, job.version, s, job.urls)}}
  /\ job' = NoJob
  /\ UNCHANGED <<rules, urlRules, ids, scans, asked, ruleActs, story>>

\* The snapshot is stale, or the job fails otherwise; the batch is dropped.
JobFails ==
  /\ job.phase # "idle" /\ job' = NoJob
  /\ UNCHANGED <<ruleDb, scans, asked, ruleActs, story>>

-----------------------------------------------------------------------------
(* Requests.                                                               *)

RuleAnswer(m, phase) == asked' = [asked EXCEPT ![m].phase = phase]

\* addItemBlockRules.  A domain rule without a domain is about its value.
Valid(input) ==
  input.value /\ input.type \in Type /\ (input.type = "user_domain" => input.domain # "")

Normalised(input) ==
  [type |-> input.type,
   domain |-> IF input.domain = "" /\ input.type = "domain" THEN "value" ELSE input.domain]

Numbered(new) == CHOOSE f \in [new -> ids + 1 .. ids + Cardinality(new)] :
                   \A r, s \in new : f[r] = f[s] => r = s

\* CreateItemBlockRules: rules that are there keep their ids; and a scan for
\* all of them begins.
AddRules(m) ==
  LET wanted == {Normalised(input) : input \in asked[m].inputs}
      new == {r \in wanted : ~Present(r)}
  IN /\ m \in {"add", "bulk"} /\ asked[m].phase = "sent"
     /\ \A input \in asked[m].inputs : Valid(input)
     /\ ids + Cardinality(new) <= MaxRuleActs
     /\ rules' = [r \in Rule |-> IF r \in new THEN Numbered(new)[r] ELSE rules[r]]
     /\ ids' = ids + Cardinality(new)
     /\ scans' = scans \cup {[phase |-> "urls", rules |-> {<<r, rules'[r]>> : r \in wanted},
                              urls |-> {}, items |-> [i \in FeedItem |-> 0]]}
     /\ IF new = {} THEN UNCHANGED job ELSE Commits
     /\ RuleAnswer(m, "done")
     /\ UNCHANGED <<items, blocks, urlRules, ruleActs, story>>

\* DeleteItemBlockRule, with the blocks of the rule.
DeleteRule ==
  LET id == asked["delete"].id
  IN /\ asked["delete"].phase = "sent"
     /\ rules' = [r \in Rule |-> IF rules[r] = id THEN 0 ELSE rules[r]]
     /\ blocks' = {b \in blocks : b[2] # id}
     /\ lost' = {r \in lost : rules'[r] # 0}
     /\ Commits /\ RuleAnswer("delete", "done")
     /\ UNCHANGED <<items, urlRules, ids, scans, ruleActs, drifted>>

\* addURLParsingRule: one of a type for a domain.
AddUrlRule ==
  LET new == asked["urlAdd"].url
  IN /\ asked["urlAdd"].phase = "sent" /\ new # {} /\ new \cap urlRules = {}
     /\ urlRules' = urlRules \cup new /\ drifted' = TRUE
     /\ Commits /\ RuleAnswer("urlAdd", "done")
     /\ UNCHANGED <<items, rules, blocks, ids, scans, ruleActs, lost>>

DeleteUrlRule ==
  /\ asked["urlDelete"].phase = "sent"
  /\ urlRules' = urlRules \ asked["urlDelete"].url /\ drifted' = TRUE
  /\ Commits /\ RuleAnswer("urlDelete", "done")
  /\ UNCHANGED <<items, rules, blocks, ids, scans, ruleActs, lost>>

Refuse(m) ==
  /\ asked[m].phase = "sent" /\ RuleAnswer(m, "refused")
  /\ UNCHANGED <<ruleDb, job, scans, ruleActs, story>>

-----------------------------------------------------------------------------
(* populateItemBlocksForRules.                                             *)

Becomes(s, t) == scans' = (scans \ {s}) \cup t

ScanUrlRules(s) ==
  /\ s.phase = "urls"
  /\ Becomes(s, {[s EXCEPT !.phase = "items", !.urls = urlRules]})
  /\ UNCHANGED <<ruleDb, job, asked, ruleActs, story>>

\* ListItemsForBlocking.
ScanItems(s) ==
  /\ s.phase = "items"
  /\ Becomes(s, {[s EXCEPT !.phase = "rules", !.items = items]})
  /\ UNCHANGED <<ruleDb, job, asked, ruleActs, story>>

\* PopulateItemBlocksForRule: a transaction per rule, which fails if the rule
\* is gone.
ScanRule(s) ==
  /\ s.phase = "rules"
  /\ \E rule \in s.rules :
       LET r == rule[1]
           hit == {i \in FeedItem : s.items[i] # 0 /\ ShouldBlock(i, s.items[i], r, s.urls)}
           new == IF rules[r] = rule[2] THEN {<<i, rule[2]>> : i \in hit} ELSE {}
       IN /\ blocks' = blocks \cup new
          /\ IF new \subseteq blocks THEN UNCHANGED job ELSE Commits
          /\ Becomes(s, IF s.rules = {rule} THEN {} ELSE {[s EXCEPT !.rules = @ \ {rule}]})
  /\ UNCHANGED <<items, rules, urlRules, ids, asked, ruleActs, story>>

\* It ends early: an error, five minutes, or the end of the process, after
\* which nobody takes it up again.
ScanLost(s) ==
  /\ RuleAct
  /\ Becomes(s, {})
  /\ lost' = lost \cup {rule[1] : rule \in {t \in s.rules : rules[t[1]] = t[2]}}
  /\ UNCHANGED <<ruleDb, job, asked, drifted>>

RulesStep ==
  \/ \E i \in FeedItem, version \in Version : Fetch(i, version)
  \/ JobReads \/ JobSaves \/ JobFails
  \/ \E m \in Source : AddRules(m) \/ Refuse(m)
  \/ DeleteRule \/ AddUrlRule \/ DeleteUrlRule
  \/ \E s \in scans : ScanUrlRules(s) \/ ScanItems(s) \/ ScanRule(s) \/ ScanLost(s)
=============================================================================

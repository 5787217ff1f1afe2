------------------------------ MODULE Catalog ------------------------------
(***************************************************************************)
(* What the staff console edits: flags, configuration, plans with their    *)
(* features and prices, countries, experiments, translations, CMS, legal   *)
(* documents, templates, abuse rules, API keys, webhooks, and the rollback *)
(* of a configuration version (api/src/admin/{handlers,                    *)
(* handlers_enterprise}.rs over db/src/{config,plans,enterprise}.rs).      *)
(*                                                                         *)
(* A table is a set of rows.  As in the code there are two layers: a       *)
(* statement of db is an operator that returns rows, a handler is an       *)
(* action that asks for its permission and runs one.  A refusal changes    *)
(* nothing and has no action.  Campaigns are in module Push.               *)
(*                                                                         *)
(* History, read by no action: restores, unmarked.                         *)
(***************************************************************************)
EXTENDS Naturals, FiniteSets

CONSTANTS
  Callers,       \* members of staff at the console, one call each at a time
  Granted,       \* the permissions of each
  Keys,          \* flag keys, plan codes, countries, locales, features, ...
  Names, KeyOf,  \* names of experiments; to lower case, blanks to _
  Values,        \* what the other columns hold
  Ids,           \* ids that an INSERT may generate
  MaxCalls,      \* bound: calls that write
  MaxFaults,     \* bound: rollbacks cut short
  Nothing

Keyed == {"feature_flags", "app_config", "experiments", "translations", "cms_content",
          "notification_templates", "plans", "plan_features", "plan_prices", "country_config"}
ById == {"legal_doc_versions", "abuse_rules", "api_keys", "webhook_subscriptions", "config_versions"}
Tables == Keyed \cup ById

VARIABLES
  store,     \* the rows of each table
  answer,    \* the rows of the last answer
  pc, rq,    \* where each caller's rollback stands, and the version it read
  calls,     \* writing calls made so far
  restores,  \* how often the value of a version has been written back
  unmarked,  \* rollbacks of a version cut short before it was marked
  faults

vars == <<store, answer, pc, rq, calls, restores, unmarked, faults>>

Row(k, v) == [key |-> k, val |-> v]
Switch(k, v, on) == [key |-> k, val |-> v, on |-> on]
Secret(i, v) == [key |-> i, val |-> v, on |-> TRUE, secret |-> TRUE]
Version(i, t, k, v, spent) == [key |-> i, table |-> t, row |-> k, val |-> v, spent |-> spent]

TypeOK ==
  /\ \A t \in Keyed : \A r, q \in store[t] : r.key = q.key => r = q
  /\ \A t \in ById : {r.key : r \in store[t]} \subseteq Ids
  /\ \A t \in {"plan_features", "plan_prices"} : \A r \in store[t] :
       \E p \in store["plans"] : p.key = r.key[1]
  /\ pc \in [Callers -> {"idle", "restore", "mark"}]
  /\ \A c \in Callers : pc[c] = "idle" <=> rq[c] = Nothing
  /\ restores \in [Ids -> Nat] /\ unmarked \in [Ids -> Nat]

Init ==
  /\ store = [t \in Tables |-> {}]
  /\ answer = {}
  /\ pc = [c \in Callers |-> "idle"] /\ rq = [c \in Callers |-> Nothing]
  /\ calls = 0 /\ faults = 0
  /\ restores = [i \in Ids |-> 0]
  /\ unmarked = [i \in Ids |-> 0]

-----------------------------------------------------------------------------
(* SQL: what a statement makes of a table, and what it reads.              *)
Has(t, k) == \E r \in store[t] : r.key = k
Fresh(t, i) == ~Has(t, i)
Delete(t, k) == {r \in store[t] : r.key # k}
Upsert(t, row) == Delete(t, row.key) \cup {row}  \* ON CONFLICT (key) DO UPDATE
Insert(t, row) == store[t] \cup {row}
Set(t, k, col, v) == {IF r.key = k THEN [r EXCEPT ![col] = v] ELSE r : r \in store[t]}
Part(t, first) == {r \in store[t] : r.key[1] = first}
Public(t) == {[r EXCEPT !.secret = FALSE] : r \in store[t]}

(* A call that writes: the table's new rows and the answer.                *)
Write(c, permission, t, rows, reply) ==
  /\ permission \in Granted[c] /\ pc[c] = "idle" /\ calls < MaxCalls
  /\ store' = [store EXCEPT ![t] = rows]
  /\ answer' = reply
  /\ calls' = calls + 1
  /\ UNCHANGED <<pc, rq, restores, unmarked, faults>>

Read(c, permission, rows) ==
  /\ permission \in Granted[c] /\ pc[c] = "idle"
  /\ answer' = rows
  /\ UNCHANGED <<store, pc, rq, calls, restores, unmarked, faults>>

-----------------------------------------------------------------------------
(* db::config *)
list_feature_flags == store["feature_flags"]
upsert_feature_flag(k, v, on) == Upsert("feature_flags", Switch(k, v, on))
delete_feature_flag(k) == Delete("feature_flags", k)
list_app_config == store["app_config"]
upsert_app_config(k, v) == Upsert("app_config", Row(k, v))

ListFlags(c) == Read(c, "flags.read", list_feature_flags)
UpsertFlag(c, k, v, on) ==
  Write(c, "flags.write", "feature_flags", upsert_feature_flag(k, v, on), {Switch(k, v, on)})
DeleteFlag(c, k) == Write(c, "flags.write", "feature_flags", delete_feature_flag(k), {})
ListConfig(c) == Read(c, "config.read", list_app_config)
UpsertConfig(c, k, v) ==
  Write(c, "config.write", "app_config", upsert_app_config(k, v), {Row(k, v)})

-----------------------------------------------------------------------------
(* db::plans; features and prices refer to a plan, or the statement fails. *)
list_plans == store["plans"]
PlanRow(k, v, on) == [key |-> k, val |-> v, on |-> on, description |-> v]
upsert_plan(k, v, on) == Upsert("plans", PlanRow(k, v, on))
list_plan_features(p) == Part("plan_features", p)
upsert_plan_feature(p, k, v, on) == Upsert("plan_features", Switch(<<p, k>>, v, on))
delete_plan_feature(p, k) == Delete("plan_features", <<p, k>>)
upsert_plan_price(p, k, v) == Upsert("plan_prices", Row(<<p, k>>, v))
list_country_configs == store["country_config"]
get_country_config(k) == {r \in store["country_config"] : r.key = k}
upsert_country_config(k, v, on) == Upsert("country_config", Switch(k, v, on))

ListPlans(c) == Read(c, "plans.read", list_plans)
UpsertPlan(c, k, v, on) == Write(c, "plans.write", "plans", upsert_plan(k, v, on), {Row(k, v)})
ListPlanFeatures(c, p) == Read(c, "plans.read", list_plan_features(p))
UpsertPlanFeature(c, p, k, v, on) ==
  /\ Has("plans", p)
  /\ Write(c, "plans.write", "plan_features", upsert_plan_feature(p, k, v, on), {Row(<<p, k>>, v)})
DeletePlanFeature(c, p, k) ==
  Write(c, "plans.write", "plan_features", delete_plan_feature(p, k), {})
UpsertPlanPrice(c, p, k, v) ==
  /\ Has("plans", p)
  /\ Write(c, "plans.write", "plan_prices", upsert_plan_price(p, k, v), {Row(<<p, k>>, v)})
ListCountryConfigs(c) == Read(c, "countries.read", list_country_configs)
GetCountryConfig(c, k) == get_country_config(k) # {} /\ Read(c, "countries.read", get_country_config(k))
UpsertCountryConfig(c, k, v, on) ==
  Write(c, "countries.write", "country_config", upsert_country_config(k, v, on), {Row(k, v)})

-----------------------------------------------------------------------------
(* db::enterprise, tables with a key of their own.  An experiment's key is *)
(* made from its name: two names may meet in one row.                      *)
list_experiments == store["experiments"]
upsert_experiment(n, v, on) == Upsert("experiments", Switch(KeyOf[n], v, on))
delete_experiment(k) == Delete("experiments", k)
list_translations(locale) == Part("translations", locale)
upsert_translation(locale, k, v) == Upsert("translations", Row(<<locale, k>>, v))
CmsRow(k, v, locale) == [key |-> k, val |-> v, locale |-> locale]
list_cms_content(locale) == {r \in store["cms_content"] : r.locale = locale}
upsert_cms_content(k, v, locale) == Upsert("cms_content", CmsRow(k, v, locale))
delete_cms_content(k) == Delete("cms_content", k)
list_notification_templates == store["notification_templates"]
upsert_notification_template(k, v, on) == Upsert("notification_templates", Switch(k, v, on))

ListExperiments(c) == Read(c, "experiments.read", list_experiments)
UpsertExperiment(c, n, v, on) ==
  Write(c, "experiments.write", "experiments", upsert_experiment(n, v, on), {Row(KeyOf[n], v)})
DeleteExperiment(c, k) == Write(c, "experiments.write", "experiments", delete_experiment(k), {})
ListTranslations(c, locale) == Read(c, "cms.read", list_translations(locale))
UpsertTranslation(c, locale, k, v) ==
  Write(c, "cms.write", "translations", upsert_translation(locale, k, v), {Row(<<locale, k>>, v)})
ListCmsContent(c, locale) == Read(c, "cms.read", list_cms_content(locale))
UpsertCmsContent(c, k, v, locale) ==
  Write(c, "cms.write", "cms_content", upsert_cms_content(k, v, locale), {Row(k, v)})
DeleteCmsContent(c, k) == Write(c, "cms.write", "cms_content", delete_cms_content(k), {})
ListTemplates(c) == Read(c, "templates.read", list_notification_templates)
UpsertTemplate(c, k, v, on) ==
  Write(c, "templates.write", "notification_templates", upsert_notification_template(k, v, on), {Row(k, v)})

-----------------------------------------------------------------------------
(* Tables whose key the database generates.  upsert_abuse_rule conflicts   *)
(* on that id, which its INSERT never gives: it always adds a rule.        *)
list_legal_docs == store["legal_doc_versions"]
create_legal_doc(i, v) == Insert("legal_doc_versions", Row(i, v))
list_abuse_rules == store["abuse_rules"]
upsert_abuse_rule(i, v, on) == Insert("abuse_rules", Switch(i, v, on))
delete_abuse_rule(i) == Delete("abuse_rules", i)
list_api_keys == Public("api_keys")
create_api_key(i, v) == Insert("api_keys", Secret(i, v))
revoke_api_key(i) == Set("api_keys", i, "on", FALSE)
list_webhooks == Public("webhook_subscriptions")
create_webhook(i, v) == Insert("webhook_subscriptions", Secret(i, v))
delete_webhook(i) == Delete("webhook_subscriptions", i)

ListLegalDocs(c) == Read(c, "cms.read", list_legal_docs)
CreateLegalDoc(c, i, v) ==
  /\ Fresh("legal_doc_versions", i)
  /\ Write(c, "cms.write", "legal_doc_versions", create_legal_doc(i, v), {Row(i, v)})
ListAbuseRules(c) == Read(c, "abuse.read", list_abuse_rules)
UpsertAbuseRule(c, i, v, on) ==
  /\ Fresh("abuse_rules", i)
  /\ Write(c, "abuse.write", "abuse_rules", upsert_abuse_rule(i, v, on), {})
DeleteAbuseRule(c, i) == Write(c, "abuse.write", "abuse_rules", delete_abuse_rule(i), {})
ListApiKeys(c) == Read(c, "apikeys.read", list_api_keys)
CreateApiKey(c, i, v) ==
  /\ Fresh("api_keys", i)
  /\ Write(c, "apikeys.write", "api_keys", create_api_key(i, v), {Secret(i, v)})
RevokeApiKey(c, i) ==
  Has("api_keys", i) /\ Write(c, "apikeys.write", "api_keys", revoke_api_key(i), {})
ListWebhooks(c) == Read(c, "webhooks.read", list_webhooks)
CreateWebhook(c, i, v) ==
  /\ Fresh("webhook_subscriptions", i)
  /\ Write(c, "webhooks.write", "webhook_subscriptions", create_webhook(i, v), {Row(i, v)})
DeleteWebhook(c, i) ==
  /\ Has("webhook_subscriptions", i)
  /\ Write(c, "webhooks.write", "webhook_subscriptions", delete_webhook(i), {})

-----------------------------------------------------------------------------
(* Rollback: read the version, write its value back, mark it, in three     *)
(* statements.  No handler calls create_config_version: a version is a row *)
(* that somebody has put into the table by hand.                           *)
Restorable == {"feature_flags", "app_config", "plans"}
create_config_version(c, i, t, k, v) ==
  /\ Fresh("config_versions", i) /\ Has(t, k)
  /\ Write(c, "config.write", "config_versions",
           Insert("config_versions", Version(i, t, k, v, FALSE)), {})
list_config_versions == store["config_versions"]
ListConfigVersions(c) == Read(c, "config.read", list_config_versions)

RollbackStart(c, version) ==
  /\ "config.write" \in Granted[c] /\ pc[c] = "idle" /\ version \in store["config_versions"]
  /\ pc' = [pc EXCEPT ![c] = "restore"] /\ rq' = [rq EXCEPT ![c] = version]
  /\ UNCHANGED <<store, answer, calls, restores, unmarked, faults>>

RollbackReadSpent(c, version) == RollbackStart(c, version)  \* faulty: rolled_back not looked at
RollbackRead(c, version) == ~version.spent /\ RollbackStart(c, version)

(* A plan gets its description back; of a flag, value and nothing else.    *)
RollbackRestore(c) ==
  LET v == rq[c]
      column == IF v.table = "plans" THEN "description" ELSE "val"
  IN
  /\ pc[c] = "restore"
  /\ IF Has(v.table, v.row)
     THEN /\ store' = [store EXCEPT ![v.table] = Set(v.table, v.row, column, v.val)]
          /\ restores' = [restores EXCEPT ![v.key] = @ + 1]
          /\ pc' = [pc EXCEPT ![c] = "mark"] /\ UNCHANGED rq
     ELSE /\ pc' = [pc EXCEPT ![c] = "idle"] /\ rq' = [rq EXCEPT ![c] = Nothing]
          /\ UNCHANGED <<store, restores>>
  /\ UNCHANGED <<answer, calls, unmarked, faults>>

RollbackMark(c) ==
  /\ pc[c] = "mark"
  /\ store' = [store EXCEPT !["config_versions"] = Set("config_versions", rq[c].key, "spent", TRUE)]
  /\ pc' = [pc EXCEPT ![c] = "idle"] /\ rq' = [rq EXCEPT ![c] = Nothing]
  /\ UNCHANGED <<answer, calls, restores, unmarked, faults>>

RollbackFails(c) ==
  /\ pc[c] # "idle" /\ faults < MaxFaults /\ faults' = faults + 1
  /\ unmarked' = [unmarked EXCEPT ![rq[c].key] = IF pc[c] = "mark" THEN @ + 1 ELSE @]
  /\ pc' = [pc EXCEPT ![c] = "idle"] /\ rq' = [rq EXCEPT ![c] = Nothing]
  /\ UNCHANGED <<store, answer, calls, restores>>

Settings(c) ==
  \/ ListFlags(c) \/ ListConfig(c) \/ ListPlans(c) \/ ListCountryConfigs(c)
  \/ \E k \in Keys :
       \/ DeleteFlag(c, k) \/ ListPlanFeatures(c, k) \/ GetCountryConfig(c, k)
       \/ \E p \in Keys : DeletePlanFeature(c, p, k)
       \/ \E v \in Values : UpsertConfig(c, k, v) \/ \E p \in Keys : UpsertPlanPrice(c, p, k, v)
       \/ \E v \in Values, on \in BOOLEAN :
            \/ UpsertFlag(c, k, v, on) \/ UpsertPlan(c, k, v, on) \/ UpsertCountryConfig(c, k, v, on)
            \/ \E p \in Keys : UpsertPlanFeature(c, p, k, v, on)

Content(c) ==
  \/ ListExperiments(c) \/ ListTemplates(c)
  \/ \E k \in Keys : \/ DeleteExperiment(c, k) \/ DeleteCmsContent(c, k)
                     \/ ListTranslations(c, k) \/ ListCmsContent(c, k)
  \/ \E v \in Values :
       \/ \E n \in Names, on \in BOOLEAN : UpsertExperiment(c, n, v, on)
       \/ \E k, l \in Keys : UpsertTranslation(c, l, k, v) \/ UpsertCmsContent(c, k, v, l)
       \/ \E k \in Keys, on \in BOOLEAN : UpsertTemplate(c, k, v, on)

Integrations(c) ==
  \/ ListLegalDocs(c) \/ ListAbuseRules(c) \/ ListApiKeys(c) \/ ListWebhooks(c)
  \/ \E i \in Ids : DeleteAbuseRule(c, i) \/ RevokeApiKey(c, i) \/ DeleteWebhook(c, i)
  \/ \E i \in Ids, v \in Values :
       \/ CreateLegalDoc(c, i, v) \/ CreateApiKey(c, i, v) \/ CreateWebhook(c, i, v)
       \/ \E on \in BOOLEAN : UpsertAbuseRule(c, i, v, on)

History(c) ==
  \/ ListConfigVersions(c)
  \/ \E i \in Ids, t \in Restorable, k \in Keys, v \in Values : create_config_version(c, i, t, k, v)
  \/ \E version \in store["config_versions"] : RollbackRead(c, version)
  \/ RollbackRestore(c) \/ RollbackMark(c) \/ RollbackFails(c)

Next == \E c \in Callers : Settings(c) \/ Content(c) \/ Integrations(c) \/ History(c)

Spec == Init /\ [][Next]_vars

-----------------------------------------------------------------------------
(* A version marked as rolled back has been written back, and it is        *)
(* written back once for each request that read it before the mark: the    *)
(* callers there are, and those whose mark was lost.                       *)
RollbackIsHonest ==
  \A v \in store["config_versions"] :
    /\ v.spent => restores[v.key] > 0
    /\ restores[v.key] <= Cardinality(Callers) + unmarked[v.key]
=============================================================================

------------------------------ MODULE Playbooks ------------------------------
(***************************************************************************)
(* SOAR playbooks: how they are stored, cached, edited, matched against    *)
(* threat events and run.                                                  *)
(*                                                                         *)
(*   adapter/http/response/soar.rs, playbook_service.rs   edit requests    *)
(*   adapter/persistence/soar.rs                          the tables       *)
(*   engine/playbook.rs  reload_cache                     the caches       *)
(*   runtime_start.rs                                     the consumer     *)
(*   matcher.rs, frequency.rs, condition.rs               matching         *)
(*   engine/execution.rs, actions.rs                      running          *)
(*                                                                         *)
(* What a block_ip or adjust_rate_limit action does is in SoarBlocks and   *)
(* RateLimits; here an action is a step that takes time.  Every database   *)
(* call is one step: the pool holds one connection.                        *)
(***************************************************************************)
EXTENDS Integers, Sequences, FiniteSets, SequencesExt, FiniteSetsExt

CONSTANTS Handlers,        \* the permits of the consumer's semaphore
          Editors,         \* concurrent edit requests
          Inputs,          \* playbooks a request may carry, valid or not
          DefaultPlaybook, \* the row seed_default_playbooks leaves
          Events,          \* threat events
          Canonical,       \* attack names canonical_from_str accepts
          AddrBits,        \* width of an address; one more bit is its family
          Capacity,        \* EVENT_CHANNEL_CAPACITY
          DefaultExpiry,   \* soar.default_cooldown_expiry_secs
          FallbackCooldown, DefaultWindow, DefaultMinConf,
          MaxDeque, MaxKeys, Retention,   \* FrequencyTracker limits
          Budgets,         \* bounds: <<edits, threat events, db errors>>
          MaxTime          \* bound on the clock

VARIABLES now,
          rows, nextId, whiteRows,        \* tables
          playbooks, adminWhitelist,      \* PlaybookMatcher caches
          cooldowns, freq,                \* PlaybookMatcher, FrequencyTracker
          editor, queue, consumer, handler,
          budget,
          \* history
          overlap,     \* two requests have been under way at once
          dbErr,       \* a database call has failed
          lastRun,     \* when each (playbook, source) last finished running
          seen,        \* every event counted for a (playbook, source)
          forgotten    \* keys the tracker has evicted

dbVars     == <<rows, nextId, whiteRows>>
cacheVars  == <<playbooks, adminWhitelist>>
trackVars  == <<cooldowns, freq, lastRun, seen, forgotten>>
eventVars  == <<queue, consumer, handler>>
vars == <<now, dbVars, cacheVars, trackVars, eventVars, editor, budget,
          overlap, dbErr>>

NoIp == -1
None == -1
NoEvent == [ip |-> NoIp, attack |-> "none", confidence |-> 0, fused |-> 0,
            country |-> None, repeat |-> FALSE, sources |-> {}]
FallbackId == -1

ASSUME LimitsAssumption ==
    /\ Capacity \in Nat \ {0} /\ MaxDeque \in Nat \ {0}
    /\ MaxKeys \in Nat \ {0} /\ Retention \in Nat \ {0}

-----------------------------------------------------------------------------
(* Conditions.  A condition's value is the set of things its text parses   *)
(* to: {} when it does not parse, a singleton for a number, a source or a  *)
(* network (the prefix length is then value2), any set for country codes.  *)

ConditionTypes == {"threshold", "source_country", "ip_pattern",
                   "repeat_offender", "frequency", "multi_source_min",
                   "single_source_high", "fused_confidence_above"}

ValidOperators(type) ==
    CASE type \in {"threshold", "fused_confidence_above"} -> {">=", "<="}
      [] type \in {"source_country", "ip_pattern"} -> {"in", "not_in"}
      [] type = "repeat_offender" -> {"=="}
      [] OTHER -> {">="}

Num(c) == CHOOSE v \in c.value : TRUE
Parses(c) == c.value # {}
Above(c, x) == IF c.op = "<=" THEN x <= Num(c) ELSE x >= Num(c)
In(c, matches) == IF c.op = "not_in" THEN ~matches ELSE matches
ValueOr(v, default) == IF v = None THEN default ELSE v

Family(a) == a \div 2 ^ AddrBits

IpMatchesCidr(network, prefix, ip) ==
    /\ Family(network) = Family(ip)
    /\ network \div 2 ^ (AddrBits - prefix) = ip \div 2 ^ (AddrBits - prefix)

ValidIpPattern(c) == Parses(c) /\ c.value2 \in 0 .. AddrBits

EvaluateEventFields(c, e) ==
    /\ c.op \in ValidOperators(c.type)
    /\ CASE c.type = "threshold" -> Parses(c) /\ Above(c, e.confidence)
         [] c.type = "fused_confidence_above" -> Parses(c) /\ Above(c, e.fused)
         [] c.type = "source_country" -> In(c, e.country \in c.value)
         [] c.type = "ip_pattern" ->
              /\ e.ip # NoIp
              /\ Parses(c)
              /\ Family(Num(c)) = Family(e.ip) => ValidIpPattern(c)
              /\ In(c, IpMatchesCidr(Num(c), c.value2, e.ip))
         [] c.type = "repeat_offender" -> e.repeat = (c.value = {1})
         [] c.type = "multi_source_min" ->
              Parses(c) /\ Cardinality(e.sources) >= Num(c)
         [] c.type = "single_source_high" ->
              /\ Parses(c)
              /\ e.sources = c.value
              /\ e.confidence >= ValueOr(c.value2, DefaultMinConf)
         [] c.type = "frequency" -> FALSE

-----------------------------------------------------------------------------
(* Validation of a request, and what the cache makes of a stored row.      *)

ActionTypes == {"block_ip", "adjust_rate_limit", "send_telegram",
                "send_email", "webhook", "log"}

ValidConditionValue(c) ==
    CASE c.type \in {"frequency", "multi_source_min"} ->
           /\ Parses(c) /\ Num(c) > 0
           /\ c.value2 = None \/ c.value2 > 0
      [] c.type = "ip_pattern" -> ValidIpPattern(c)
      [] c.type = "repeat_offender" -> c.value \in {{0}, {1}}
      [] OTHER -> Parses(c)

\* faulty variant: the operator is not checked
ValidateConditionAnyOperator(c) == c.type \in ConditionTypes /\ ValidConditionValue(c)

ValidateConditionInput(c) ==
    /\ c.type \in ConditionTypes
    /\ c.op \in ValidOperators(c.type)
    /\ ValidConditionValue(c)

\* The parameters of an action, checked here too, are left out: reading them
\* back (parse_action_params) cannot fail
ValidateAction(a) == a \in ActionTypes

MapRequestToInput(in) ==
    /\ in.cooldown >= 0
    /\ \A i \in DOMAIN in.actions : ValidateAction(in.actions[i])
    /\ \A c \in in.conditions : ValidateConditionInput(c)

\* playbook_conditions has UNIQUE(playbook_id, condition_type)
UniqueConditions(in) ==
    \A c, d \in in.conditions : c.type = d.type => c = d

\* The rows reload_cache can turn into playbooks without returning an error
ParsesRow(row) ==
    /\ \A i \in DOMAIN row.actions : row.actions[i] \in ActionTypes
    /\ \A c \in row.conditions : /\ c.type \in ConditionTypes
                                 /\ c.op \in ValidOperators(c.type)

\* Rows with a trigger that is no canonical attack type are left out
ToPlaybooks(table) ==
    LET ids == {id \in DOMAIN table : table[id].trigger \in Canonical}
    IN  [i \in 1 .. Cardinality(ids) |->
            LET id == SetToSortSeq(ids, <)[i] IN <<id, table[id]>>]

-----------------------------------------------------------------------------
IdleEditor == [pc |-> "idle", views |-> << >>, white |-> {}]
IdleHandler == [pc |-> "idle", ev |-> NoEvent, todo |-> << >>,
                matching |-> << >>, act |-> 0]

\* seed_default_playbooks, then the reload_cache of system start
Init ==
    /\ now = 0
    /\ rows = (1 :> DefaultPlaybook) /\ nextId = 2 /\ whiteRows = {}
    /\ playbooks = ToPlaybooks(rows) /\ adminWhitelist = {}
    /\ cooldowns = << >> /\ freq = << >>
    /\ editor = [e \in Editors |-> IdleEditor]
    /\ queue = << >> /\ consumer = NoEvent
    /\ handler = [h \in Handlers |-> IdleHandler]
    /\ budget \in Budgets
    /\ overlap = FALSE /\ dbErr = FALSE
    /\ lastRun = << >> /\ seen = << >> /\ forgotten = {}

-----------------------------------------------------------------------------
(* Edit requests: one write, then reload_cache when the write changed a    *)
(* row.  A request whose write fails, changes nothing or is refused by     *)
(* validation ends there.                                                  *)

SpendEdit == /\ budget[1] > 0
             /\ budget' = [budget EXCEPT ![1] = @ - 1]

Written(e) ==
    /\ editor[e].pc = "idle"
    /\ SpendEdit
    /\ editor' = [editor EXCEPT ![e].pc = "actions"]
    /\ overlap' = (overlap \/ \E o \in Editors \ {e} : editor[o].pc # "idle")
    /\ UNCHANGED <<now, cacheVars, trackVars, eventVars, dbErr>>

CreatePlaybook(e, in) ==
    /\ MapRequestToInput(in) /\ UniqueConditions(in)
    /\ rows' = (nextId :> ([enabled |-> TRUE] @@ in)) @@ rows
    /\ nextId' = nextId + 1
    /\ Written(e) /\ UNCHANGED whiteRows

UpdatePlaybook(e, id, in) ==
    /\ MapRequestToInput(in) /\ UniqueConditions(in)
    /\ rows' = [rows EXCEPT ![id] = [enabled |-> @.enabled] @@ in]
    /\ Written(e) /\ UNCHANGED <<nextId, whiteRows>>

TogglePlaybook(e, id, enabled) ==
    /\ rows' = [rows EXCEPT ![id].enabled = enabled]
    /\ Written(e) /\ UNCHANGED <<nextId, whiteRows>>

DeletePlaybook(e, id) ==
    /\ rows' = [i \in DOMAIN rows \ {id} |-> rows[i]]
    /\ Written(e) /\ UNCHANGED <<nextId, whiteRows>>

AddWhitelist(e, ip) ==
    /\ whiteRows' = whiteRows \cup {ip}
    /\ Written(e) /\ UNCHANGED <<rows, nextId>>

RemoveWhitelist(e, ip) ==
    /\ whiteRows' = whiteRows \ {ip}
    /\ Written(e) /\ UNCHANGED <<rows, nextId>>

\* reload_cache.  list_playbooks takes two queries, one for the playbooks
\* with their actions and one for all conditions, and another request may
\* write between them.
Reloading(e, from) ==
    /\ editor[e].pc = from
    /\ UNCHANGED <<now, dbVars, trackVars, eventVars, budget, overlap, dbErr>>

ListPlaybooksWithActions(e) ==
    /\ Reloading(e, "actions")
    /\ editor' = [editor EXCEPT ![e].pc = "conditions", ![e].views = rows]
    /\ UNCHANGED cacheVars

\* A playbook deleted since the first query has no conditions any more
ConditionsOf(id) == IF id \in DOMAIN rows THEN rows[id].conditions ELSE {}

JoinConditions(views) ==
    [id \in DOMAIN views |-> [views[id] EXCEPT !.conditions = ConditionsOf(id)]]

ListAllConditions(e) ==
    LET views == JoinConditions(editor[e].views)
    IN  /\ Reloading(e, "conditions")
        /\ editor' = [editor EXCEPT ![e] =
              IF \A id \in DOMAIN views : ParsesRow(views[id])
              THEN [@ EXCEPT !.pc = "store", !.views = views]
              ELSE IdleEditor]
        /\ UNCHANGED cacheVars

StorePlaybooks(e) ==
    /\ Reloading(e, "store")
    /\ playbooks' = ToPlaybooks(editor[e].views)
    /\ editor' = [editor EXCEPT ![e] = [IdleEditor EXCEPT !.pc = "whitelist"]]
    /\ UNCHANGED adminWhitelist

ListAdminWhitelist(e) ==
    /\ Reloading(e, "whitelist")
    /\ editor' = [editor EXCEPT ![e].pc = "storeWhite", ![e].white = whiteRows]
    /\ UNCHANGED cacheVars

StoreWhitelist(e) ==
    /\ Reloading(e, "storeWhite")
    /\ adminWhitelist' = editor[e].white
    /\ editor' = [editor EXCEPT ![e] = IdleEditor]
    /\ UNCHANGED playbooks

\* Any of the three queries may fail: the request returns the error
ReloadErr(e) ==
    /\ editor[e].pc \in {"actions", "conditions", "whitelist"}
    /\ budget[3] > 0
    /\ budget' = [budget EXCEPT ![3] = @ - 1]
    /\ dbErr' = TRUE
    /\ editor' = [editor EXCEPT ![e] = IdleEditor]
    /\ UNCHANGED <<now, dbVars, cacheVars, trackVars, eventVars, overlap>>

ReloadStep(e) ==
    \/ ListPlaybooksWithActions(e) \/ ListAllConditions(e) \/ StorePlaybooks(e)
    \/ ListAdminWhitelist(e) \/ StoreWhitelist(e)

-----------------------------------------------------------------------------
(* The threat channel, a broadcast channel that drops its oldest event     *)
(* when full, and its consumer, which takes an event and then waits for a  *)
(* permit before it spawns a handler.                                      *)

still == <<dbVars, cacheVars, editor, overlap, dbErr>>

Publish(ev) ==
    /\ budget[2] > 0
    /\ budget' = [budget EXCEPT ![2] = @ - 1]
    /\ queue' = Append(IF Len(queue) = Capacity THEN Tail(queue) ELSE queue, ev)
    /\ UNCHANGED <<now, still, trackVars, consumer, handler>>

Recv ==
    /\ consumer = NoEvent /\ queue # << >>
    /\ consumer' = Head(queue) /\ queue' = Tail(queue)
    /\ UNCHANGED <<now, still, trackVars, handler, budget>>

Spawn(h) ==
    /\ consumer # NoEvent /\ handler[h].pc = "idle"
    /\ handler' = [handler EXCEPT ![h] =
                      [IdleHandler EXCEPT !.pc = "load", !.ev = consumer]]
    /\ consumer' = NoEvent
    /\ UNCHANGED <<now, still, trackVars, queue, budget>>

-----------------------------------------------------------------------------
(* handle_threat_event: find_matching_playbooks over one snapshot of the   *)
(* cache, then execute_playbook for each match, or execute_fallback.       *)

handlerStill == <<now, still, queue, consumer, budget>>

\* Where a handler goes once it has examined a playbook or finished one
Advance(s) ==
    IF s.todo # << >> THEN [s EXCEPT !.pc = "match"]
    ELSE IF s.matching # << >> THEN [s EXCEPT !.pc = "check"]
    ELSE IF s.ev.ip # NoIp THEN [s EXCEPT !.pc = "fallback"]
    ELSE IdleHandler

Finished(s) ==
    IF Len(s.matching) <= 1 THEN IdleHandler
    ELSE [s EXCEPT !.pc = "check", !.matching = Tail(@), !.act = 0]

Load(h) ==
    /\ handler[h].pc = "load"
    /\ handler' = [handler EXCEPT ![h] = Advance([@ EXCEPT !.todo = playbooks])]
    /\ UNCHANGED <<handlerStill, trackVars>>

MatchesTrigger(pb, ev) ==
    pb.enabled /\ ev.attack \in Canonical /\ pb.trigger = ev.attack

Frequency(pb) == {c \in pb.conditions : c.type = "frequency"}

MatchesFields(pb, ev) ==
    /\ MatchesTrigger(pb, ev)
    /\ \A c \in pb.conditions \ Frequency(pb) : EvaluateEventFields(c, ev)
    /\ \A c \in Frequency(pb) : Parses(c)

Window(c) == ValueOr(c.value2, DefaultWindow)

\* faulty variants: no cap on the deque, no pruning
RecordEventUncapped(events, window) ==
    Append(SelectSeq(events, LAMBDA t : now - t <= window), now)
RecordEventUnpruned(events, window) ==
    LET all == Append(events, now)
    IN  SubSeq(all, Max({1, Len(all) - MaxDeque + 1}), Len(all))

\* The entry of a key after record_and_count
RecordEvent(events, window) ==
    LET fresh == SelectSeq(events, LAMBDA t : now - t <= window)
        all == Append(fresh, now)
    IN  SubSeq(all, Max({1, Len(all) - MaxDeque + 1}), Len(all))

At(f, key) == IF key \in DOMAIN f THEN f[key] ELSE << >>

EventsOf(key) == IF key \in DOMAIN freq THEN freq[key].events ELSE << >>

\* evaluate_conditions of the next playbook of the snapshot
Evaluate(h) ==
    LET s   == handler[h]
        id  == Head(s.todo)[1]
        pb  == Head(s.todo)[2]
        key == <<id, s.ev.ip>>
        rest  == [s EXCEPT !.todo = Tail(@)]
        match == [rest EXCEPT !.matching = Append(@, Head(s.todo))]
        Counts(c) ==
            LET events == RecordEvent(EventsOf(key), Window(c))
                next   == IF Len(events) >= Num(c) THEN match ELSE rest
            IN  /\ freq' = (key :> [events |-> events, last |-> now]) @@ freq
                /\ seen' = (key :> Append(At(seen, key), now)) @@ seen
                /\ handler' = [handler EXCEPT ![h] =
                      IF Cardinality(DOMAIN freq') > MaxKeys
                      THEN [next EXCEPT !.pc = "evict", !.act = id]
                      ELSE Advance(next)]
    IN  /\ s.pc = "match"
        /\ \/ /\ ~MatchesFields(pb, s.ev)
              /\ handler' = [handler EXCEPT ![h] = Advance(rest)]
              /\ UNCHANGED <<freq, seen>>
           \/ /\ MatchesFields(pb, s.ev) /\ Frequency(pb) = {}
              /\ handler' = [handler EXCEPT ![h] = Advance(match)]
              /\ UNCHANGED <<freq, seen>>
           \/ /\ MatchesFields(pb, s.ev)
              /\ \E c \in Frequency(pb) : Counts(c)
        /\ UNCHANGED <<handlerStill, cooldowns, lastRun, forgotten>>

\* The sets of n entries, none of them in keep, that evict_oldest_inner may
\* remove: no entry that stays was seen before one that goes
Oldest(n, keep) ==
    LET others == DOMAIN freq \ keep
    IN  {out \in SUBSET others :
            /\ Cardinality(out) = Min({n, Cardinality(others)})
            /\ \A k \in out, o \in others \ out : freq[k].last <= freq[o].last}

Without(f, out) == [k \in DOMAIN f \ out |-> f[k]]


Excess(f) == Max({0, Cardinality(DOMAIN f) - MaxKeys})

EvictOldestExcluding(h) ==
    /\ handler[h].pc = "evict"
    /\ \E out \in Oldest(Excess(freq), {<<handler[h].act, handler[h].ev.ip>>}) :
          /\ freq' = Without(freq, out)
          /\ forgotten' = forgotten \cup out
    /\ handler' = [handler EXCEPT ![h] = Advance([@ EXCEPT !.act = 0])]
    /\ UNCHANGED <<handlerStill, cooldowns, lastRun, seen>>

CooldownActive(key, secs) ==
    key \in DOMAIN cooldowns /\ now - cooldowns[key] < Max({0, secs})

\* execute_playbook up to its first await: cooldown, then whitelist
CheckPlaybook(h) ==
    LET s == handler[h]
        p == Head(s.matching)
    IN  /\ s.pc = "check"
        /\ handler' = [handler EXCEPT ![h] =
              IF \/ CooldownActive(<<p[1], s.ev.ip>>, p[2].cooldown)
                 \/ s.ev.ip \in adminWhitelist
              THEN Finished(s)
              ELSE [s EXCEPT !.pc = "act", !.act = 1]]
        /\ UNCHANGED <<handlerStill, trackVars>>

\* One action; whether it succeeds or not the next one follows
ExecuteAction(h) ==
    /\ handler[h].pc = "act"
    /\ handler[h].act <= Len(Head(handler[h].matching)[2].actions)
    /\ handler' = [handler EXCEPT ![h].act = @ + 1]
    /\ UNCHANGED <<handlerStill, trackVars>>

RecordCooldown(key) ==
    /\ cooldowns' = (key :> now) @@ cooldowns
    /\ lastRun' = (key :> now) @@ lastRun
    /\ UNCHANGED <<freq, seen, forgotten>>

\* After the last action: record_cooldown, whatever the actions returned
FinishActions(h) ==
    LET p == Head(handler[h].matching)
    IN  /\ handler[h].pc = "act"
        /\ handler[h].act > Len(p[2].actions)
        /\ RecordCooldown(<<p[1], handler[h].ev.ip>>)
        /\ handler' = [handler EXCEPT ![h].pc = "save"]
        /\ UNCHANGED handlerStill

\* faulty variant: the error path keeps the permit
SaveExecutionKeepsPermit(h) ==
    /\ handler[h].pc = "save"
    /\ \E pc \in {"lost", "idle"} :
          handler' = [handler EXCEPT ![h] = [IdleHandler EXCEPT !.pc = pc]]
    /\ UNCHANGED <<handlerStill, trackVars>>

\* insert_soar_execution; an error only ends this playbook's run
SaveExecution(h) ==
    /\ handler[h].pc = "save"
    /\ handler' = [handler EXCEPT ![h] = Finished(@)]
    /\ UNCHANGED <<handlerStill, trackVars>>

\* execute_fallback up to its first await: whitelist, then cooldown
CheckFallback(h) ==
    LET s == handler[h]
    IN  /\ s.pc = "fallback"
        /\ handler' = [handler EXCEPT ![h] =
              IF \/ s.ev.ip \in adminWhitelist
                 \/ CooldownActive(<<FallbackId, s.ev.ip>>, FallbackCooldown)
              THEN IdleHandler
              ELSE [s EXCEPT !.pc = "block"]]
        /\ UNCHANGED <<handlerStill, trackVars>>

\* The fallback's block: only a block that worked starts the cooldown
FallbackBlocked(h) ==
    /\ handler[h].pc = "block"
    /\ RecordCooldown(<<FallbackId, handler[h].ev.ip>>)
    /\ handler' = [handler EXCEPT ![h].pc = "save"]
    /\ UNCHANGED handlerStill

FallbackBlockErr(h) ==
    /\ handler[h].pc = "block"
    /\ handler' = [handler EXCEPT ![h].pc = "save"]
    /\ UNCHANGED <<handlerStill, trackVars>>

HandlerStep(h) ==
    \/ Load(h) \/ Evaluate(h) \/ EvictOldestExcluding(h)
    \/ CheckPlaybook(h) \/ ExecuteAction(h) \/ FinishActions(h)
    \/ CheckFallback(h) \/ FallbackBlocked(h) \/ FallbackBlockErr(h)
    \/ SaveExecution(h)

-----------------------------------------------------------------------------
(* The part of the scheduler's sweep that tidies cooldowns and deques.     *)

\* faulty variant: the cooldowns of the playbooks are not looked at
CooldownExpiryDefault == DefaultExpiry

CooldownExpiry ==
    LET longest == IF playbooks = << >> THEN DefaultExpiry
                   ELSE Max({Max({0, playbooks[i][2].cooldown}) :
                                i \in DOMAIN playbooks})
    IN  Max({2 * longest, DefaultExpiry})

Stale(key) ==
    LET events == freq[key].events
    IN  events = << >> \/ now - Last(events) > Retention

CleanupExpiredCooldowns ==
    LET kept == {k \in DOMAIN freq : ~Stale(k)}
        over == Max({0, Cardinality(kept) - MaxKeys})
    IN  /\ cooldowns' = Without(cooldowns, {k \in DOMAIN cooldowns :
                                       now - cooldowns[k] >= CooldownExpiry})
        /\ \E out \in Oldest(over, DOMAIN freq \ kept) :
              /\ freq' = Without(freq, out \cup (DOMAIN freq \ kept))
              /\ forgotten' = forgotten \cup out
        /\ <<cooldowns', freq'>> # <<cooldowns, freq>>
        /\ UNCHANGED <<now, still, eventVars, budget, lastRun, seen>>

Tick ==
    /\ now < MaxTime
    /\ now' = now + 1
    /\ UNCHANGED <<still, trackVars, eventVars, budget>>

Edit(e) ==
    \/ \E in \in Inputs : CreatePlaybook(e, in)
    \/ \E id \in DOMAIN rows :
          \/ \E in \in Inputs : UpdatePlaybook(e, id, in)
          \/ \E b \in BOOLEAN : TogglePlaybook(e, id, b)
          \/ DeletePlaybook(e, id)
    \/ \E ev \in Events : AddWhitelist(e, ev.ip) \/ RemoveWhitelist(e, ev.ip)

Next ==
    \/ \E e \in Editors : Edit(e) \/ ReloadStep(e) \/ ReloadErr(e)
    \/ \E ev \in Events : Publish(ev)
    \/ Recv
    \/ \E h \in Handlers : Spawn(h) \/ HandlerStep(h)
    \/ CleanupExpiredCooldowns
    \/ Tick

Spec == Init /\ [][Next]_vars

\* The tokio tasks of the consumer and of the handlers are scheduled
FairSpec ==
    /\ Spec
    /\ WF_vars(Recv)
    /\ WF_vars(\E h \in Handlers : Spawn(h))
    /\ \A h \in Handlers : WF_vars(HandlerStep(h))

-----------------------------------------------------------------------------
Ids == {FallbackId} \cup 1 .. nextId
Keys == Ids \X ({ev.ip : ev \in Events} \cup {NoIp})

\* Types; ids come from the tables, a tracked deque is never empty and never
\* longer than max_events_per_key (record_and_count), the channel never over-full.
TypeOK ==
    /\ now \in 0 .. MaxTime
    /\ DOMAIN rows \subseteq 1 .. nextId - 1
    /\ whiteRows \subseteq {ev.ip : ev \in Events}
    /\ adminWhitelist \subseteq {ev.ip : ev \in Events}
    /\ \A i \in DOMAIN playbooks : playbooks[i][1] \in 1 .. nextId - 1
    /\ DOMAIN cooldowns \subseteq Keys /\ DOMAIN freq \subseteq Keys
    /\ \A k \in DOMAIN freq : Len(freq[k].events) \in 1 .. MaxDeque
    /\ Len(queue) <= Capacity

Quiet == \A e \in Editors : editor[e].pc = "idle"

\* Once no edit is under way the matcher's caches hold what the tables hold,
\* as long as requests did not overlap and no query failed (playbook_service.rs:
\* each write is followed by reload_cache).  A row that validation accepts and
\* reload_cache cannot parse would freeze both caches.
CacheFollowsDb ==
    Quiet /\ ~overlap /\ ~dbErr =>
        playbooks = ToPlaybooks(rows) /\ adminWhitelist = whiteRows


Since(key) == now - lastRun[key]

Starts(h) == handler[h].pc = "check" /\ handler'[h].pc = "act"

\* A playbook never starts for a source within its cooldown of the last run
\* that finished for that source, and neither does the fallback: the cleanup
\* never drops a cooldown that still counts (matcher.rs:143).  The playbook is
\* the version the cache still holds; the fallback's cooldown has to be no
\* longer than the default expiry, which the configuration does not check.
CooldownHolds ==
    [][\A h \in Handlers :
         LET s == handler[h]
             p == Head(s.matching)
         IN  /\ Starts(h) /\ <<p[1], s.ev.ip>> \in DOMAIN lastRun
                  /\ (\E i \in DOMAIN playbooks : playbooks[i] = p)
                  => Since(<<p[1], s.ev.ip>>) >= p[2].cooldown
             /\ s.pc = "fallback" /\ handler'[h].pc = "block"
                  /\ <<FallbackId, s.ev.ip>> \in DOMAIN lastRun
                  /\ FallbackCooldown <= DefaultExpiry
                  => Since(<<FallbackId, s.ev.ip>>) >= FallbackCooldown]_vars

\* All frequency conditions in play use one window
OneWindow(w) ==
    \A in \in Inputs \cup {DefaultPlaybook} :
        \A c \in Frequency(in) : Window(c) = w

InWindow(key, w) ==
    Cardinality({j \in DOMAIN seen'[key] : now - seen'[key][j] <= w})

\* A frequency condition is met exactly when the source had the required
\* number of matching events within the window, this one included, whatever
\* pruning, capping and cleanup did to the deque in between, unless the key was
\* evicted or the deque cannot hold that many (matcher.rs:88, frequency.rs:43).
FrequencyExact ==
    [][\A h \in Handlers :
         LET s   == handler[h]
             p   == Head(s.todo)
             key == <<p[1], s.ev.ip>>
         IN  s.pc = "match" /\ MatchesFields(p[2], s.ev) =>
               \A c \in Frequency(p[2]) :
                  handler'[h] # s /\ key \notin forgotten /\ Num(c) <= MaxDeque
                     /\ OneWindow(Window(c)) /\ Window(c) <= Retention
                  => ((handler'[h].matching # s.matching)
                         <=> InWindow(key, Window(c)) >= Num(c))]_vars

\* Every event the consumer takes gets a permit, and every permit comes back,
\* however many errors its handler meets (runtime_start.rs:119).
EventsAreHandled ==
    /\ (consumer # NoEvent) ~> (consumer = NoEvent)
    /\ \A h \in Handlers : (handler[h].pc # "idle") ~> (handler[h].pc = "idle")

=============================================================================

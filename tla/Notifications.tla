--------------------------- MODULE Notifications ----------------------------
(***************************************************************************)
(* The notification center: services/notification_service.py over           *)
(* services/alert_service.py, for one portfolio.  A session is one request, *)
(* or one turn of the Telegram worker, on its own PostgreSQL connection in  *)
(* READ COMMITTED; an action is what happens between two SQL statements.    *)
(*                                                                          *)
(*   Begin, ReadRules, ReadPrices   the three reads of evaluate_alerts      *)
(*   SaveLatch                      its commit, ahead of any notification   *)
(*   Lookup, Write                  check then insert or resolve, one       *)
(*                                  notification at a time                  *)
(*   ReadRecommendations, ReadActive  the same for recommendations          *)
(*   Commit, List                   the notifications become visible        *)
(*                                                                          *)
(* POST /alerts/evaluate is the first half on its own, up to SaveLatch.     *)
(* read_at takes part in nothing and is left out.                           *)
(***************************************************************************)
EXTENDS AlertEngine

CONSTANTS
    Sessions,         \* requests and worker runs that may overlap
    Rules,            \* alert rules of the portfolio
    Recommendations,  \* notification-worthy recommendations, in priority order
    FlagSets,         \* combinations of alerts a rule may have on
    SharesSeen,       \* levels the buckets' shares go through
    PricesSeen,       \* levels the prices go through
    Edits,            \* what users may do, of EditKinds
    Modes,            \* requests that users send, of {"sync", "evaluate"}
    MaxChanges,       \* bound: changes of the world and of rules, in all
    MaxCrashes        \* bound: sessions that die

\* To a rule, and to the portfolio's Telegram switch (module AlertNotify).
RuleEdits == {"listed", "enabled", "flags", "telegram", "delete"}
EditKinds == RuleEdits \cup {"switch"}

ASSUME NotificationsAssumption ==
    /\ IsFiniteSet(Rules)
    /\ Recommendations \in Seq(ToSet(Recommendations))
    /\ IsInjective(Recommendations)   \* _recommendation_id: one per bucket, named for it
    /\ FlagSets \subseteq SUBSET Flags /\ FlagSets # {}
    /\ SharesSeen \subseteq Shares /\ SharesSeen # {}
    /\ PricesSeen \subseteq Prices /\ PricesSeen # {}
    /\ Edits \subseteq EditKinds
    /\ Modes \subseteq {"sync", "evaluate"}
    /\ MaxChanges \in Nat /\ MaxCrashes \in Nat

VARIABLES
    (* The world: what the financial engines would answer. *)
    shareOf,          \* level of the share of the bucket of the rule's asset
    priceOf,          \* level of the price of the rule's asset
    recommended,      \* the current notification-worthy recommendations
    (* The committed database. *)
    rules,            \* alert_rules
    notifications,    \* notifications, in the order they were committed
    (* The sessions. *)
    run,              \* run[s]: what session s is doing and what it has read
    (* Bounds. *)
    changes, crashes

worldVars        == <<shareOf, priceOf, recommended>>
dbVars           == <<rules, notifications>>
boundVars        == <<changes, crashes>>
notificationVars == <<worldVars, dbVars, run, boundVars>>

\* source_id: a check of a rule, or a recommendation.
AlertSource(r, kind) == [kind |-> kind, of |-> r]
RecommendationSource(x) == [kind |-> "RECOMMENDATION", of |-> x]

AlertSources == {AlertSource(r, kind) : r \in Rules, kind \in Kinds}
RecommendationSources == {RecommendationSource(x) : x \in ToSet(Recommendations)}
Sources == AlertSources \cup RecommendationSources

\* A thing to do about a source, and a write that has not been flushed yet.
Task == [source : Sources, open : BOOLEAN]
None == [what |-> "none"]
Insert(source) == [what |-> "insert", source |-> source]
Resolve(i) == [what |-> "resolve", row |-> i]

\* Where the writes of a sync come from.
Phases == {"alerts", "recommendations", "stale"}

Blank == [step |-> "idle", mode |-> "sync", shares |-> <<>>, known |-> <<>>, latched |-> <<>>,
          todo |-> <<>>, write |-> None, inserted |-> <<>>, resolved |-> {}, current |-> {}]

\* A rule that has never triggered.
NewRule(flags) == [exists |-> TRUE, listed |-> TRUE, enabled |-> TRUE, flags |-> flags,
                   telegram |-> TRUE, latch |-> FALSE]

NotificationsInit ==
    /\ shareOf \in [Rules -> SharesSeen]
    /\ priceOf \in [Rules -> PricesSeen]
    /\ recommended \in SUBSET ToSet(Recommendations)
    /\ rules \in [Rules -> {NewRule(f) : f \in FlagSets}]
    /\ notifications = <<>>
    /\ run = [s \in Sessions |-> Blank]
    /\ changes = 0
    /\ crashes = 0

-----------------------------------------------------------------------------
(* The world and the users. *)

Change == changes < MaxChanges /\ changes' = changes + 1 /\ UNCHANGED crashes

\* A trade, a target or a limit moves a bucket's share.
ShareMoves(r) ==
    /\ Change
    /\ \E level \in SharesSeen \ {shareOf[r]} : shareOf' = [shareOf EXCEPT ![r] = level]
    /\ UNCHANGED <<priceOf, recommended, dbVars, run>>

\* A price is recorded, or the user moves a threshold across it.  An asset
\* that has a price goes on having one.
PriceMoves(r) ==
    /\ Change
    /\ \E level \in PricesSeen \ {priceOf[r], "none"} : priceOf' = [priceOf EXCEPT ![r] = level]
    /\ UNCHANGED <<shareOf, recommended, dbVars, run>>

AdviceMoves ==
    /\ Change
    /\ \E x \in ToSet(Recommendations) :
          recommended' = IF x \in recommended THEN recommended \ {x} ELSE recommended \cup {x}
    /\ UNCHANGED <<shareOf, priceOf, dbVars, run>>

\* PATCH and DELETE of a rule; listed is the switch of its watchlist entry or
\* of its asset.
EditedRule(rule, edit) ==
    CASE edit = "delete" -> {[rule EXCEPT !.exists = FALSE]}
      [] edit = "flags"  -> {[rule EXCEPT !.flags = f] : f \in FlagSets}
      [] OTHER           -> {[rule EXCEPT ![edit] = ~@]}

EditRule(r) ==
    /\ Change
    /\ rules[r].exists
    /\ \E edit \in Edits \cap RuleEdits : \E edited \in EditedRule(rules[r], edit) :
          rules' = [rules EXCEPT ![r] = edited]
    /\ UNCHANGED <<worldVars, notifications, run>>

-----------------------------------------------------------------------------
(* evaluate_alerts. *)

\* The session goes on with its record changed to r.
Becomes(s, r) == run' = [run EXCEPT ![s] = r]

\* What the session has written is rolled back.
Fail(s) == Becomes(s, Blank) /\ UNCHANGED <<worldVars, dbVars, changes>>

\* The request's first reads: the portfolio, and its allocation.
Begin(s, mode) ==
    /\ run[s].step = "idle"
    /\ Becomes(s, [Blank EXCEPT !.step = "rules", !.mode = mode, !.shares = shareOf])
    /\ UNCHANGED <<worldVars, dbVars, boundVars>>

ReadRules(s) ==
    /\ run[s].step = "rules"
    /\ Becomes(s, [run[s] EXCEPT !.step = "prices", !.known = rules])
    /\ UNCHANGED <<worldVars, dbVars, boundVars>>

\* What those elements of seq that pass Test become, in their order.
Those(seq, Test(_), As(_)) ==
    FlattenSeq([i \in DOMAIN seq |-> IF Test(seq[i]) THEN <<As(seq[i])>> ELSE <<>>])

\* The entries of rule r that stand for a change, in the order of its checks.
Entries(s, r) ==
    LET rule  == run[s].known[r]
        share == run[s].shares[r]
        price == priceOf[r]
    IN  Those(Checks(rule),
              LAMBDA kind : Fires(kind, rule, share, price) \/ Clears(kind, rule, share, price),
              LAMBDA kind : [source |-> AlertSource(r, kind),
                             open   |-> Fires(kind, rule, share, price)])

\* The last read, and with it the verdicts.  The rules come in any order.
ReadPrices(s) ==
    LET evaluated == {r \in Rules : Evaluated(run[s].known[r])}
    IN  /\ run[s].step = "prices"
        /\ \E order \in SetToSeqs(evaluated) :
              Becomes(s, [run[s] EXCEPT
                  !.step = "latch",
                  !.latched = [r \in evaluated |->
                                  LatchAfter(run[s].known[r], run[s].shares[r], priceOf[r])],
                  !.todo = FlattenSeq([i \in DOMAIN order |-> Entries(s, order[i])])])
        /\ UNCHANGED <<worldVars, dbVars, boundVars>>

\* The latches to be written: those that differ from what was read.
Relatched(s) == {r \in DOMAIN run[s].latched : run[s].latched[r] # run[s].known[r].latch}

\* One commit for all of them.  An update that finds no row is an error.
SaveLatch(s) ==
    /\ run[s].step = "latch"
    /\ \/ /\ \E r \in Relatched(s) : ~rules[r].exists
          /\ Fail(s)
          /\ UNCHANGED crashes
       \/ /\ \A r \in Relatched(s) : rules[r].exists
          /\ rules' = [r \in Rules |-> IF r \in Relatched(s)
                                       THEN [rules[r] EXCEPT !.latch = run[s].latched[r]]
                                       ELSE rules[r]]
          /\ Becomes(s, IF run[s].mode = "evaluate" THEN Blank
                        ELSE [run[s] EXCEPT !.step = "alerts", !.latched = <<>>])
          /\ UNCHANGED <<worldVars, notifications, boundVars>>

-----------------------------------------------------------------------------
(* Notifications, one at a time. *)

Active(source) ==
    {i \in DOMAIN notifications : notifications[i].active /\ notifications[i].source = source}

Busy(s)    == run[s].step \in Phases
Settled(s) == Busy(s) /\ run[s].write = None /\ run[s].todo = <<>>

\* A notification is looked up, and inserted if there is none, or resolved if
\* there is one.  The session sees no other session's uncommitted rows.
Lookup(s) ==
    LET task   == Head(run[s].todo)
        active == Active(task.source)
    IN  /\ Busy(s) /\ run[s].write = None /\ run[s].todo # <<>>
        /\ \E write \in IF task.open
                        THEN {IF active = {} THEN Insert(task.source) ELSE None}
                        ELSE IF active = {} THEN {None} ELSE {Resolve(i) : i \in active} :
              Becomes(s, [run[s] EXCEPT !.todo = Tail(@), !.write = write])
        /\ UNCHANGED <<worldVars, dbVars, boundVars>>

\* The sessions PostgreSQL makes s wait for: those with an uncommitted entry for
\* the source in the unique index, those about to take one out, those that have
\* the row locked.
Blockers(s) ==
    LET write == run[s].write IN
    {t \in Sessions \ {s} :
        \/ /\ write.what = "insert"
           /\ \/ write.source \in ToSet(run[t].inserted)
              \/ run[t].resolved \cap Active(write.source) # {}
        \/ write.what = "resolve" /\ write.row \in run[t].resolved}

\* uq_notifications_portfolio_source_id_active
Refused_NoIndex(s) == FALSE
Refused(s) == run[s].write.what = "insert" /\ Active(run[s].write.source) # {}

\* s with its pending write in the database.
Written(s) ==
    LET write == run[s].write IN
    [run[s] EXCEPT !.write = None,
                   !.inserted = IF write.what = "insert" THEN Append(@, write.source) ELSE @,
                   !.resolved = IF write.what = "resolve" THEN @ \cup {write.row} ELSE @]

\* What becomes of s when its write gets through.  Nothing catches the
\* IntegrityError: all of the sync's notifications are lost.
Flushed_TriesAgain(s) == IF Refused(s) THEN run[s] ELSE Written(s)
Flushed(s) == IF Refused(s) THEN Blank ELSE Written(s)

\* The pending write goes to the database with the next statement.
Write(s) ==
    /\ run[s].write # None
    /\ Blockers(s) = {}
    /\ Becomes(s, Flushed(s))
    /\ UNCHANGED <<worldVars, dbVars, boundVars>>

\* A circle of sessions that wait for each other: PostgreSQL kills one of them
\* and wakes up the one that waited for it.
Circle(C) == C # {} /\ \A s \in C : Blockers(s) \cap C # {}

DeadlockVictim(s) ==
    /\ \E C \in SUBSET Sessions :
          /\ s \in C /\ Circle(C)
          /\ \A D \in SUBSET C : Circle(D) => D = C
          /\ \E t \in C : /\ s \in Blockers(t)
                          /\ run' = [run EXCEPT ![s] = Blank,
                                                ![t] = IF Blockers(t) = {s} THEN Flushed(t) ELSE @]
    /\ UNCHANGED <<worldVars, dbVars, boundVars>>

ReadRecommendations(s) ==
    /\ Settled(s) /\ run[s].step = "alerts"
    /\ Becomes(s, [run[s] EXCEPT
           !.step = "recommendations",
           !.current = recommended,
           !.todo = Those(Recommendations, LAMBDA x : x \in recommended,
                          LAMBDA x : [source |-> RecommendationSource(x), open |-> TRUE])])
    /\ UNCHANGED <<worldVars, dbVars, boundVars>>

\* Recommendations that have a notification and are no longer current.
Stale_None(s) == {}
Stale(s) == {source \in RecommendationSources : source.of \notin run[s].current /\ Active(source) # {}}

\* They are resolved in the order in which Python enumerates the set.
ReadActive(s) ==
    /\ Settled(s) /\ run[s].step = "recommendations"
    /\ \E order \in SetToSeqs(Stale(s)) :
          Becomes(s, [run[s] EXCEPT
              !.step = "stale",
              !.todo = [i \in DOMAIN order |-> [source |-> order[i], open |-> FALSE]]])
    /\ UNCHANGED <<worldVars, dbVars, boundVars>>

Fresh(source) == [source |-> source, active |-> TRUE, sent |-> FALSE]

Commit(s) ==
    /\ Settled(s) /\ run[s].step = "stale"
    /\ notifications' =
          [i \in DOMAIN notifications |->
              [notifications[i] EXCEPT !.active = @ /\ i \notin run[s].resolved]]
          \o [i \in DOMAIN run[s].inserted |-> Fresh(run[s].inserted[i])]
    /\ Becomes(s, [Blank EXCEPT !.step = "committed", !.mode = run[s].mode, !.known = run[s].known])
    /\ UNCHANGED <<worldVars, rules, boundVars>>

\* The user is shown the list.
List(s) ==
    /\ run[s].step = "committed" /\ run[s].mode = "sync"
    /\ Becomes(s, Blank)
    /\ UNCHANGED <<worldVars, dbVars, boundVars>>

\* The process or its connection dies.
Crash(s) ==
    /\ run[s].step # "idle"
    /\ crashes < MaxCrashes
    /\ crashes' = crashes + 1
    /\ Fail(s)

Step(s) == \/ ReadRules(s) \/ ReadPrices(s) \/ SaveLatch(s)
           \/ Lookup(s) \/ Write(s) \/ DeadlockVictim(s)
           \/ ReadRecommendations(s) \/ ReadActive(s)
           \/ Commit(s) \/ List(s)

WorldNext == AdviceMoves \/ \E r \in Rules : ShareMoves(r) \/ PriceMoves(r) \/ EditRule(r)

NotificationsNext ==
    \/ WorldNext
    \/ \E s \in Sessions : (\E mode \in Modes : Begin(s, mode)) \/ Step(s) \/ Crash(s)

NotificationsSpec == NotificationsInit /\ [][NotificationsNext]_notificationVars

-----------------------------------------------------------------------------
(* Properties. *)

Runs == [step     : {"idle", "rules", "prices", "latch", "committed", "consent", "send", "mark"} \cup Phases,
         mode     : Modes \cup {"sync", "deliver"},
         shares   : {<<>>} \cup [Rules -> Shares],
         known    : {<<>>} \cup [Rules -> Rule],
         latched  : UNION {[S -> BOOLEAN] : S \in SUBSET Rules},
         todo     : Seq(Task),
         write    : {None} \cup {Insert(source) : source \in Sources}
                           \cup {Resolve(i) : i \in DOMAIN notifications},
         inserted : Seq(Sources),
         resolved : SUBSET DOMAIN notifications,
         current  : SUBSET ToSet(Recommendations)]

\* Every variable has its type.
NotificationsTypeOK ==
    /\ shareOf \in [Rules -> Shares]
    /\ priceOf \in [Rules -> Prices]
    /\ recommended \subseteq ToSet(Recommendations)
    /\ rules \in [Rules -> Rule]
    /\ notifications \in Seq([source : Sources, active : BOOLEAN, sent : BOOLEAN])
    /\ run \in [Sessions -> Runs]
    /\ changes \in 0 .. MaxChanges
    /\ crashes \in 0 .. MaxCrashes

\* However many syncs overlap, a source has at most one notification that is
\* not resolved.
OneActivePerSource ==
    \A i, j \in DOMAIN notifications :
        /\ notifications[i].active /\ notifications[j].active
        /\ notifications[i].source = notifications[j].source
        => i = j

\* Every sync ends: none is left waiting for a row or for another sync, not
\* even when two of them resolve the same notifications in opposite orders.
EverySyncEnds == \A s \in Sessions : run[s].step # "idle" ~> run[s].step = "idle"

Quiet == \A s \in Sessions : run[s].step = "idle"

Notified(r) == \E kind \in Kinds : Active(AlertSource(r, kind)) # {}

\* A triggered rule has its notification, and one that is not has none: as long
\* as one sync runs after the other, none dies, nobody evaluates alerts outside
\* of a sync, and at most one of the checks of a rule can ever be met.
LatchIsMirrored ==
    Quiet /\ crashes = 0 => \A r \in Rules : rules[r].latch <=> Notified(r)

\* A newly triggered condition is persisted as a notification: whoever opens
\* the center, with nothing else going on, finds one for every triggered rule.
EdgesAreNotified ==
    \A s \in Sessions :
        /\ run[s].step = "committed"
        /\ \A t \in Sessions \ {s} : run[t].step = "idle"
        => \A r \in Rules : rules[r].latch => Notified(r)
=============================================================================

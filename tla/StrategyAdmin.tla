--------------------------- MODULE StrategyAdmin ----------------------------
(***************************************************************************)
(* services/strategy_admin_service.py: the buckets and allocation rules of  *)
(* one portfolio, edited by overlapping requests.                           *)
(*                                                                          *)
(* A PATCH reads its row, merges the request into what it read, validates   *)
(* the result, and commits; two PATCHes may both have read the old row.  At *)
(* the commit the ORM writes the columns whose value it changed, and the    *)
(* database checks the row they end up in.                                  *)
(***************************************************************************)
EXTENDS StrategyRules

CONSTANTS
    Buckets,    \* bucket ids
    Names,      \* bucket names, numbers in alphabetical order
    Admins,     \* sessions that PATCH a rule
    NewRules,   \* rules a POST may carry
    Requests    \* what a PATCH may carry: a record of the fields to change

VARIABLES
    bucket,     \* the buckets there are: [name, active]
    rule,       \* the rule of each bucket that has one
    patch       \* per admin, the PATCH under way: [bucket, request, seen]

adminVars == <<bucket, rule, patch>>

Fields == Limits \cup {"allow", "priority", "active"}

Rules == [target : 0 .. 100 \cup {Absent}, minimum : 0 .. 100 \cup {Absent},
          maximum : 0 .. 100 \cup {Absent}, allow : BOOLEAN, priority : Int, active : BOOLEAN]

Merged(seen, request) ==
    [f \in Fields |-> IF f \in DOMAIN request THEN request[f] ELSE seen[f]]

\* What the schemas of the create and the update request let through: every
\* field in its range, and a created rule consistent.
ASSUME AdminAssumption ==
    /\ IsFiniteSet(Buckets) /\ Absent \notin Buckets
    /\ Names \subseteq Int
    /\ NewRules \subseteq Rules
    /\ \A new \in NewRules : ~Crossed(new) /\ ~OutOfRange(new)
    /\ \A request \in Requests :
           DOMAIN request \subseteq Fields /\ Merged(NoRule, request) \in Rules

Idle == [bucket |-> Absent, request |-> <<>>, seen |-> NoRule]

NamesTaken_Unindexed == {}
NamesTaken == {bucket[b].name : b \in DOMAIN bucket}

\* The rules the engines are given: active ones of active buckets.
RulesOf(buckets, rules) ==
    [b \in {e \in DOMAIN rules : rules[e].active /\ e \in buckets} |-> rules[b]]
ActiveBuckets == {b \in DOMAIN bucket : bucket[b].active}

Extended(f, b, value) == [e \in DOMAIN f \cup {b} |-> IF e = b THEN value ELSE f[e]]

\* create_bucket; the unique index on the name refuses a second one.
CreateBucket(b, name) ==
    /\ b \notin DOMAIN bucket
    /\ name \notin NamesTaken
    /\ bucket' = Extended(bucket, b, [name |-> name, active |-> TRUE])
    /\ UNCHANGED <<rule, patch>>

\* update_bucket
RenameBucket(b, name) ==
    /\ b \in DOMAIN bucket
    /\ name \notin NamesTaken
    /\ bucket' = [bucket EXCEPT ![b].name = name]
    /\ UNCHANGED <<rule, patch>>

\* activate_bucket, deactivate_bucket
SwitchBucket(b) ==
    /\ b \in DOMAIN bucket
    /\ bucket' = [bucket EXCEPT ![b].active = ~@]
    /\ UNCHANGED <<rule, patch>>

\* create_target; one rule for each bucket.
CreateTarget(b, new) ==
    /\ b \in DOMAIN bucket \ DOMAIN rule
    /\ rule' = Extended(rule, b, new)
    /\ UNCHANGED <<bucket, patch>>

\* update_target up to its validation: the row is read and nothing is locked.
ReadTarget(s, b, request) ==
    /\ patch[s] = Idle
    /\ b \in DOMAIN rule
    /\ ~Crossed(Merged(rule[b], request))
    /\ patch' = [patch EXCEPT ![s] = [bucket |-> b, request |-> request, seen |-> rule[b]]]
    /\ UNCHANGED <<bucket, rule>>

\* The row after the UPDATE: columns whose value the merge changed are
\* written, the others keep what is in the database by now.
Written_WholeRow(p, row) == Merged(p.seen, p.request)
Written(p, row) ==
    [f \in Fields |-> IF Merged(p.seen, p.request)[f] # p.seen[f]
                      THEN Merged(p.seen, p.request)[f] ELSE row[f]]

\* ck_allocation_target_min_le_max and the range checks.
Refused_Never(row) == FALSE
Refused(row) == Crossed(row) \/ OutOfRange(row)

\* The commit of update_target.  A row the database refuses is an error
\* nothing catches, and the session's changes are gone with it.
CommitTarget(s) ==
    LET p   == patch[s]
        row == Written(p, rule[p.bucket])
    IN  /\ p # Idle
        /\ rule' = IF Refused(row) THEN rule ELSE [rule EXCEPT ![p.bucket] = row]
        /\ patch' = [patch EXCEPT ![s] = Idle]
        /\ UNCHANGED bucket

----------------------------------------------------------------------------
(* What the service promises                                                *)

AdminTypeOK ==
    /\ DOMAIN bucket \subseteq Buckets
    /\ \A b \in DOMAIN bucket : bucket[b] \in [name : Names, active : BOOLEAN]
    /\ \A b, e \in DOMAIN bucket : bucket[b].name = bucket[e].name => b = e
    /\ DOMAIN rule \subseteq DOMAIN bucket
    /\ \A b \in DOMAIN rule : rule[b] \in Rules
    /\ \A s \in Admins : patch[s] = Idle \/ /\ patch[s].bucket \in DOMAIN rule
                                            /\ patch[s].request \in Requests
                                            /\ patch[s].seen \in Rules

\* However PATCHes overlap, the stored rules never make validate_strategy
\* blame a single rule: INVALID_MIN_MAX and INVALID_TARGET, which every reader
\* of the strategy handles, are answers no sequence of requests leads to.
RulesStayWellFormed ==
    StrategyStatus(RulesOf(DOMAIN bucket, rule)) \notin {"INVALID_MIN_MAX", "INVALID_TARGET"}

\* A PATCH changes no column its client did not send: of two PATCHes of
\* different columns of a rule that both read the old row neither is lost.
NoLostUpdate ==
    [][\A s \in Admins : patch[s] # Idle /\ patch'[s] = Idle =>
          \A b \in DOMAIN rule : \A f \in Fields :
              rule'[b][f] # rule[b][f] => b = patch[s].bucket /\ f \in DOMAIN patch[s].request]_adminVars
=============================================================================

------------------------------- MODULE Ledger -------------------------------
(***************************************************************************)
(* The transaction write path: POST /transactions, which is                 *)
(* services/transaction_service.create_transaction over PostgreSQL in READ  *)
(* COMMITTED.  One portfolio; each session is one request at a time on one  *)
(* database transaction.  An action is what happens between two SQL         *)
(* statements, so other sessions' commits fall anywhere between them:       *)
(*                                                                          *)
(*   Begin             the transaction opens, config and asset are read     *)
(*   LockHolding       SELECT ... FOR UPDATE on the holding, then the rules *)
(*   Flush             the holding is inserted or updated, the transaction  *)
(*                     row inserted, none of it visible to others           *)
(*   ReadHoldings      } a DEPOSIT or WITHDRAWAL builds its snapshot from   *)
(*   ReadTransactions  } two reads, each of what is committed by then       *)
(*   Commit            everything becomes visible, the locks are let go     *)
(*   Disconnect        the connection is lost, the server rolls back        *)
(*                                                                          *)
(* Every asset is worth one unit of the base currency throughout: what a    *)
(* snapshot shows as a return is then never the market's doing.             *)
(***************************************************************************)
EXTENDS TransactionRules, Sequences

CONSTANTS
    Sessions,    \* request-scoped database sessions
    Assets,      \* the assets of the portfolio
    CashAssets,  \* those of type CASH or SAVINGS
    Retirable,   \* those that may be deactivated and activated again
    Requests,    \* the request bodies users may post: [type, asset, qty]
    Dates,       \* the transaction dates they may declare
    MaxClock,    \* bound: database transactions begun in all
    Free         \* no session

ASSUME LedgerAssumption ==
    /\ IsFiniteSet(Assets)
    /\ CashAssets \subseteq Assets
    /\ Retirable \subseteq Assets
    /\ Requests \subseteq [type : Types, asset : Assets, qty : Nat \ {0}]
    /\ Requests # {}
    /\ Dates \subseteq Nat
    /\ MaxClock \in Nat
    /\ Free \notin Sessions

VARIABLES
    (* The committed database. *)
    rows,        \* assets with a row in holdings
    quantity,    \* holdings.quantity, 0 where there is no row
    history,     \* transactions, in the order they were committed
    snapshots,   \* portfolio_snapshots
    active,      \* assets whose is_active is set
    (* The database server. *)
    clock,       \* last time stamp handed out: now() of a database transaction
    lockOf,      \* lockOf[a]: who holds the row lock on, or an uncommitted insert of, a's holding
    (* The sessions. *)
    pc,          \* the statement the session is about to execute
    req,         \* the request, with its date and created_at
    found,       \* did the locking read find a row?
    result,      \* the quantity to be written
    items,       \* the quantities the snapshot values
    visible,     \* the transactions the snapshot counts
    reply        \* how the session's request ended, "none" until it has

dbVars      == <<rows, quantity, history, snapshots, active>>
sessionVars == <<pc, req, found, result, items, visible, reply>>
ledgerVars  == <<dbVars, clock, lockOf, sessionVars>>

Stamped  == [type : Types, asset : Assets, qty : Nat \ {0}, date : Nat, created : Nat]
Recorded == [type : Types, asset : Assets, qty : Nat \ {0}, date : Nat, created : Nat, after : Nat]
Steps    == {"idle", "lock", "flush", "holdings", "transactions", "commit"}
Replies  == {"none", "created", "rejected", "conflict", "error", "lost"}

\* The request variable of an idle session: no request is stamped 0.
Blank == LET r == CHOOSE r \in Requests : TRUE
         IN  [type |-> r.type, asset |-> r.asset, qty |-> r.qty, date |-> 0, created |-> 0]

NoItems == [a \in {} |-> 0]

LedgerInit ==
    /\ rows = {}
    /\ quantity = [a \in Assets |-> 0]
    /\ history = <<>>
    /\ snapshots = {}
    /\ active = Assets
    /\ clock = 0
    /\ lockOf = [a \in Assets |-> Free]
    /\ pc = [s \in Sessions |-> "idle"]
    /\ req = [s \in Sessions |-> Blank]
    /\ found = [s \in Sessions |-> FALSE]
    /\ result = [s \in Sessions |-> 0]
    /\ items = [s \in Sessions |-> NoItems]
    /\ visible = [s \in Sessions |-> {}]
    /\ reply = [s \in Sessions |-> "none"]

-----------------------------------------------------------------------------
(* Shorthands. *)

Committed == {history[i] : i \in DOMAIN history}

Target(s) == req[s].asset

\* The request as its transactions row, with the quantity it leaves.
Row(s) == [type |-> req[s].type, asset |-> req[s].asset, qty |-> req[s].qty,
           date |-> req[s].date, created |-> req[s].created, after |-> result[s]]

\* A DEPOSIT or WITHDRAWAL of an asset that is not cash is refused, whatever
\* is held.
Allowed(r) == IsCashFlow(r) => r.asset \in CashAssets

-----------------------------------------------------------------------------
(* One request. *)

\* The request's variables go with its session.
Forget(s) ==
    /\ req' = [req EXCEPT ![s] = Blank]
    /\ found' = [found EXCEPT ![s] = FALSE]
    /\ result' = [result EXCEPT ![s] = 0]
    /\ items' = [items EXCEPT ![s] = NoItems]
    /\ visible' = [visible EXCEPT ![s] = {}]

\* The locks once s's database transaction is over.
Released_Never(s) == lockOf
Released(s) == [a \in Assets |-> IF lockOf[a] = s THEN Free ELSE lockOf[a]]

\* The database transaction ends, its locks are released and the client is
\* answered.
End(s, answer) ==
    /\ pc' = [pc EXCEPT ![s] = "idle"]
    /\ reply' = [reply EXCEPT ![s] = answer]
    /\ lockOf' = Released(s)
    /\ Forget(s)
    /\ UNCHANGED clock

RollBack(s, why) == End(s, why) /\ UNCHANGED dbVars

\* The first statement of the request (the caller's user row) starts the
\* database transaction and with it fixes created_at.
Begin(s) ==
    /\ pc[s] = "idle"
    /\ clock < MaxClock
    /\ clock' = clock + 1
    /\ \E r \in Requests, d \in Dates :
          req' = [req EXCEPT ![s] = [type |-> r.type, asset |-> r.asset, qty |-> r.qty,
                                     date |-> d, created |-> clock']]
    /\ pc' = [pc EXCEPT ![s] = "lock"]
    /\ reply' = [reply EXCEPT ![s] = "none"]
    /\ UNCHANGED <<dbVars, lockOf, found, result, items, visible>>

\* SELECT ... FOR UPDATE waits while another session has the row.  It sees
\* nothing of an uncommitted insert.
RowAvailable_PlainSelect(s) == TRUE
RowAvailable(s) == Target(s) \in rows => lockOf[Target(s)] = Free

\* The locking read, which locks nothing when there is no row; then the rules
\* of the transaction type are applied in memory.
LockHolding(s) ==
    LET a == Target(s) IN
    /\ pc[s] = "lock"
    /\ RowAvailable(s)
    /\ \/ /\ ~(Allowed(req[s]) /\ Accepts(req[s], quantity[a]))
          /\ RollBack(s, "rejected")
       \/ /\ Allowed(req[s]) /\ Accepts(req[s], quantity[a])
          /\ found' = [found EXCEPT ![s] = a \in rows]
          /\ result' = [result EXCEPT ![s] = quantity[a] + Signed(req[s])]
          /\ lockOf' = IF a \in rows THEN [lockOf EXCEPT ![a] = s] ELSE lockOf
          /\ pc' = [pc EXCEPT ![s] = "flush"]
          /\ UNCHANGED <<dbVars, clock, req, items, visible, reply>>

\* The holding the session did not find has been inserted and committed by
\* another one: the unique index on (portfolio, asset) refuses the second.
Duplicate_NoUniqueIndex(s) == FALSE
Duplicate(s) == ~found[s] /\ Target(s) \in rows

\* INSERT or UPDATE of the holding, INSERT of the transaction.  An insert
\* waits for an uncommitted one of the same key to be decided.
Flush(s) ==
    LET a == Target(s) IN
    /\ pc[s] = "flush"
    /\ \/ /\ Duplicate(s)
          /\ RollBack(s, "conflict")
       \/ /\ ~Duplicate(s)
          /\ lockOf[a] \in {Free, s}
          /\ lockOf' = [lockOf EXCEPT ![a] = s]
          /\ pc' = [pc EXCEPT ![s] = IF IsCashFlow(req[s]) THEN "holdings" ELSE "commit"]
          /\ UNCHANGED <<dbVars, clock, req, found, result, items, visible, reply>>

\* The active assets with the quantities held, as holdings says: those that
\* are committed, but for the session's own, which has been flushed.  An item
\* of value 0 stands for no item.
Valued(holdings) == [a \in active |-> holdings[a]]

OwnFlushed_NotYet(s) == quantity
OwnFlushed(s) == [quantity EXCEPT ![Target(s)] = result[s]]

\* The snapshot of a DEPOSIT or WITHDRAWAL, first statement.
ReadHoldings(s) ==
    /\ pc[s] = "holdings"
    /\ items' = [items EXCEPT ![s] = Valued(OwnFlushed(s))]
    /\ pc' = [pc EXCEPT ![s] = "transactions"]
    /\ UNCHANGED <<dbVars, clock, lockOf, req, found, result, visible, reply>>

\* The transactions that are committed by then, and the session's own.
Counted_UpToOwn(s) == {t \in Committed : Before(t, Row(s))} \cup {Row(s)}
Counted(s) == Committed \cup {Row(s)}

\* Second statement.  The transactions read are replayed at once.
ReadTransactions(s) ==
    LET seen == Counted(s) IN
    /\ pc[s] = "transactions"
    /\ \/ /\ ReplayOversells(seen)
          /\ RollBack(s, "error")
       \/ /\ ~ReplayOversells(seen)
          /\ visible' = [visible EXCEPT ![s] = seen]
          /\ pc' = [pc EXCEPT ![s] = "commit"]
          /\ UNCHANGED <<dbVars, clock, lockOf, req, found, result, items, reply>>

\* A snapshot as it is stored.  counted is no column: it is the set whose sum
\* invested_capital is, kept for the properties.
Snapshot(at, trigger, source, created, values, counted) ==
    [at |-> at, trigger |-> trigger, source |-> source, created |-> created,
     items |-> values, invested |-> InvestedCapital(counted), counted |-> counted]

SnapshotOf(s) ==
    Snapshot(req[s].date, "TRANSACTION", req[s].created, req[s].created, items[s], visible[s])

\* The one commit of the request.  The answer is put together afterwards, from
\* the refreshed rows and the asset's price: if one of these reads fails, the
\* client gets an error for a transaction that stands.
Commit(s) ==
    LET a == Target(s) IN
    /\ pc[s] = "commit"
    /\ rows' = rows \cup {a}
    /\ quantity' = [quantity EXCEPT ![a] = result[s]]
    /\ history' = Append(history, Row(s))
    /\ UNCHANGED active
    /\ snapshots' = IF IsCashFlow(req[s]) THEN snapshots \cup {SnapshotOf(s)} ELSE snapshots
    /\ \E answer \in {"created", "lost"} : End(s, answer)

\* The connection is lost before the commit.
Disconnect(s) ==
    /\ pc[s] # "idle"
    /\ RollBack(s, "lost")

\* An administrator deactivates an asset, or activates it again; whether it is
\* held makes no difference.
SetActive(a) ==
    /\ active' = IF a \in active THEN active \ {a} ELSE active \cup {a}
    /\ UNCHANGED <<rows, quantity, history, snapshots, clock, lockOf, sessionVars>>

\* What the server does for a request once it has begun.
Step(s) == \/ LockHolding(s)
           \/ Flush(s)
           \/ ReadHoldings(s)
           \/ ReadTransactions(s)
           \/ Commit(s)

LedgerNext == \/ \E s \in Sessions : Begin(s) \/ Step(s) \/ Disconnect(s)
              \/ \E a \in Retirable : SetActive(a)

LedgerSpec == LedgerInit /\ [][LedgerNext]_ledgerVars

\* The server goes on executing a request.  Waiters for a row lock are served
\* in turn, but with MaxClock requests in all nobody can be overtaken for
\* ever, so weak fairness is enough.  Nobody is bound to post a request, no
\* connection is bound to be lost.
FairLedgerSpec == LedgerSpec /\ \A s \in Sessions : WF_ledgerVars(Step(s))

-----------------------------------------------------------------------------
(* Properties. *)

\* Every variable has its type; that a holding, and the quantity about to be
\* written to one, is never negative is the part that depends on the code.
LedgerTypeOK ==
    /\ rows \subseteq Assets
    /\ quantity \in [Assets -> Nat]
    /\ history \in Seq(Recorded)
    /\ active \subseteq Assets
    /\ clock \in 0 .. MaxClock
    /\ lockOf \in [Assets -> Sessions \cup {Free}]
    /\ pc \in [Sessions -> Steps]
    /\ req \in [Sessions -> Stamped]
    /\ found \in [Sessions -> BOOLEAN]
    /\ result \in [Sessions -> Nat]
    /\ DOMAIN items = Sessions
    /\ \A s \in Sessions : \E listed \in SUBSET Assets : items[s] \in [listed -> Nat]
    /\ visible \in [Sessions -> SUBSET Recorded]
    /\ reply \in [Sessions -> Replies]

\* A holding is what its transactions add up to, and exists exactly when there
\* is one: whatever requests overlap, no update is lost, none counts twice,
\* and (quantities being naturals) nothing is ever oversold.
HoldingsAreDerived ==
    \A a \in Assets : /\ quantity[a] = Net(Committed, a)
                      /\ a \in rows <=> \E t \in Committed : t.asset = a

\* The quantities have been read and the rules passed.
Decided(s) == pc[s] \notin {"idle", "lock"}

\* The holding and the transaction are in the database, uncommitted.
Flushed(s) == pc[s] \in {"holdings", "transactions", "commit"}

ReadHolds(s) ==
    /\ Allowed(req[s])
    /\ Accepts(req[s], result[s] - Signed(req[s]))
    /\ found[s] => Target(s) \in rows
    /\ ~found[s] => result[s] = Signed(req[s])
    /\ found[s] \/ Flushed(s) => /\ lockOf[Target(s)] = s
                                 /\ result[s] = quantity[Target(s)] + Signed(req[s])

\* A request acts on what it read: from the moment it has the row, or has
\* inserted one, until it ends, nobody else moves the holding it is about to
\* write.  Only a session that found no row runs unprotected, until its insert.
ReadStaysTrue ==
    /\ \A a \in Assets \ rows : quantity[a] = 0
    /\ \A s \in Sessions : Decided(s) => ReadHolds(s)

HasSnapshot(t) ==
    \E sn \in snapshots : /\ sn.trigger = "TRANSACTION"
                          /\ sn.source = t.created
                          /\ t \in sn.counted
                          /\ t.asset \in DOMAIN sn.items => sn.items[t.asset] = t.after

\* Every DEPOSIT or WITHDRAWAL is stored together with one snapshot, which
\* counts it and, its asset being active, values the balance it left.
CashFlowHasSnapshot ==
    /\ \A t \in Committed : IsCashFlow(t) => HasSnapshot(t)
    /\ \A sn, other \in snapshots :
          sn.trigger = "TRANSACTION" /\ other.trigger = "TRANSACTION" /\ sn.source = other.source
             => sn = other

\* The first n transactions committed, and the one the snapshot sn is of.
SeenBy(sn, n) == {history[i] : i \in 1 .. n} \cup {t \in Committed : t.created = sn.source}

\* Whatever commits while a snapshot is being built, it shows two moments of
\* the committed history, each with its own transaction added: the holdings at
\* the first, the capital at the second, never the other way round.
SnapshotsAreCuts ==
    \A sn \in snapshots : \E m \in 0 .. Len(history) : \E n \in 0 .. m :
        /\ sn.counted = SeenBy(sn, m)
        /\ \A a \in DOMAIN sn.items : sn.items[a] = Net(SeenBy(sn, n), a)

Atomic == INSTANCE AtomicLedger WITH quantity <- quantity, history <- history

\* However requests overlap, the committed history is one that requests
\* executed one after the other could have produced.
ImplementsAtomicLedger == Atomic!AtomicSpec

\* Every request is answered: no two of them wait for each other.
EveryRequestEnds == \A s \in Sessions : pc[s] # "idle" ~> pc[s] = "idle"

\* The history the live path accepted can be replayed: a later DEPOSIT,
\* WITHDRAWAL or end-of-day snapshot never dies of an OversellError.
ReplayFollowsLivePath == ~ReplayOversells(Committed)

\* What sn counts as put into asset a from outside.
PutInto(sn, a) == InvestedCapital({t \in sn.counted : t.asset = a})

\* Deactivating an asset preserves its history and takes it off the selection
\* lists, nothing else: where a snapshot has shown a value for money put into an
\* asset, a later one that still has money in that asset as part of its
\* invested capital shows one, too.
DeactivationKeepsValue ==
    \A sn, later \in snapshots : sn.counted \subseteq later.counted =>
        \A a \in DOMAIN sn.items :
            sn.items[a] > 0 /\ PutInto(later, a) > 0 => a \in DOMAIN later.items
=============================================================================

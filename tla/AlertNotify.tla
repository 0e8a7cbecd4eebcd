---------------------------- MODULE AlertNotify -----------------------------
(***************************************************************************)
(* The Telegram worker, workers/alert_notify.py: one portfolio's turn is a  *)
(* sync of the notification center (module Notifications, in the worker's   *)
(* own session) and then one message per notification not yet sent.         *)
(*                                                                          *)
(*   StartRun           the portfolio has opted in: its sync begins         *)
(*   LoadPending        notifications without telegram_sent_at              *)
(*   AskConsent         the opt-in of the notification's rule               *)
(*   Send               the HTTP request and Telegram's answer              *)
(*   MarkSent           telegram_sent_at, committed                         *)
(***************************************************************************)
EXTENDS Notifications

CONSTANTS
    Workers,       \* sessions that are runs of the worker
    LostAnswers,   \* whether Telegram's answer may be lost on its way
    MaxRows        \* bound on notifications, for fairness only

ASSUME AlertNotifyAssumption ==
    /\ Workers \subseteq Sessions
    /\ LostAnswers \in BOOLEAN
    /\ MaxRows \in Nat

VARIABLES
    optedIn,   \* portfolio_configs.telegram_enabled
    queue,     \* queue[w]: the notifications worker w still has to see to
    copies     \* copies[i]: messages about notification i in the chat, 2 for more

notifyVars == <<notificationVars, optedIn, queue, copies>>

NotifyInit ==
    /\ NotificationsInit
    /\ optedIn \in BOOLEAN
    /\ queue = [w \in Workers |-> <<>>]
    /\ copies = <<>>

StartRun(w) ==
    /\ optedIn
    /\ Begin(w, "deliver")
    /\ UNCHANGED <<optedIn, queue, copies>>

\* The worker goes on to step, with rest left to see to.
GoesOn(w, step, rest) ==
    /\ Becomes(w, IF step = "idle" THEN Blank ELSE [run[w] EXCEPT !.step = step])
    /\ queue' = [queue EXCEPT ![w] = rest]
    /\ UNCHANGED <<worldVars, rules, boundVars, optedIn>>

\* Done with the head of the queue.
NextOne_Endless(w) == GoesOn(w, "consent", Tail(queue[w]))
NextOne(w) ==
    LET rest == Tail(queue[w]) IN GoesOn(w, IF rest = <<>> THEN "idle" ELSE "consent", rest)

\* A notification is due until it has been sent, whether or not its condition
\* has cleared meanwhile.
Due_OnlyActive(n) == ~n.sent /\ n.active
Due(n) == ~n.sent

LoadPending(w) ==
    LET due == Those([i \in DOMAIN notifications |-> i],
                     LAMBDA i : Due(notifications[i]), LAMBDA i : i)
    IN  /\ run[w].step = "committed"
        /\ GoesOn(w, IF due = <<>> THEN "idle" ELSE "consent", due)
        /\ UNCHANGED <<notifications, copies>>

\* An alert's notification needs its rule's opt-in; a recommendation's needs
\* no more than the portfolio's, which the run looked at when it started.
Consents(rule) == rule.exists /\ rule.enabled /\ rule.telegram

\* The rule may still be in the session's identity map, since the sync: then
\* its columns are what they were, unless its row is gone.
RuleAsSeen(w, r) == {rules[r], [run[w].known[r] EXCEPT !.exists = rules[r].exists]}

AskConsent(w) ==
    LET source == notifications[Head(queue[w])].source IN
    /\ run[w].step = "consent"
    /\ \E agreed \in IF source.kind \in Kinds
                     THEN {Consents(rule) : rule \in RuleAsSeen(w, source.of)}
                     ELSE {TRUE} :
          IF agreed THEN GoesOn(w, "send", queue[w]) ELSE NextOne(w)
    /\ UNCHANGED <<notifications, copies>>

\* The message is in the chat.
Posted(i) == [j \in DOMAIN copies |->
                 IF j = i THEN IF copies[j] = 0 THEN 1 ELSE 2 ELSE copies[j]]

\* Telegram takes the message, and says so.
Accepted(w, i) ==
    /\ run[w].step = "send" /\ Head(queue[w]) = i
    /\ copies' = Posted(i)
    /\ GoesOn(w, "mark", queue[w])
    /\ UNCHANGED notifications

\* Telegram refuses it, cannot be reached, or its answer is lost.
AfterRefusal_Marked(w) == GoesOn(w, "mark", queue[w])
AfterRefusal(w) == NextOne(w)

Refusal(w) ==
    /\ run[w].step = "send"
    /\ \/ copies' = copies
       \/ LostAnswers /\ copies' = Posted(Head(queue[w]))
    /\ AfterRefusal(w)
    /\ UNCHANGED notifications

\* The update waits while another session is about to resolve the row.
MarkSent(w) ==
    LET i == Head(queue[w]) IN
    /\ run[w].step = "mark"
    /\ \A t \in Sessions : i \notin run[t].resolved
    /\ notifications' = [notifications EXCEPT ![i].sent = TRUE]
    /\ NextOne(w)
    /\ UNCHANGED copies

Switch ==
    /\ "switch" \in Edits
    /\ Change
    /\ optedIn' = ~optedIn
    /\ UNCHANGED <<worldVars, dbVars, run, queue, copies>>

\* Steps of module Notifications; a row that is new has not been posted.
CenterStep(A) ==
    /\ A
    /\ copies' = [i \in DOMAIN notifications' |-> IF i \in DOMAIN copies THEN copies[i] ELSE 0]
    /\ UNCHANGED <<optedIn, queue>>

WorkerStep(w) == \/ CenterStep(Step(w))
                 \/ LoadPending(w) \/ AskConsent(w)
                 \/ Refusal(w) \/ MarkSent(w)
                 \/ \E i \in DOMAIN notifications : Accepted(w, i)

\* What a worker run had in mind is gone with it.
Dies(s) ==
    /\ Crash(s)
    /\ queue' = [w \in Workers |-> IF w = s THEN <<>> ELSE queue[w]]
    /\ UNCHANGED <<optedIn, copies>>

NotifyNext ==
    \/ CenterStep(WorldNext)
    \/ Switch
    \/ \E w \in Workers : StartRun(w) \/ WorkerStep(w)
    \/ \E s \in Sessions \ Workers : CenterStep(Step(s) \/ \E mode \in Modes : Begin(s, mode))
    \/ \E s \in Sessions : Dies(s)

NotifySpec == NotifyInit /\ [][NotifyNext]_notifyVars

\* An external scheduler starts the worker again and again, a run that was
\* started goes on, and Telegram, tried often enough, takes a message.
FairNotifySpec ==
    /\ NotifySpec
    /\ \A s \in Sessions \ Workers : WF_notifyVars(CenterStep(Step(s)))
    /\ \A w \in Workers : /\ WF_notifyVars(StartRun(w))
                          /\ WF_notifyVars(WorkerStep(w))
                          /\ \A i \in 1 .. MaxRows : SF_notifyVars(Accepted(w, i))

-----------------------------------------------------------------------------
(* Properties. *)

\* Every variable has its type, those of the notification center included, and
\* a worker is busy with messages exactly as long as there are some.
NotifyTypeOK ==
    /\ NotificationsTypeOK
    /\ optedIn \in BOOLEAN
    /\ queue \in [Workers -> Seq(DOMAIN notifications)]
    /\ \A w \in Workers : queue[w] # <<>> <=> run[w].step \in {"consent", "send", "mark"}
    /\ DOMAIN copies = DOMAIN notifications
    /\ \A i \in DOMAIN copies : copies[i] \in 0 .. 2

\* A notification is marked as sent only once its message is in the chat.
SentWasPosted == \A i \in DOMAIN notifications : notifications[i].sent => copies[i] > 0

Source(i) == notifications[i].source

Wanted(i) == /\ i \in DOMAIN notifications
             /\ ~notifications[i].sent
             /\ optedIn
             /\ Source(i).kind \in Kinds => Consents(rules[Source(i).of])

\* Every notification a user who opted in is entitled to is delivered in the
\* end, also one whose condition has cleared before the worker came by.
WantedIsDelivered == \A i \in 1 .. MaxRows : Wanted(i) ~> ~Wanted(i)

\* While the worker runs, the center comes to show exactly the recommendations
\* that are current, whatever overlapping, failed and killed syncs did before.
RecommendationsConverge ==
    \A x \in ToSet(Recommendations) :
        LET shown == Active(RecommendationSource(x)) # {}
        IN  /\ <>[](optedIn /\ x \in recommended) => <>[]shown
            /\ <>[](optedIn /\ x \notin recommended) => <>[]~shown

\* A notification that is not resolved is one whose condition is still met: a
\* price that leaves its target for good leaves no active notification behind.
ClearedIsResolved ==
    \A r \in Rules :
        <>[](optedIn /\ ~Met("PRICE_TARGET", shareOf[r], priceOf[r]))
            => <>[](Active(AlertSource(r, "PRICE_TARGET")) = {})

\* A notification is delivered at most once, once Telegram has said that it
\* took it.
SentAtMostOnce == \A i \in DOMAIN copies : copies[i] < 2
=============================================================================

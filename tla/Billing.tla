------------------------------- MODULE Billing -------------------------------
(***************************************************************************)
(* The plan of one tenant and the subscriptions Pagar.me charges for it.   *)
(* Subscribe, Cancel and the webhook are sequences of calls to Pagar.me    *)
(* and to PostgreSQL in concurrent handlers; each call may be refused or   *)
(* its answer lost, and webhooks come late, more than once, and name only  *)
(* a customer. The quota that goes with a plan is in QuotaPipeline.        *)
(*                                                                         *)
(* Calls that only read (the tenant's name, the user's e-mail) or change   *)
(* nothing (a declined card, an unknown plan) are not steps. Pagar.me has  *)
(* one customer for each e-mail address, so customers are named by users.  *)
(***************************************************************************)
EXTENDS Naturals

CONSTANTS
    Requests,   \* handlers of Subscribe and Cancel
    Hooks,      \* handlers of Webhook
    Subs,       \* bound: the subscriptions Pagar.me can create
    Users,      \* the tenant's users
    Plans,      \* the paid plans
    Free,       \* FreePlan
    None        \* no subscription, no customer

ASSUME BillingAssumption ==
    /\ Requests \cap Hooks = {}
    /\ Free \notin Plans
    /\ None \notin Subs \cup Users

VARIABLES
    row,        \* plan, subscription id and customer id in tenants
    status,     \* subscription -> its status at Pagar.me
    planOf,     \* subscription -> the plan it was sold for
    userOf,     \* subscription -> its customer
    notices,    \* subscription.canceled webhooks under way, by subscription
    at,         \* handler -> the call it is at
    held,       \* handler -> the subscription it holds
    orphans,    \* history: active subscriptions the row lost or never had
    unknown,    \* history: notices dropped for an unknown customer
    excused     \* history: notices that failed, or came before the row

vars == <<row, status, planOf, userOf, notices, at, held, orphans, unknown, excused>>

pagarme == <<status, planOf, userOf, notices>>
history == <<orphans, unknown, excused>>

Handlers == Requests \cup Hooks

TypeOK ==
    /\ row \in [plan : Plans \cup {Free}, sub : Subs \cup {None}, customer : Users \cup {None}]
    /\ status \in [Subs -> {"none", "active", "canceled"}]
    /\ planOf \in [Subs -> Plans \cup {None}]
    /\ userOf \in [Subs -> Users \cup {None}]
    /\ notices \subseteq Subs
    /\ at \in [Handlers -> {"idle", "recording", "naming", "canceling", "reverting"}]
    /\ held \in [Handlers -> Subs \cup {None}]
    /\ orphans \subseteq Subs
    /\ unknown \subseteq Subs
    /\ excused \subseteq Subs

Init ==
    /\ row = [plan |-> Free, sub |-> None, customer |-> None]
    /\ status = [i \in Subs |-> "none"]
    /\ planOf = [i \in Subs |-> None]
    /\ userOf = [i \in Subs |-> None]
    /\ notices = {}
    /\ at = [r \in Handlers |-> "idle"]
    /\ held = [r \in Handlers |-> None]
    /\ orphans = {} /\ unknown = {} /\ excused = {}

Active(i) == status[i] = "active"

\* The webhook for i is under way or in a handler.
Announced(i) ==
    \/ i \in notices
    \/ \E h \in Hooks : at[h] = "reverting" /\ held[h] = i

\* r goes on to call c, holding i; it ends.
Hold(r, c, i) ==
    /\ at' = [at EXCEPT ![r] = c]
    /\ held' = [held EXCEPT ![r] = i]

GoOn(r, c) == Hold(r, c, held[r])
End(r) == Hold(r, "idle", None)

-----------------------------------------------------------------------------
(* Pagar.me.                                                               *)

\* CreateSubscription sells plan p to user u.
Sell(i, p, u) ==
    /\ status[i] = "none"
    /\ status' = [status EXCEPT ![i] = "active"]
    /\ planOf' = [planOf EXCEPT ![i] = p]
    /\ userOf' = [userOf EXCEPT ![i] = u]
    /\ UNCHANGED notices

\* A subscription ends, and Pagar.me notifies the webhook.
Ends(i) ==
    /\ Active(i)
    /\ status' = [status EXCEPT ![i] = "canceled"]
    /\ notices' = notices \cup {i}
    /\ UNCHANGED <<planOf, userOf>>

\* In Pagar.me's dashboard, or after a failed payment.
CancelElsewhere(i) ==
    /\ Ends(i)
    /\ UNCHANGED <<row, at, held, history>>

\* The answer to a webhook was lost, so it is delivered again.
Redeliver(i) ==
    /\ status[i] = "canceled"
    /\ notices' = notices \cup {i}
    /\ UNCHANGED <<row, status, planOf, userOf, at, held, history>>

-----------------------------------------------------------------------------
(* Subscribe.                                                              *)

CreateSubscription(r, i, p, u) ==
    /\ at[r] = "idle"
    /\ Sell(i, p, u)
    /\ Hold(r, "recording", i)
    /\ UNCHANGED <<row, history>>

\* The card is charged, and Subscribe sees an error: nobody knows i.
CreateUnanswered(r, i, p, u) ==
    /\ at[r] = "idle"
    /\ Sell(i, p, u)
    /\ orphans' = orphans \cup {i}
    /\ UNCHANGED <<row, at, held, unknown, excused>>

\* UpdateSubscription replaces whatever subscription the row named, which
\* Pagar.me goes on charging.
Recorded(r) ==
    LET i == held[r]
    IN  /\ at[r] = "recording"
        /\ row' = [row EXCEPT !.plan = planOf[i], !.sub = i]
        /\ orphans' = orphans \cup {j \in Subs : j = row.sub /\ j # i /\ Active(j)}
        /\ excused' = IF status[i] = "canceled" /\ ~Announced(i)
                      THEN excused \cup {i} ELSE excused
        /\ UNCHANGED unknown

RecordSubscription(r) ==
    /\ Recorded(r)
    /\ GoOn(r, "naming")
    /\ UNCHANGED pagarme

\* The row is updated, and Subscribe sees an error.
RecordUnanswered(r) ==
    /\ Recorded(r)
    /\ End(r)
    /\ UNCHANGED pagarme

RecordFails(r) ==
    /\ at[r] = "recording"
    /\ orphans' = orphans \cup {held[r]}
    /\ End(r)
    /\ UNCHANGED <<row, pagarme, unknown, excused>>

SetPagarmeCustomerID(r) ==
    /\ at[r] = "naming"
    /\ row' = [row EXCEPT !.customer = userOf[held[r]]]
    /\ End(r)
    /\ UNCHANGED <<pagarme, history>>

\* The error is ignored; so is an answer without a customer.
SetCustomerFails(r) ==
    /\ at[r] = "naming"
    /\ End(r)
    /\ UNCHANGED <<row, pagarme, history>>

-----------------------------------------------------------------------------
(* Cancel.                                                                 *)

Cancel(r) ==
    /\ at[r] = "idle"
    /\ row.sub # None
    /\ Hold(r, "canceling", row.sub)
    /\ UNCHANGED <<row, pagarme, history>>

CancelSubscription(r) ==
    /\ at[r] = "canceling"
    /\ Ends(held[r])
    /\ GoOn(r, "reverting")
    /\ UNCHANGED <<row, history>>

CancelUnanswered(r) ==
    /\ at[r] = "canceling"
    /\ Ends(held[r])
    /\ End(r)
    /\ UNCHANGED <<row, history>>

\* Mutant: the error of CancelSubscription is ignored.
CancelIgnored(r) ==
    /\ at[r] = "canceling"
    /\ GoOn(r, "reverting")
    /\ UNCHANGED <<row, pagarme, history>>

\* Pagar.me refuses, as for a subscription that has ended.
CancelRefused(r) ==
    /\ at[r] = "canceling"
    /\ End(r)
    /\ UNCHANGED <<row, pagarme, history>>

-----------------------------------------------------------------------------
(* revertToFreePlan, the end of Cancel and of the webhook.                 *)

\* Mutant: the quota is reset and the plan is not.
RevertQuotaOnly == row

\* The UPDATE names the tenant, not the subscription.
Reverted == [row EXCEPT !.plan = Free, !.sub = None]

\* What the row named and r does not hold goes on being charged.
Revert(r) ==
    /\ at[r] = "reverting"
    /\ row' = Reverted
    /\ orphans' = orphans \cup {j \in Subs : j = row.sub /\ j # held[r] /\ Active(j)}
    /\ End(r)
    /\ UNCHANGED <<pagarme, unknown, excused>>

\* Cancel answers 502; the webhook logs and answers 200.
RevertFails(r) ==
    /\ at[r] = "reverting"
    /\ excused' = IF r \in Hooks THEN excused \cup {held[r]} ELSE excused
    /\ End(r)
    /\ UNCHANGED <<row, pagarme, orphans, unknown>>

-----------------------------------------------------------------------------
(* The webhook. Pagar.me takes every answer for a receipt.                 *)

Receive(h, i) ==
    /\ at[h] = "idle"
    /\ i \in notices
    /\ notices' = notices \ {i}
    /\ UNCHANGED <<row, status, planOf, userOf, orphans>>

Known(i) == userOf[i] = row.customer

\* Mutant: the event's type is not recognised.
NoticeIgnored(h, i) ==
    /\ Receive(h, i)
    /\ UNCHANGED <<at, held, unknown, excused>>

\* GetTenantByPagarmeCustomerID finds the tenant.
NoticeAccepted(h, i) ==
    /\ Receive(h, i)
    /\ Known(i)
    /\ Hold(h, "reverting", i)
    /\ UNCHANGED <<unknown, excused>>

NoticeUnknown(h, i) ==
    /\ Receive(h, i)
    /\ ~Known(i)
    /\ unknown' = unknown \cup {i}
    /\ UNCHANGED <<at, held, excused>>

NoticeFails(h, i) ==
    /\ Receive(h, i)
    /\ excused' = excused \cup {i}
    /\ UNCHANGED <<at, held, unknown>>

Notice(h, i) == NoticeAccepted(h, i) \/ NoticeUnknown(h, i) \/ NoticeFails(h, i)

Reverts(r) == Revert(r) \/ RevertFails(r)

Subscribe(r) ==
    \/ \E i \in Subs, p \in Plans, u \in Users :
          CreateSubscription(r, i, p, u) \/ CreateUnanswered(r, i, p, u)
    \/ RecordSubscription(r) \/ RecordUnanswered(r) \/ RecordFails(r)
    \/ SetPagarmeCustomerID(r) \/ SetCustomerFails(r)

Cancels(r) == Cancel(r) \/ CancelSubscription(r) \/ CancelUnanswered(r) \/ CancelRefused(r)

Next ==
    \/ \E r \in Requests : Subscribe(r) \/ Cancels(r)
    \/ \E r \in Handlers : Reverts(r)
    \/ \E h \in Hooks, i \in Subs : Notice(h, i)
    \/ \E i \in Subs : CancelElsewhere(i) \/ Redeliver(i)

Spec == Init /\ [][Next]_vars

(***************************************************************************)
(* Pagar.me delivers each notice in the end, and the UPDATE of a webhook   *)
(* ends. Nothing is assumed of Subscribe and Cancel: the HTTP client has   *)
(* no deadline, so their calls may hang.                                   *)
(***************************************************************************)
FairSpec ==
    /\ Spec
    /\ \A h \in Hooks : WF_vars(Reverts(h))
    /\ \A i \in Subs : SF_vars(\E h \in Hooks : Notice(h, i))

-----------------------------------------------------------------------------
(* Properties.                                                             *)

InFlight(i) == \E r \in Handlers : at[r] = "recording" /\ held[r] = i

\* Whatever Pagar.me charges for is the row's subscription, or about to be:
\* the only ways to lose one are a lost answer or a failed UPDATE in
\* Subscribe, a second Subscribe, and a revert meant for another one
\* (billing_service.go reverts only after CancelSubscription succeeded).
ChargesAccounted ==
    \A i \in Subs : Active(i) => row.sub = i \/ InFlight(i) \/ i \in orphans

\* A tenant keeps a paid plan after its subscription ended only while the
\* notice is under way or in a handler, or if a webhook dropped it or it
\* came before the row was written.
PaidPlanBacked ==
    \A i \in Subs :
        row.sub = i /\ status[i] = "canceled" =>
            Announced(i) \/ i \in unknown \cup excused

\* And it does lose the plan in the end, though Cancel may fail or hang.
PaidPlanEnds ==
    \A i \in Subs :
        row.sub = i /\ status[i] = "canceled" ~>
            row.sub # i \/ i \in unknown \cup excused

=============================================================================

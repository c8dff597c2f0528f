---------------------------- MODULE BillingProofs ----------------------------
(***************************************************************************)
(* What one tenant is charged for and what plan it has, for any number of  *)
(* handlers, subscriptions, users and plans.                               *)
(***************************************************************************)
EXTENDS Billing, TLAPS

\* What was ever sold has a paid plan, and rows name only what was sold.
Sold ==
    /\ \A i \in Subs : status[i] # "none" => planOf[i] \in Plans
    /\ row.sub # None => status[row.sub] # "none"

\* A handler at work holds a subscription that was sold, and one that reverts
\* holds a subscription that has ended, as have those the notices name.
Holding ==
    /\ \A r \in Handlers : at[r] # "idle" => held[r] \in Subs /\ status[held[r]] # "none"
    /\ \A r \in Handlers : at[r] = "reverting" => status[held[r]] = "canceled"
    /\ \A i \in notices : status[i] = "canceled"

\* The typing invariant, inductive by itself.
TInv == TypeOK /\ Sold /\ Holding

\* The inductive invariant.
BInv == TInv /\ ChargesAccounted /\ PaidPlanBacked

Stages == {"idle", "recording", "naming", "canceling", "reverting"}
Statuses == {"none", "active", "canceled"}

LEMMA InitBInv == Init => BInv
<1> SUFFICES ASSUME Init PROVE BInv
  OBVIOUS
<1> USE BillingAssumption DEF Init
<1>1. TypeOK
  BY DEF TypeOK
<1>2. Sold /\ Holding
  BY DEF Sold, Holding
<1>3. ChargesAccounted
  BY DEF ChargesAccounted, Active
<1>4. PaidPlanBacked
  BY DEF PaidPlanBacked
<1> QED BY <1>1, <1>2, <1>3, <1>4 DEF BInv, TInv

-----------------------------------------------------------------------------
(* Typing, one lemma for each kind of change.                              *)

\* Pagar.me sells a subscription.
LEMMA SellTyped ==
    ASSUME TInv, NEW i \in Subs, NEW p \in Plans, NEW u \in Users, Sell(i, p, u),
           row' = row, orphans' \subseteq Subs, unknown' = unknown, excused' = excused,
           \/ at' = at /\ held' = held
           \/ \E r \in Handlers : at[r] = "idle" /\ Hold(r, "recording", i)
    PROVE  TInv'
<1> USE BillingAssumption DEF TInv, TypeOK, Sell
<1>1. /\ status' \in [Subs -> Statuses]
      /\ planOf' \in [Subs -> Plans \cup {None}]
      /\ userOf' \in [Subs -> Users \cup {None}]
  BY DEF Statuses
<1>2. at' \in [Handlers -> Stages] /\ held' \in [Handlers -> Subs \cup {None}]
  BY DEF Hold, Stages
<1>3. TypeOK'
  BY <1>1, <1>2 DEF Statuses, Stages
<1>4. Sold'
  BY DEF Sold
<1>5. \A j \in Subs : status[j] # "none" => status'[j] = status[j]
  OBVIOUS
<1>6. Holding'
  <2>1. CASE at' = at /\ held' = held
    BY <1>5, <2>1 DEF Holding
  <2>2. ASSUME NEW r \in Handlers, at[r] = "idle", Hold(r, "recording", i) PROVE Holding'
    <3>1. at'[r] = "recording" /\ held'[r] = i /\ status'[i] = "active"
      BY <2>2 DEF Hold
    <3>2. \A s \in Handlers : s # r => at'[s] = at[s] /\ held'[s] = held[s]
      BY <2>2 DEF Hold
    <3> QED BY <1>5, <3>1, <3>2 DEF Holding
  <2> QED BY <2>1, <2>2
<1> QED BY <1>3, <1>4, <1>6

\* A subscription ends; a handler may have asked for it.
LEMMA EndsTyped ==
    ASSUME TInv, NEW i \in Subs, Ends(i), row' = row,
           UNCHANGED history,
           \/ at' = at /\ held' = held
           \/ \E r \in Handlers : /\ held[r] = i /\ at[r] # "idle"
                                  /\ GoOn(r, "reverting") \/ End(r)
    PROVE  TInv'
<1> USE BillingAssumption DEF TInv, TypeOK, Ends, Active, history
<1>1. status' \in [Subs -> Statuses] /\ notices' \subseteq Subs
  BY DEF Statuses
<1>2. at' \in [Handlers -> Stages] /\ held' \in [Handlers -> Subs \cup {None}]
  BY DEF GoOn, End, Hold, Stages
<1>3. TypeOK'
  BY <1>1, <1>2 DEF Statuses, Stages
<1>4. /\ status'[i] = "canceled"
      /\ \A j \in Subs : j # i => status'[j] = status[j]
  OBVIOUS
<1>5. Sold'
  BY <1>4 DEF Sold
<1>6. Holding'
  <2>1. CASE at' = at /\ held' = held
    BY <1>4, <2>1 DEF Holding
  <2>2. ASSUME NEW r \in Handlers, held[r] = i, at[r] # "idle", GoOn(r, "reverting") \/ End(r)
        PROVE  Holding'
    <3>1. at'[r] = "idle" \/ (at'[r] = "reverting" /\ held'[r] = i)
      BY <2>2 DEF GoOn, End, Hold
    <3>2. \A s \in Handlers : s # r => at'[s] = at[s] /\ held'[s] = held[s]
      BY <2>2 DEF GoOn, End, Hold
    <3> QED BY <1>4, <3>1, <3>2 DEF Holding
  <2> QED BY <2>1, <2>2
<1> QED BY <1>3, <1>5, <1>6

\* Nothing happens at Pagar.me, and at most one handler goes on.
LEMMA CallTyped ==
    ASSUME TInv, NEW r \in Handlers,
           status' = status, planOf' = planOf, userOf' = userOf, notices' \subseteq notices,
           row' \in [plan : Plans \cup {Free}, sub : Subs \cup {None}, customer : Users \cup {None}],
           row'.sub # None => status[row'.sub] # "none",
           orphans' \subseteq Subs, unknown' \subseteq Subs, excused' \subseteq Subs,
           NEW c \in Stages, NEW i \in Subs \cup {None},
           at' = [at EXCEPT ![r] = c], held' = [held EXCEPT ![r] = i],
           c # "idle" => i \in Subs /\ status[i] # "none",
           c = "reverting" => status[i] = "canceled"
    PROVE  TInv'
<1> USE DEF TInv, TypeOK
<1>1. at' \in [Handlers -> Stages] /\ held' \in [Handlers -> Subs \cup {None}]
  BY DEF Stages
<1>2. TypeOK'
  BY <1>1 DEF Stages
<1>3. Sold'
  BY DEF Sold
<1>4. Holding'
  <2>1. at'[r] = c /\ held'[r] = i
    OBVIOUS
  <2>2. \A s \in Handlers : s # r => at'[s] = at[s] /\ held'[s] = held[s]
    OBVIOUS
  <2> QED BY <2>1, <2>2 DEF Holding
<1> QED BY <1>2, <1>3, <1>4

LEMMA TypingStep == TInv /\ [Next]_vars => TInv'
<1> SUFFICES ASSUME TInv, [Next]_vars PROVE TInv'
  OBVIOUS
<1> DEFINE Rows == [plan : Plans \cup {Free}, sub : Subs \cup {None}, customer : Users \cup {None}]
<1>a. /\ row \in Rows /\ row.plan \in Plans \cup {Free}
      /\ row.sub \in Subs \cup {None} /\ row.customer \in Users \cup {None}
      /\ orphans \subseteq Subs /\ unknown \subseteq Subs /\ excused \subseteq Subs
      /\ at \in [Handlers -> Stages] /\ held \in [Handlers -> Subs \cup {None}]
      /\ userOf \in [Subs -> Users \cup {None}]
      /\ row.sub # None => status[row.sub] # "none"
  BY DEF TInv, TypeOK, Sold, Stages
<1>b. ASSUME NEW r \in Handlers, at[r] # "idle"
      PROVE  /\ held[r] \in Subs /\ status[held[r]] # "none"
             /\ planOf[held[r]] \in Plans /\ userOf[held[r]] \in Users \cup {None}
             /\ at[r] = "reverting" => status[held[r]] = "canceled"
  BY <1>a, <1>b DEF TInv, Holding, Sold
<1>c. Requests \subseteq Handlers /\ Hooks \subseteq Handlers /\ None \notin Subs
  BY BillingAssumption DEF Handlers
<1>1. ASSUME NEW r \in Requests, NEW i \in Subs, NEW p \in Plans, NEW u \in Users,
             CreateSubscription(r, i, p, u) \/ CreateUnanswered(r, i, p, u)
      PROVE  TInv'
  <2>1. Sell(i, p, u) /\ row' = row /\ unknown' = unknown /\ excused' = excused
    BY <1>1 DEF CreateSubscription, CreateUnanswered, history
  <2>2. orphans' \subseteq Subs
    BY <1>a, <1>1 DEF CreateSubscription, CreateUnanswered, history
  <2>3. \/ at' = at /\ held' = held
        \/ \E s \in Handlers : at[s] = "idle" /\ Hold(s, "recording", i)
    BY <1>c, <1>1 DEF CreateSubscription, CreateUnanswered
  <2> QED BY <2>1, <2>2, <2>3, SellTyped
<1>2. ASSUME NEW r \in Requests, RecordSubscription(r) \/ RecordUnanswered(r)
      PROVE  TInv'
  <2>1. at[r] = "recording" /\ Recorded(r) /\ UNCHANGED pagarme /\ r \in Handlers
    BY <1>2, <1>c DEF RecordSubscription, RecordUnanswered, Recorded
  <2>2. row' \in Rows /\ row'.sub = held[r]
    BY <2>1, <1>a, <1>b DEF Recorded
  <2>3. orphans' \subseteq Subs /\ unknown' \subseteq Subs /\ excused' \subseteq Subs
    BY <2>1, <1>a, <1>b DEF Recorded
  <2>4. PICK c \in Stages, i \in Subs \cup {None} :
          /\ at' = [at EXCEPT ![r] = c] /\ held' = [held EXCEPT ![r] = i]
          /\ (c = "naming" /\ i = held[r]) \/ c = "idle"
    <3>1. CASE RecordSubscription(r)
      BY <3>1, <2>1, <1>b DEF RecordSubscription, GoOn, Hold, Stages
    <3>2. CASE RecordUnanswered(r)
      BY <3>2 DEF RecordUnanswered, End, Hold, Stages
    <3> QED BY <1>2, <3>1, <3>2
  <2> QED BY <1>b, <2>1, <2>2, <2>3, <2>4, CallTyped DEF pagarme
<1>3. ASSUME NEW r \in Requests,
             RecordFails(r) \/ SetPagarmeCustomerID(r) \/ SetCustomerFails(r) \/ CancelRefused(r)
      PROVE  TInv'
  <2>1. at[r] # "idle" /\ End(r) /\ UNCHANGED pagarme /\ r \in Handlers
    BY <1>3, <1>c DEF RecordFails, SetPagarmeCustomerID, SetCustomerFails, CancelRefused
  <2>2. row' \in Rows /\ row'.sub = row.sub
    BY <1>3, <2>1, <1>a, <1>b DEF RecordFails, SetPagarmeCustomerID, SetCustomerFails, CancelRefused
  <2>3. orphans' \subseteq Subs /\ unknown' \subseteq Subs /\ excused' \subseteq Subs
    BY <1>3, <2>1, <1>a, <1>b
       DEF RecordFails, SetPagarmeCustomerID, SetCustomerFails, CancelRefused, history
  <2>4. "idle" \in Stages
    BY DEF Stages
  <2> QED BY <1>a, <2>1, <2>2, <2>3, <2>4, CallTyped DEF End, Hold, pagarme
<1>4. ASSUME NEW r \in Requests, Cancel(r) PROVE TInv'
  <2>1. /\ row.sub \in Subs /\ status[row.sub] # "none" /\ "canceling" \in Stages
        /\ at' = [at EXCEPT ![r] = "canceling"] /\ held' = [held EXCEPT ![r] = row.sub]
        /\ UNCHANGED <<row, pagarme, history>>
    BY <1>4, <1>a DEF Cancel, Hold, Stages
  <2> QED BY <1>a, <1>c, <2>1, CallTyped DEF pagarme, history
<1>5. ASSUME NEW r \in Requests, CancelSubscription(r) \/ CancelUnanswered(r) PROVE TInv'
  <2>1. /\ at[r] # "idle" /\ held[r] \in Subs /\ Ends(held[r])
        /\ row' = row /\ UNCHANGED history
    BY <1>5, <1>b, <1>c DEF CancelSubscription, CancelUnanswered
  <2>2. GoOn(r, "reverting") \/ End(r)
    BY <1>5 DEF CancelSubscription, CancelUnanswered
  <2> QED BY <1>c, <2>1, <2>2, EndsTyped
<1>6. ASSUME NEW r \in Handlers, Reverts(r) PROVE TInv'
  <2>1. at[r] = "reverting" /\ End(r) /\ UNCHANGED pagarme
    BY <1>6 DEF Reverts, Revert, RevertFails
  <2>2. row' \in Rows /\ row'.sub \in {None, row.sub}
    BY <1>6, <1>a DEF Reverts, Revert, RevertFails, Reverted
  <2>3. orphans' \subseteq Subs /\ unknown' \subseteq Subs /\ excused' \subseteq Subs
    BY <1>6, <2>1, <1>a, <1>b DEF Reverts, Revert, RevertFails
  <2>4. "idle" \in Stages
    BY DEF Stages
  <2> QED BY <1>a, <2>1, <2>2, <2>3, <2>4, CallTyped DEF End, Hold, pagarme
<1>7. ASSUME NEW h \in Hooks, NEW i \in Subs, Notice(h, i) PROVE TInv'
  <2>1. /\ at[h] = "idle" /\ i \in notices /\ notices' \subseteq notices /\ h \in Handlers
        /\ UNCHANGED <<row, status, planOf, userOf>> /\ status[i] = "canceled"
        /\ orphans' \subseteq Subs /\ unknown' \subseteq Subs /\ excused' \subseteq Subs
    BY <1>7, <1>a, <1>c
       DEF Notice, NoticeAccepted, NoticeUnknown, NoticeFails, Receive, TInv, Holding
  <2>2. PICK c \in Stages, j \in Subs \cup {None} :
          /\ at' = [at EXCEPT ![h] = c] /\ held' = [held EXCEPT ![h] = j]
          /\ (c = "reverting" /\ j = i) \/ c = "idle"
    <3>1. CASE NoticeAccepted(h, i)
      BY <3>1 DEF NoticeAccepted, Hold, Stages
    <3>2. CASE NoticeUnknown(h, i) \/ NoticeFails(h, i)
      <4>1. at' = [at EXCEPT ![h] = "idle"] /\ held' = [held EXCEPT ![h] = held[h]]
        BY <3>2, <2>1, <1>a DEF NoticeUnknown, NoticeFails
      <4>2. "idle" \in Stages /\ held[h] \in Subs \cup {None}
        BY <2>1, <1>a DEF Stages
      <4> QED BY <4>1, <4>2
    <3> QED BY <1>7, <3>1, <3>2 DEF Notice
  <2> QED BY <1>a, <2>1, <2>2, CallTyped
<1>8. ASSUME NEW i \in Subs, CancelElsewhere(i) PROVE TInv'
  BY <1>8, EndsTyped DEF CancelElsewhere
<1>9. ASSUME NEW i \in Subs, Redeliver(i) PROVE TInv'
  BY <1>9 DEF Redeliver, TInv, TypeOK, Sold, Holding, history
<1>10. CASE UNCHANGED vars
  BY <1>10 DEF vars, TInv, TypeOK, Sold, Holding
<1> QED BY <1>1, <1>2, <1>3, <1>4, <1>5, <1>6, <1>7, <1>8, <1>9, <1>10
        DEF Next, Subscribe, Cancels

-----------------------------------------------------------------------------
(* Charges.                                                                *)

\* Handlers that go on without touching Pagar.me lose no charge they account
\* for, if the row changes only to what it held or what it drops is recorded.
LEMMA ChargesKept ==
    ASSUME TInv, ChargesAccounted, NEW r \in Handlers, status' = status,
           \A s \in Handlers : s # r => at'[s] = at[s] /\ held'[s] = held[s],
           orphans \subseteq orphans',
           at[r] = "recording" /\ held[r] \in Subs /\ Active(held[r])
             => row'.sub = held[r] \/ held[r] \in orphans',
           row.sub \in Subs /\ Active(row.sub)
             => row'.sub = row.sub \/ row.sub \in orphans'
    PROVE  ChargesAccounted'
<1> SUFFICES ASSUME NEW i \in Subs, Active(i)'
      PROVE  row'.sub = i \/ InFlight(i)' \/ i \in orphans'
  BY DEF ChargesAccounted
<1>1. Active(i) /\ (row.sub = i \/ InFlight(i) \/ i \in orphans)
  BY DEF Active, ChargesAccounted
<1>2. CASE row.sub = i
  BY <1>1, <1>2
<1>3. CASE InFlight(i)
  <2>1. PICK s \in Handlers : at[s] = "recording" /\ held[s] = i
    BY <1>3 DEF InFlight
  <2>2. CASE s = r
    BY <1>1, <2>1, <2>2
  <2>3. CASE s # r
    BY <2>1, <2>3 DEF InFlight
  <2> QED BY <2>2, <2>3
<1> QED BY <1>1, <1>2, <1>3

LEMMA ChargesStep == TInv /\ ChargesAccounted /\ [Next]_vars => ChargesAccounted'
<1> SUFFICES ASSUME TInv, ChargesAccounted, [Next]_vars PROVE ChargesAccounted'
  OBVIOUS
<1>a. /\ at \in [Handlers -> Stages] /\ held \in [Handlers -> Subs \cup {None}]
      /\ status \in [Subs -> Statuses] /\ None \notin Subs
      /\ Requests \subseteq Handlers /\ Hooks \subseteq Handlers
      /\ DOMAIN row = {"plan", "sub", "customer"}
  BY BillingAssumption DEF TInv, TypeOK, Stages, Statuses, Handlers
<1>b. \A r \in Handlers : \A c, i :
        at' = [at EXCEPT ![r] = c] /\ held' = [held EXCEPT ![r] = i] =>
          \A s \in Handlers : s # r => at'[s] = at[s] /\ held'[s] = held[s]
  BY <1>a
<1>c. \A r \in Handlers : End(r) =>
        \A s \in Handlers : s # r => at'[s] = at[s] /\ held'[s] = held[s]
  BY <1>a DEF End, Hold
<1>1. ASSUME NEW r \in Requests, NEW i \in Subs, NEW p \in Plans, NEW u \in Users,
             CreateSubscription(r, i, p, u) \/ CreateUnanswered(r, i, p, u)
      PROVE  ChargesAccounted'
  <2>1. /\ row' = row /\ orphans \subseteq orphans'
        /\ \A j \in Subs : j # i => status'[j] = status[j]
    BY <1>1, <1>a DEF CreateSubscription, CreateUnanswered, Sell, history
  <2>2. InFlight(i)' \/ i \in orphans'
    <3>1. CASE CreateSubscription(r, i, p, u)
      <4>1. at'[r] = "recording" /\ held'[r] = i /\ r \in Handlers
        BY <3>1, <1>a DEF CreateSubscription, Hold
      <4> QED BY <4>1 DEF InFlight
    <3>2. CASE CreateUnanswered(r, i, p, u)
      BY <3>2 DEF CreateUnanswered
    <3> QED BY <1>1, <3>1, <3>2
  <2>3. \A j \in Subs : InFlight(j) => InFlight(j)'
    <3>1. \A s \in Handlers : at[s] = "recording" => at'[s] = at[s] /\ held'[s] = held[s]
      BY <1>1, <1>a DEF CreateSubscription, CreateUnanswered, Hold
    <3> QED BY <3>1 DEF InFlight
  <2> QED BY <2>1, <2>2, <2>3 DEF ChargesAccounted, Active
<1>2. ASSUME NEW r \in Requests, RecordSubscription(r) \/ RecordUnanswered(r)
      PROVE  ChargesAccounted'
  <2>1. Recorded(r) /\ UNCHANGED pagarme /\ r \in Handlers
    BY <1>2, <1>a DEF RecordSubscription, RecordUnanswered
  <2>2. \A s \in Handlers : s # r => at'[s] = at[s] /\ held'[s] = held[s]
    BY <1>2, <2>1, <1>a, <1>c DEF RecordSubscription, RecordUnanswered, GoOn, Hold
  <2>3. row'.sub = held[r] /\ orphans \subseteq orphans'
    BY <2>1, <1>a DEF Recorded, TInv, TypeOK
  <2>4. row.sub \in Subs /\ Active(row.sub) => row'.sub = row.sub \/ row.sub \in orphans'
    BY <2>1, <2>3 DEF Recorded
  <2> QED BY <2>1, <2>2, <2>3, <2>4, ChargesKept DEF pagarme
<1>3. ASSUME NEW r \in Requests, RecordFails(r) PROVE ChargesAccounted'
  BY <1>3, <1>a, <1>c, ChargesKept DEF RecordFails, pagarme
<1>4. ASSUME NEW r \in Requests,
             SetPagarmeCustomerID(r) \/ SetCustomerFails(r) \/ CancelRefused(r)
      PROVE  ChargesAccounted'
  <2>1. at[r] # "recording" /\ End(r) /\ UNCHANGED pagarme /\ r \in Handlers /\ orphans' = orphans
    BY <1>4, <1>a DEF SetPagarmeCustomerID, SetCustomerFails, CancelRefused, history
  <2>2. row'.sub = row.sub
    BY <1>4 DEF SetPagarmeCustomerID, SetCustomerFails, CancelRefused, TInv, TypeOK
  <2> QED BY <2>1, <2>2, <1>c, ChargesKept DEF pagarme
<1>5. ASSUME NEW r \in Requests, Cancel(r) PROVE ChargesAccounted'
  BY <1>5, <1>a, <1>b, ChargesKept DEF Cancel, Hold, pagarme, history
<1>6. ASSUME NEW i \in Subs, Ends(i), row' = row, orphans' = orphans,
             \A s \in Handlers : at[s] = "recording" => at'[s] = at[s] /\ held'[s] = held[s]
      PROVE  ChargesAccounted'
  <2>1. \A j \in Subs : Active(j)' => Active(j)
    BY <1>6, <1>a DEF Ends, Active
  <2>2. \A j \in Subs : InFlight(j) => InFlight(j)'
    BY <1>6 DEF InFlight
  <2> QED BY <1>6, <2>1, <2>2 DEF ChargesAccounted
<1>7. ASSUME NEW r \in Requests, CancelSubscription(r) \/ CancelUnanswered(r)
      PROVE  ChargesAccounted'
  <2>1. /\ at[r] = "canceling" /\ r \in Handlers /\ Ends(held[r])
        /\ row' = row /\ orphans' = orphans
    BY <1>7, <1>a DEF CancelSubscription, CancelUnanswered, history
  <2>2. held[r] \in Subs
    BY <2>1 DEF TInv, Holding
  <2>3. \A s \in Handlers : at[s] = "recording" => at'[s] = at[s] /\ held'[s] = held[s]
    BY <1>7, <2>1, <1>a DEF CancelSubscription, CancelUnanswered, GoOn, End, Hold
  <2> QED BY <1>6, <2>1, <2>2, <2>3
<1>8. ASSUME NEW r \in Handlers, Reverts(r) PROVE ChargesAccounted'
  <2>1. at[r] = "reverting" /\ End(r) /\ status' = status
    BY <1>8 DEF Reverts, Revert, RevertFails, pagarme
  <2>2. orphans \subseteq orphans'
    BY <1>8 DEF Reverts, Revert, RevertFails
  <2>3. row.sub \in Subs /\ Active(row.sub) => row'.sub = row.sub \/ row.sub \in orphans'
    BY <1>8, <2>1 DEF Reverts, Revert, RevertFails, Active, TInv, Holding
  <2> QED BY <2>1, <2>2, <2>3, <1>c, ChargesKept
<1>9. ASSUME NEW h \in Hooks, NEW i \in Subs, Notice(h, i) PROVE ChargesAccounted'
  <2>1. row' = row /\ status' = status /\ orphans' = orphans
    BY <1>9 DEF Notice, NoticeAccepted, NoticeUnknown, NoticeFails, Receive
  <2>2. \A s \in Handlers : at[s] = "recording" => at'[s] = at[s] /\ held'[s] = held[s]
    BY <1>9, <1>a DEF Notice, NoticeAccepted, NoticeUnknown, NoticeFails, Receive, Hold
  <2> QED BY <2>1, <2>2 DEF ChargesAccounted, Active, InFlight
<1>10. ASSUME NEW i \in Subs, CancelElsewhere(i) PROVE ChargesAccounted'
  BY <1>10, <1>6 DEF CancelElsewhere, history
<1>11. ASSUME NEW i \in Subs, Redeliver(i) PROVE ChargesAccounted'
  BY <1>11 DEF Redeliver, ChargesAccounted, Active, InFlight, history
<1>12. CASE UNCHANGED vars
  BY <1>12 DEF vars, ChargesAccounted, Active, InFlight
<1> QED BY <1>1, <1>2, <1>3, <1>4, <1>5, <1>7, <1>8, <1>9, <1>10, <1>11, <1>12
        DEF Next, Subscribe, Cancels

-----------------------------------------------------------------------------
(* Plans.                                                                  *)

\* Why a plan may outlive subscription i.
Reason(i) == Announced(i) \/ i \in unknown \cup excused

\* A step that ends no subscription and takes no reason away leaves plans
\* backed, if the row keeps its subscription or loses it.
LEMMA PlansKept ==
    ASSUME PaidPlanBacked, row'.sub \in {row.sub, None}, None \notin Subs,
           \A i \in Subs : status'[i] = "canceled" => status[i] = "canceled" \/ Reason(i)',
           \A i \in Subs : row'.sub = i /\ Reason(i) => Reason(i)'
    PROVE  PaidPlanBacked'
<1> SUFFICES ASSUME NEW i \in Subs, row'.sub = i, status'[i] = "canceled"
      PROVE  Reason(i)'
  BY DEF PaidPlanBacked, Reason, Announced
<1>1. row.sub = i
  OBVIOUS
<1> QED BY <1>1 DEF PaidPlanBacked, Reason, Announced

LEMMA PlansStep == TInv /\ PaidPlanBacked /\ [Next]_vars => PaidPlanBacked'
<1> SUFFICES ASSUME TInv, PaidPlanBacked, [Next]_vars PROVE PaidPlanBacked'
  OBVIOUS
<1>a. /\ at \in [Handlers -> Stages] /\ held \in [Handlers -> Subs \cup {None}]
      /\ status \in [Subs -> Statuses] /\ None \notin Subs
      /\ Requests \cap Hooks = {} /\ Hooks \subseteq Handlers /\ Requests \subseteq Handlers
  BY BillingAssumption DEF TInv, TypeOK, Stages, Statuses, Handlers
<1>b. ASSUME NEW r \in Requests, NEW c, NEW j,
             at' = [at EXCEPT ![r] = c], held' = [held EXCEPT ![r] = j],
             UNCHANGED notices, unknown' = unknown, excused \subseteq excused',
             NEW i \in Subs, Reason(i)
      PROVE  Reason(i)'
  <2>1. \A h \in Hooks : at'[h] = at[h] /\ held'[h] = held[h]
    BY <1>a, <1>b
  <2> QED BY <1>b, <2>1 DEF Reason, Announced
<1>1. ASSUME NEW r \in Requests, NEW i \in Subs, NEW p \in Plans, NEW u \in Users,
             CreateSubscription(r, i, p, u) \/ CreateUnanswered(r, i, p, u)
      PROVE  PaidPlanBacked'
  <2>1. /\ row' = row /\ notices' = notices /\ unknown' = unknown /\ excused' = excused
        /\ \A j \in Subs : status'[j] = "canceled" => status[j] = "canceled"
    BY <1>1, <1>a DEF CreateSubscription, CreateUnanswered, Sell, history
  <2>2. \A h \in Hooks : at'[h] = at[h] /\ held'[h] = held[h]
    BY <1>1, <1>a DEF CreateSubscription, CreateUnanswered, Hold
  <2> QED BY <1>a, <2>1, <2>2, PlansKept DEF Reason, Announced
<1>2. ASSUME NEW r \in Requests, RecordSubscription(r) \/ RecordUnanswered(r)
      PROVE  PaidPlanBacked'
  <2>1. Recorded(r) /\ status' = status
    BY <1>2 DEF RecordSubscription, RecordUnanswered, pagarme
  <2>2. row'.sub = held[r]
    BY <2>1 DEF Recorded, TInv, TypeOK
  <2>3. status[held[r]] = "canceled" => Announced(held[r]) \/ held[r] \in excused'
    BY <2>1 DEF Recorded
  <2>4. notices' = notices /\ \A h \in Hooks : at'[h] = at[h] /\ held'[h] = held[h]
    BY <1>2, <1>a DEF RecordSubscription, RecordUnanswered, GoOn, End, Hold, pagarme
  <2> QED BY <2>1, <2>2, <2>3, <2>4 DEF PaidPlanBacked, Announced
<1>3. ASSUME NEW r \in Requests,
             RecordFails(r) \/ SetPagarmeCustomerID(r) \/ SetCustomerFails(r) \/ CancelRefused(r)
      PROVE  PaidPlanBacked'
  <2>1. /\ status' = status /\ notices' = notices /\ unknown' = unknown /\ excused' = excused
        /\ row'.sub = row.sub
    BY <1>3 DEF RecordFails, SetPagarmeCustomerID, SetCustomerFails, CancelRefused,
                pagarme, history, TInv, TypeOK
  <2>2. at' = [at EXCEPT ![r] = "idle"] /\ held' = [held EXCEPT ![r] = None]
    BY <1>3 DEF RecordFails, SetPagarmeCustomerID, SetCustomerFails, CancelRefused, End, Hold
  <2> QED BY <1>a, <1>b, <2>1, <2>2, PlansKept
<1>4. ASSUME NEW r \in Requests, Cancel(r) PROVE PaidPlanBacked'
  <2>1. /\ status' = status /\ notices' = notices /\ unknown' = unknown /\ excused' = excused
        /\ row' = row
        /\ at' = [at EXCEPT ![r] = "canceling"] /\ held' = [held EXCEPT ![r] = row.sub]
    BY <1>4 DEF Cancel, Hold, pagarme, history
  <2> QED BY <1>a, <1>b, <2>1, PlansKept
<1>5. ASSUME NEW i \in Subs, Ends(i), row' = row, UNCHANGED history,
             \A h \in Hooks : at'[h] = at[h] /\ held'[h] = held[h]
      PROVE  PaidPlanBacked'
  <2>1. \A j \in Subs : j # i => status'[j] = status[j]
    BY <1>5, <1>a DEF Ends
  <2>2. i \in notices' /\ \A j \in Subs : Reason(j) => Reason(j)'
    BY <1>5 DEF Ends, Reason, Announced, history
  <2>3. Reason(i)'
    BY <2>2 DEF Reason, Announced
  <2> QED BY <1>a, <1>5, <2>1, <2>2, <2>3, PlansKept
<1>6. ASSUME NEW r \in Requests, CancelSubscription(r) \/ CancelUnanswered(r)
      PROVE  PaidPlanBacked'
  <2>1. at[r] = "canceling" /\ Ends(held[r]) /\ row' = row /\ UNCHANGED history
    BY <1>6 DEF CancelSubscription, CancelUnanswered
  <2>2. held[r] \in Subs
    BY <2>1, <1>a DEF TInv, Holding
  <2>3. \A h \in Hooks : at'[h] = at[h] /\ held'[h] = held[h]
    BY <1>6, <1>a DEF CancelSubscription, CancelUnanswered, GoOn, End, Hold
  <2> QED BY <1>5, <2>1, <2>2, <2>3
<1>7. ASSUME NEW r \in Handlers, Revert(r) PROVE PaidPlanBacked'
  <2>1. row'.sub = None
    BY <1>7 DEF Revert, Reverted, TInv, TypeOK
  <2> QED BY <1>a, <2>1 DEF PaidPlanBacked
<1>8. ASSUME NEW r \in Handlers, RevertFails(r) PROVE PaidPlanBacked'
  <2>1. /\ row' = row /\ status' = status /\ notices' = notices /\ unknown' = unknown
        /\ excused \subseteq excused'
        /\ r \in Hooks => held[r] \in excused'
    BY <1>8 DEF RevertFails, pagarme
  <2>2. \A s \in Handlers : s # r => at'[s] = at[s] /\ held'[s] = held[s]
    BY <1>8, <1>a DEF RevertFails, End, Hold
  <2>3. ASSUME NEW i \in Subs, Reason(i) PROVE Reason(i)'
    <3>1. CASE i \in notices \cup unknown \cup excused
      BY <2>1, <3>1 DEF Reason, Announced
    <3>2. ASSUME NEW h \in Hooks, at[h] = "reverting", held[h] = i PROVE Reason(i)'
      <4>1. CASE h = r
        BY <2>1, <3>2, <4>1 DEF Reason, Announced
      <4>2. CASE h # r
        BY <1>a, <2>2, <3>2, <4>2 DEF Reason, Announced
      <4> QED BY <4>1, <4>2
    <3> QED BY <2>3, <3>1, <3>2 DEF Reason, Announced
  <2> QED BY <1>a, <2>1, <2>3, PlansKept
<1>9. ASSUME NEW h \in Hooks, NEW i \in Subs, Notice(h, i) PROVE PaidPlanBacked'
  <2>1. /\ row' = row /\ status' = status /\ notices' = notices \ {i} /\ at[h] = "idle"
        /\ unknown \subseteq unknown' /\ excused \subseteq excused'
    BY <1>9 DEF Notice, NoticeAccepted, NoticeUnknown, NoticeFails, Receive
  <2>2. \A g \in Hooks : at[g] = "reverting" => at'[g] = at[g] /\ held'[g] = held[g]
    BY <1>9, <2>1, <1>a DEF Notice, NoticeAccepted, NoticeUnknown, NoticeFails, Hold
  <2>3. Reason(i)'
    <3>1. CASE NoticeAccepted(h, i)
      <4>1. at'[h] = "reverting" /\ held'[h] = i
        BY <3>1, <1>a DEF NoticeAccepted, Hold
      <4> QED BY <4>1 DEF Reason, Announced
    <3>2. CASE NoticeUnknown(h, i) \/ NoticeFails(h, i)
      BY <3>2 DEF NoticeUnknown, NoticeFails, Reason, Announced
    <3> QED BY <1>9, <3>1, <3>2 DEF Notice
  <2>4. \A j \in Subs : j # i /\ Reason(j) => Reason(j)'
    BY <2>1, <2>2 DEF Reason, Announced
  <2> QED BY <1>a, <2>1, <2>3, <2>4, PlansKept
<1>10. ASSUME NEW i \in Subs, CancelElsewhere(i) PROVE PaidPlanBacked'
  BY <1>10, <1>5 DEF CancelElsewhere
<1>11. ASSUME NEW i \in Subs, Redeliver(i) PROVE PaidPlanBacked'
  BY <1>11 DEF Redeliver, PaidPlanBacked, Announced, history
<1>12. CASE UNCHANGED vars
  BY <1>12 DEF vars, PaidPlanBacked, Announced
<1> QED BY <1>1, <1>2, <1>3, <1>4, <1>6, <1>7, <1>8, <1>9, <1>10, <1>11, <1>12
        DEF Next, Subscribe, Cancels, Reverts

-----------------------------------------------------------------------------
THEOREM Invariant == Spec => []BInv
<1>1. BInv /\ [Next]_vars => BInv'
  BY TypingStep, ChargesStep, PlansStep DEF BInv
<1> QED BY InitBInv, <1>1, PTL DEF Spec

\* Row, subscriptions, notices and handlers keep their types.
THEOREM TypeCorrect == Spec => []TypeOK
<1>1. BInv => TypeOK
  BY DEF BInv, TInv
<1> QED BY Invariant, <1>1, PTL

\* Pagar.me charges for nothing but the row's subscription, one about to be
\* recorded, and those the code loses in the ways Billing names.
THEOREM ChargesKnown == Spec => []ChargesAccounted
<1>1. BInv => ChargesAccounted
  BY DEF BInv
<1> QED BY Invariant, <1>1, PTL

\* A plan outlives its subscription only while the webhook is on its way, or
\* because a webhook was dropped or came too early.
THEOREM PlanBacked == Spec => []PaidPlanBacked
<1>1. BInv => PaidPlanBacked
  BY DEF BInv
<1> QED BY Invariant, <1>1, PTL
=============================================================================

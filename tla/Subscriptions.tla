---------------------------- MODULE Subscriptions ---------------------------
(***************************************************************************)
(* Paid subscriptions: an account offers levels at a price per period,     *)
(* subscribers pay in advance and may have the subscription renewed        *)
(* (paid_subscription_evaluator.cpp, paid_subscribe_processing).           *)
(***************************************************************************)
EXTENDS Accounts

CONSTANT SubscriptionFee    \* median_props.create_paid_subscription_fee

ASSUME SubscriptionsAssumption == SubscriptionFee \in Nat

VARIABLES
    offers,         \* paid_subscription_object by creator
    subs            \* paid_subscribe_object by subscriber and creator

subscriptionVars == <<offers, subs>>

NoOffer == [levels |-> -1]
NoSub == [active |-> FALSE, next_time |-> Never]

SubscriptionInit ==
    /\ offers = [a \in Users |-> NoOffer]
    /\ subs = [k \in Users \X Users |-> NoSub]

\* The objects there are: one that has ended is kept.
SubObjects == {k \in DOMAIN subs : subs[k] # NoSub}

\* set_paid_subscription_evaluator: the first offer costs a fee; level 0 closes
\* the offer for new subscribers.
SetPaidSubscription(a, levels, amount, period) ==
    /\ acc[a].exists
    /\ IF offers[a] # NoOffer THEN UNCHANGED accountVars
       ELSE /\ acc[a].balance >= SubscriptionFee
            /\ Becomes(PayCommittee(AdjustBalance(Current, a, -SubscriptionFee),
                                    SubscriptionFee))
    /\ offers' = [offers EXCEPT ![a] =
          [levels |-> levels, amount |-> amount, period |-> period]]
    /\ UNCHANGED subs

\* The subscription as it starts now, for a time.
Subscribed(a, level, time, auto) ==
    [active |-> TRUE, auto_renewal |-> auto, level |-> level,
     amount |-> offers[a].amount, period |-> offers[a].period,
     next_time |-> now + time]

\* What is left of the running period, in tokens.  For a period that is over
\* but not processed the difference is negative, the 128-bit product wraps and
\* its conversion to 64 bits fails: the operation is refused.
Remaining(sub) == (sub.amount * sub.level * (sub.next_time - now)) \div sub.period

Paid(s, a, tokens) == AdjustBalance(AdjustBalance(Current, s, -tokens), a, tokens)

\* A new subscription, or one whose last one has ended.
Subscribe(s, a, level, auto) ==
    LET price == offers[a].amount * level
    IN  /\ ~subs[<<s, a>>].active
        /\ acc[s].balance >= price
        /\ Becomes(Paid(s, a, price))
        /\ subs' = [subs EXCEPT ![<<s, a>>] =
                        Subscribed(a, level, offers[a].period, auto)]

SameModel(sub, a, level) ==
    /\ sub.amount = offers[a].amount
    /\ sub.level = level
    /\ sub.period = offers[a].period

SwitchRenewal(s, a, level, auto) ==
    /\ subs[<<s, a>>].active
    /\ SameModel(subs[<<s, a>>], a, level)
    /\ subs[<<s, a>>].auto_renewal # auto
    /\ subs' = [subs EXCEPT ![<<s, a>>].auto_renewal = auto]
    /\ UNCHANGED accountVars

\* The rest of the old period is worth time under the new model, or is
\* deducted from its price.
ChangeModel(s, a, level, auto) ==
    LET sub == subs[<<s, a>>]
        price == offers[a].amount * level
        left == Remaining(sub)
    IN  /\ sub.active
        /\ ~SameModel(sub, a, level)
        /\ sub.next_time >= now \/ sub.level = 0
        /\ IF left >= price
           THEN /\ subs' = [subs EXCEPT ![<<s, a>>] =
                      Subscribed(a, level,
                                 (left * offers[a].period) \div price, auto)]
                /\ UNCHANGED accountVars
           ELSE /\ acc[s].balance >= price - left
                /\ subs' = [subs EXCEPT ![<<s, a>>] =
                      Subscribed(a, level, offers[a].period, auto)]
                /\ Becomes(Paid(s, a, price - left))

\* paid_subscribe_evaluator: period and amount of the operation must be those of
\* the offer.
PaidSubscribe(s, a, level, auto) ==
    /\ acc[s].exists /\ acc[a].exists
    /\ offers[a] # NoOffer
    /\ 0 < level /\ level <= offers[a].levels
    /\ \/ Subscribe(s, a, level, auto)
       \/ SwitchRenewal(s, a, level, auto)
       \/ ChangeModel(s, a, level, auto)
    /\ UNCHANGED offers

----------------------------------------------------------------------------
\* paid_subscribe_processing.  The loop runs over the index it changes: after
\* the first entry its iterator stands at the new place of that entry, behind
\* every due one, so a block handles the first due entry only.

\* As if only the entries of this very block were due.
DueSubsThisBlock == {k \in DOMAIN subs : subs[k].next_time = now}

DueSubs == {k \in DOMAIN subs : subs[k].next_time <= now}

First(k) ==
    /\ k \in DueSubs
    /\ \A j \in DueSubs : subs[k].next_time <= subs[j].next_time

\* A renewal that costs the subscriber no more than before, for no less time.
Renewal(k) ==
    LET offer == offers[k[2]]
        level == Min({subs[k].level, offer.levels})
    IN  [level |-> level, tokens |-> offer.amount * level,
         good |-> /\ subs[k].auto_renewal
                  /\ offer.period >= subs[k].period
                  /\ subs[k].amount * subs[k].level >= offer.amount * level
                  /\ acc[k[1]].balance >= offer.amount * level]

\* The period of the entry stays what it was.
Renew(k) ==
    /\ First(k) /\ Renewal(k).good
    /\ Becomes(Paid(k[1], k[2], Renewal(k).tokens))
    /\ subs' = [subs EXCEPT ![k].amount = offers[k[2]].amount,
                            ![k].level = Renewal(k).level,
                            ![k].next_time = now + offers[k[2]].period]
    /\ UNCHANGED offers

CloseSub(k) ==
    /\ First(k) /\ ~Renewal(k).good
    /\ subs' = [subs EXCEPT ![k].active = FALSE,
                            ![k].auto_renewal = FALSE,
                            ![k].next_time = Never]
    /\ UNCHANGED offers
    /\ UNCHANGED accountVars

ProcessSubscription == \E k \in DueSubs : Renew(k) \/ CloseSub(k)

=============================================================================

------------------------------ MODULE Invites -------------------------------
(***************************************************************************)
(* Invites (invite_object): tokens behind a key that whoever knows the     *)
(* secret may claim once, as a balance, as the shares of an account or to  *)
(* register one.                                                           *)
(***************************************************************************)
EXTENDS Accounts

CONSTANTS
    InviteKeys,
    MinInvite,          \* median_props.create_invite_min_balance
    UsedInviteDelay     \* CHAIN_CLEAR_USED_INVITE_DELAY

ASSUME InvitesAssumption ==
    IsFiniteSet(InviteKeys) /\ MinInvite \in Nat /\ UsedInviteDelay \in Nat

VARIABLE invites        \* invite_object by key

NoInvite == [status |-> "none", creator |-> Nobody, balance |-> 0, claim_time |-> 0]

InvitesInit == invites = [k \in InviteKeys |-> NoInvite]

CreateInvite(k, creator, amount) ==
    /\ invites[k] = NoInvite
    /\ acc[creator].exists
    /\ acc[creator].balance >= amount
    /\ amount >= MinInvite
    /\ Becomes(AdjustBalance(Current, creator, -amount))
    /\ invites' = [invites EXCEPT ![k] =
          [status |-> "open", creator |-> creator, balance |-> amount,
           claim_time |-> 0]]

Used(k) ==
    invites' = [invites EXCEPT ![k] =
        [@ EXCEPT !.status = "used", !.balance = 0, !.claim_time = now]]

\* claim_invite_balance_evaluator
ClaimInviteBalance(k, receiver) ==
    /\ invites[k].status = "open"
    /\ acc[receiver].exists
    /\ Becomes(AdjustBalance(Current, receiver, invites[k].balance))
    /\ Used(k)

\* use_invite_balance_evaluator
UseInviteBalance(k, receiver) ==
    /\ invites[k].status = "open"
    /\ acc[receiver].exists
    /\ Becomes(CreateVesting(Current, receiver, invites[k].balance))
    /\ Used(k)

\* invite_registration_evaluator leaves energy and last_vote_time of the new
\* account at the defaults of account_object; its recovery account is the creator
\* of the invite.
InviteRegistration(k, new) ==
    /\ invites[k].status = "open"
    /\ ~acc[new].exists
    /\ Becomes(CreateVesting([Current EXCEPT !.acc[new] = NewAccount(0)], new,
                             invites[k].balance))
    /\ Used(k)

\* clear_used_invites
ClearUsedInvites ==
    invites' = [k \in InviteKeys |->
        IF invites[k].status = "used" /\ now - UsedInviteDelay > invites[k].claim_time
        THEN NoInvite ELSE invites[k]]

InviteTokens == SumFunction([k \in InviteKeys |-> invites[k].balance])

=============================================================================

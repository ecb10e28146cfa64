------------------------------- MODULE Escrow -------------------------------
(***************************************************************************)
(* Escrows (escrow_object): tokens one account sets aside for another,     *)
(* released by the parties or, in a dispute, by an agent.                  *)
(***************************************************************************)
EXTENDS Accounts

CONSTANT EscrowIds      \* the pairs of a sender and its escrow number

ASSUME EscrowAssumption == IsFiniteSet(EscrowIds)

VARIABLE escrows        \* escrow_object by id, NoEscrow where there is none

NoEscrow == [open |-> FALSE]

EscrowInit == escrows = [e \in EscrowIds |-> NoEscrow]

IsApproved(e) == escrows[e].to_approved /\ escrows[e].agent_approved

\* Tokens and fee set aside, deadlines in the future and in order, an agent
\* that is a third party.
EscrowTransfer(e, from, to, agent, amount, fee, deadline, expiration) ==
    /\ ~escrows[e].open
    /\ agent \notin {from, to}
    /\ acc[from].exists /\ acc[to].exists /\ acc[agent].exists
    /\ now < deadline /\ deadline < expiration
    /\ acc[from].balance >= amount + fee
    /\ Becomes(AdjustBalance(Current, from, -(amount + fee)))
    /\ escrows' = [escrows EXCEPT ![e] =
          [open |-> TRUE, from |-> from, to |-> to, agent |-> agent,
           token_balance |-> amount, pending_fee |-> fee,
           ratification_deadline |-> deadline,
           escrow_expiration |-> expiration,
           to_approved |-> FALSE, agent_approved |-> FALSE, disputed |-> FALSE]]

Refund(e) == AdjustBalance(Current, escrows[e].from,
                           escrows[e].token_balance + escrows[e].pending_fee)

\* escrow_approve_evaluator up to the point where the answer matters: who has
\* not approved yet, and the deadline has not passed.
MayAnswer(e, who) ==
    /\ escrows[e].open
    /\ who \in {escrows[e].to, escrows[e].agent}
    /\ escrows[e].ratification_deadline >= now
    /\ who = escrows[e].to => ~escrows[e].to_approved
    /\ who = escrows[e].agent => ~escrows[e].agent_approved

\* When both have approved the agent is paid its fee.
EscrowApprove(e, who) ==
    LET answered == [escrows[e] EXCEPT
                        !.to_approved = @ \/ who = escrows[e].to,
                        !.agent_approved = @ \/ who = escrows[e].agent]
        all == answered.to_approved /\ answered.agent_approved
    IN  /\ MayAnswer(e, who)
        /\ escrows' = [escrows EXCEPT ![e] =
              IF all THEN [answered EXCEPT !.pending_fee = 0] ELSE answered]
        /\ Becomes(IF all THEN AdjustBalance(Current, answered.agent,
                                             answered.pending_fee)
                   ELSE Current)

EscrowReject(e, who) ==
    /\ MayAnswer(e, who)
    /\ Becomes(Refund(e))
    /\ escrows' = [escrows EXCEPT ![e] = NoEscrow]

EscrowDispute(e) ==
    /\ escrows[e].open
    /\ now < escrows[e].escrow_expiration
    /\ IsApproved(e)
    /\ ~escrows[e].disputed
    /\ escrows' = [escrows EXCEPT ![e].disputed = TRUE]
    /\ UNCHANGED accountVars

\* Before the expiration a party may only give the tokens to the other one;
\* afterwards to either; in a dispute only the agent decides.
MayRelease(e, who, receiver) ==
    LET esc == escrows[e]
    IN  /\ receiver \in {esc.from, esc.to}
        /\ IF esc.disputed THEN who = esc.agent
           ELSE /\ who \in {esc.from, esc.to}
                /\ esc.escrow_expiration > now =>
                      receiver = IF who = esc.from THEN esc.to ELSE esc.from

EscrowRelease(e, who, receiver, amount) ==
    /\ escrows[e].open
    /\ escrows[e].token_balance >= amount
    /\ IsApproved(e)
    /\ MayRelease(e, who, receiver)
    /\ Becomes(AdjustBalance(Current, receiver, amount))
    /\ escrows' = [escrows EXCEPT ![e] =
          IF escrows[e].token_balance = amount THEN NoEscrow
          ELSE [escrows[e] EXCEPT !.token_balance = @ - amount]]

\* As if an escrow one party has approved was left alone.
DueEscrowsUntouched == {e \in EscrowIds :
                            /\ escrows[e].open
                            /\ ~escrows[e].to_approved
                            /\ escrows[e].ratification_deadline <= now}

DueEscrows == {e \in EscrowIds : /\ escrows[e].open
                                 /\ ~IsApproved(e)
                                 /\ escrows[e].ratification_deadline <= now}

\* One turn of the loop of expire_escrow_ratification.
ExpireEscrow ==
    \E e \in DueEscrows :
        /\ Becomes(Refund(e))
        /\ escrows' = [escrows EXCEPT ![e] = NoEscrow]

EscrowTokens ==
    SumFunction([e \in EscrowIds |->
                    IF escrows[e].open
                    THEN escrows[e].token_balance + escrows[e].pending_fee ELSE 0])

=============================================================================

----------------------------- MODULE Proposals ------------------------------
(***************************************************************************)
(* Proposals (proposal_object): operations that are applied together once  *)
(* every account they need has approved (proposal_evaluator.cpp,           *)
(* database_proposal_object.cpp).  The proposed operations are transfers.  *)
(* An account approves by its active authority, which is its own key:      *)
(* authorities made of other accounts, and approvals by key, are left out. *)
(***************************************************************************)
EXTENDS Accounts, SequencesExt

CONSTANTS
    ProposalIds,            \* the pairs of an author and a title
    ProposalLifetime        \* CHAIN_MAX_PROPOSAL_LIFETIME_SEC

ASSUME ProposalsAssumption == ProposalLifetime \in Nat

VARIABLES
    proposals,      \* proposal_object by id, NoProposal where there is none
    required        \* required_approval_object: an account and a proposal

proposalVars == <<proposals, required>>

NoProposal == [open |-> FALSE]

ProposalInit ==
    /\ proposals = [p \in ProposalIds |-> NoProposal]
    /\ required = {}

----------------------------------------------------------------------------
\* The accounts whose approval the operations need.
Payers(ops) == {op.from : op \in ToSet(ops)}

Transferred(l, op) ==
    AdjustBalance(AdjustBalance(l, op.from, -op.amount), op.to, op.amount)

\* push_proposal: the operations one after the other.  The first that fails
\* ends it, and the undo session takes back those before it.
Applied(ops) ==
    LET after[n \in 0..Len(ops)] ==
            IF n = 0 THEN [ok |-> TRUE, ledger |-> Current]
            ELSE LET l == after[n - 1].ledger
                     op == ops[n]
                 IN  IF /\ after[n - 1].ok /\ l.acc[op.to].exists
                        /\ l.acc[op.from].balance >= op.amount
                     THEN [ok |-> TRUE, ledger |-> Transferred(l, op)]
                     ELSE [ok |-> FALSE, ledger |-> l]
    IN  after[Len(ops)]

\* is_authorized_to_execute
IsAuthorized(prop) == Payers(prop.ops) \subseteq prop.approvals

\* As if the entries of a proposal outlived it.
RemoveProposalKeepsEntries(p) ==
    proposals' = [proposals EXCEPT ![p] = NoProposal] /\ UNCHANGED required

\* database::remove
RemoveProposal(p) ==
    /\ proposals' = [proposals EXCEPT ![p] = NoProposal]
    /\ required' = {r \in required : r.proposal # p}

----------------------------------------------------------------------------
\* Operations.

\* proposal_create_evaluator; review is Never in a proposal without a review.
ProposalCreate(p, author, ops, expiration, review) ==
    /\ ~proposals[p].open
    /\ acc[author].exists /\ \A a \in Payers(ops) : acc[a].exists
    /\ now < expiration /\ expiration <= now + ProposalLifetime
    /\ review # Never => now < review /\ review < expiration
    /\ proposals' = [proposals EXCEPT ![p] =
          [open |-> TRUE, author |-> author, ops |-> ops,
           expiration_time |-> expiration, review_period_time |-> review,
           approvals |-> {}]]
    /\ required' = required \cup {[account |-> a, proposal |-> p] : a \in Payers(ops)}
    /\ UNCHANGED accountVars

\* proposal_update_evaluator.  Without a review the proposal is executed with the
\* last approval it needs; when that fails it is kept and tried again when it
\* expires.  With a review it waits for that, and is dropped when the
\* last approval is withdrawn.
ProposalUpdate(p, add, remove) ==
    LET prop == proposals[p]
        updated == [prop EXCEPT !.approvals = (@ \cup add) \ remove]
        inReview == now >= prop.review_period_time
        result == Applied(prop.ops)
        executes == IsAuthorized(updated) /\ result.ok
        Keep == proposals' = [proposals EXCEPT ![p] = updated] /\ UNCHANGED required
    IN  /\ prop.open
        /\ add \cup remove # {} /\ add \cap remove = {}
        /\ inReview => add = {}
        /\ remove \subseteq prop.approvals /\ add \cap prop.approvals = {}
        /\ \/ /\ prop.review_period_time # Never
              /\ IF inReview /\ updated.approvals = {} THEN RemoveProposal(p) ELSE Keep
              /\ UNCHANGED accountVars
           \/ /\ prop.review_period_time = Never
              /\ add \subseteq Payers(prop.ops)     \* no irrelevant approvals
              /\ IF executes THEN RemoveProposal(p) /\ Becomes(result.ledger)
                 ELSE Keep /\ UNCHANGED accountVars

\* proposal_delete_evaluator
ProposalDelete(p, requester) ==
    /\ proposals[p].open
    /\ requester \in Payers(proposals[p].ops) \cup {proposals[p].author}
    /\ RemoveProposal(p)
    /\ UNCHANGED accountVars

----------------------------------------------------------------------------
\* The end of a block: clear_expired_proposals.

\* As if a proposal that expires with the block lived on.
DueProposalsLate ==
    {p \in ProposalIds : proposals[p].open /\ proposals[p].expiration_time < now}

DueProposals ==
    {p \in ProposalIds : proposals[p].open /\ proposals[p].expiration_time <= now}

\* As if there was no undo session around the operations of a proposal.
ExpireProposalNoUndo ==
    \E p \in DueProposals :
        /\ \A q \in DueProposals :
              proposals[p].expiration_time <= proposals[q].expiration_time
        /\ RemoveProposal(p)
        /\ LET result == Applied(proposals[p].ops)
           IN  IF IsAuthorized(proposals[p]) THEN Becomes(result.ledger)
               ELSE UNCHANGED accountVars

\* One turn of its loop: the proposal is executed if it can be, and removed.
ExpireProposal ==
    \E p \in DueProposals :
        /\ \A q \in DueProposals :
              proposals[p].expiration_time <= proposals[q].expiration_time
        /\ RemoveProposal(p)
        /\ LET result == Applied(proposals[p].ops)
           IN  IF IsAuthorized(proposals[p]) /\ result.ok THEN Becomes(result.ledger)
               ELSE UNCHANGED accountVars

----------------------------------------------------------------------------
\* Properties.

\* The entries by which accounts find the proposals that wait for them are those
\* of the proposals that are open: execution, deletion, the end of a review and
\* expiration all take theirs along.
ApprovalsMatchProposals ==
    required = UNION {{[account |-> a, proposal |-> p] : a \in Payers(proposals[p].ops)} :
                        p \in {q \in ProposalIds : proposals[q].open}}

\* What a proposal moves out of an account and into it.
NetOf(ops, a) ==
    SumFunction([i \in DOMAIN ops |-> (IF ops[i].to = a THEN ops[i].amount ELSE 0)
                                   - (IF ops[i].from = a THEN ops[i].amount ELSE 0)])

=============================================================================

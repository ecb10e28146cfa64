------------------------------ MODULE Committee -----------------------------
(***************************************************************************)
(* Requests to the committee fund: created for a fee, voted on with the    *)
(* weight of a share, concluded at their end and paid out of the fund in   *)
(* instalments (committee_evaluator.cpp, committee_processing).            *)
(***************************************************************************)
EXTENDS Accounts

CONSTANTS
    RequestIds,         \* 1..n: committee_requests counts the ids given
    RequestFee,         \* median_props.committee_create_request_fee
    RequestPause,       \* COMMITTEE_REQUEST_PER_TIME
    ApproveMinPercent,  \* median_props.committee_request_approve_min_percent
    PayInterval,        \* COMMITTEE_REQUEST_PROCESSING, in blocks
    ClosedDelay         \* CHAIN_CLEAR_CLOSED_COMMITTEE_REQUEST_DELAY

ASSUME CommitteeAssumption ==
    /\ IsFiniteSet(RequestIds) /\ RequestIds = 1..Cardinality(RequestIds)
    /\ {RequestFee, RequestPause, ApproveMinPercent, ClosedDelay} \subseteq Nat
    /\ PayInterval \in Nat \ {0}

VARIABLES
    requests,           \* committee_request_object by id, with its votes
    requestCount        \* dynamic_global_property_object.committee_requests

committeeVars == <<requests, requestCount>>

\* Status of a request: 0 open, 1 cancelled by its creator, 2 too few votes,
\* 3 refused, 4 approved, 5 paid; "none" where there is no object.
NoRequest == [status |-> "none"]

CommitteeInit ==
    /\ requests = [r \in RequestIds |-> NoRequest]
    /\ requestCount = 0

Live == {r \in RequestIds : requests[r].status # "none"}

WithStatus(s) == {r \in RequestIds : requests[r].status = s}

----------------------------------------------------------------------------
\* Operations.  The url of a request, unique for its creator, is left out: a
\* creator waits RequestPause between two requests anyway.

CreateRequest(creator, worker, least, most, duration) ==
    LET r == requestCount + 1
    IN  /\ r \in RequestIds
        /\ acc[creator].exists /\ acc[worker].exists
        /\ acc[creator].balance >= RequestFee
        /\ \A q \in Live : requests[q].creator = creator =>
              now - requests[q].start_time >= RequestPause
        /\ requests' = [requests EXCEPT ![r] =
              [status |-> "open", creator |-> creator, worker |-> worker,
               required_amount_min |-> least, required_amount_max |-> most,
               start_time |-> now, end_time |-> now + duration,
               votes |-> <<>>, conclusion_time |-> 0,
               conclusion_payout_amount |-> 0, remain_payout_amount |-> 0,
               payout_amount |-> 0]]
        /\ requestCount' = r
        /\ Becomes(PayCommittee(AdjustBalance(Current, creator, -RequestFee),
                                RequestFee))

CancelRequest(r) ==
    /\ requests[r].status = "open"
    /\ requests' = [requests EXCEPT ![r].status = "cancelled",
                                    ![r].conclusion_time = now]
    /\ UNCHANGED requestCount
    /\ UNCHANGED accountVars

\* A vote is a percentage, negative against the request; a second vote of the
\* same account replaces the first one and must differ from it.
VoteRequest(voter, r, percent) ==
    /\ acc[voter].exists
    /\ requests[r].status = "open"
    /\ voter \in DOMAIN requests[r].votes => requests[r].votes[voter] # percent
    /\ requests' = [requests EXCEPT ![r].votes =
          [v \in DOMAIN @ \cup {voter} |-> IF v = voter THEN percent ELSE @[v]]]
    /\ UNCHANGED requestCount
    /\ UNCHANGED accountVars

----------------------------------------------------------------------------
\* committee_processing, first loop: requests whose time is over.

DueRequests == {r \in WithStatus("open") : requests[r].end_time <= now}

MaxRshares(r) ==
    SumFunction([v \in DOMAIN requests[r].votes |-> EffectiveShares(Current, v)])

ActualRshares(r) ==
    SumFunction([v \in DOMAIN requests[r].votes |->
                    TruncDiv(EffectiveShares(Current, v) * requests[r].votes[v],
                             Full)])

CalculatedPayment(r) ==
    (requests[r].required_amount_max
        * ((Full * ActualRshares(r)) \div MaxRshares(r))) \div Full

Conclusion(r) ==
    LET least == (dgp.total_vesting_shares * ApproveMinPercent) \div Full
    IN  IF least > MaxRshares(r) THEN [status |-> "few", amount |-> 0]
        ELSE IF ActualRshares(r) <= 0 THEN [status |-> "refused", amount |-> 0]
        ELSE [status |-> IF requests[r].required_amount_min
                                > CalculatedPayment(r)
                         THEN "refused" ELSE "approved",
              amount |-> CalculatedPayment(r)]

ConcludeRequest ==
    \E r \in DueRequests :
        LET end == Conclusion(r)
        IN  /\ requests' = [requests EXCEPT
                  ![r].status = end.status,
                  ![r].conclusion_time = now,
                  ![r].conclusion_payout_amount = end.amount,
                  ![r].remain_payout_amount =
                      IF end.status = "approved" THEN end.amount ELSE 0]
            /\ UNCHANGED requestCount
            /\ UNCHANGED accountVars

\* As if every request could take its part of the whole fund, and the part
\* was not divided.
InstalmentUndivided(r) ==
    Min({dgp.committee_fund, requests[r].remain_payout_amount})

\* The fund is divided by one more than the approved requests; nobody gets
\* more than what remains to be paid.
Instalment(r) ==
    Min({dgp.committee_fund \div (Cardinality(WithStatus("approved")) + 1),
         requests[r].remain_payout_amount})

\* committee_processing, second loop: all approved requests at once, since the
\* part of each is fixed before the first is paid.
PayRequests ==
    LET paid == WithStatus("approved")
    IN  /\ requests' = [r \in RequestIds |->
              IF r \notin paid THEN requests[r]
              ELSE [requests[r] EXCEPT
                        !.payout_amount = @ + Instalment(r),
                        !.remain_payout_amount = @ - Instalment(r),
                        !.status = IF requests[r].remain_payout_amount
                                        <= Instalment(r)
                                   THEN "paid" ELSE @]]
        /\ UNCHANGED requestCount
        /\ Becomes([Current EXCEPT
              !.acc = [a \in Names |-> [acc[a] EXCEPT !.balance = @ +
                          SumFunction([r \in paid |-> IF requests[r].worker = a
                                                     THEN Instalment(r) ELSE 0])]],
              !.dgp.committee_fund =
                  @ - SumFunction([r \in paid |-> Instalment(r)])])

\* clear_closed_committee_requests: a paid request is kept for ever.
ClearClosedRequests ==
    /\ requests' = [r \in RequestIds |->
          IF /\ requests[r].status \in {"cancelled", "few", "refused"}
             /\ now - ClosedDelay > requests[r].conclusion_time
          THEN NoRequest ELSE requests[r]]
    /\ UNCHANGED requestCount

----------------------------------------------------------------------------
\* Properties.

\* The fund is never overdrawn, whatever requests are concluded and paid in the
\* same block, and a worker has received what the votes granted, neither more
\* nor less, when its request is closed as paid.
FundCoversRequests ==
    /\ dgp.committee_fund >= 0
    /\ \A r \in WithStatus("approved") \cup WithStatus("paid") :
          /\ requests[r].payout_amount + requests[r].remain_payout_amount
                = requests[r].conclusion_payout_amount
          /\ requests[r].remain_payout_amount >= 0
          /\ requests[r].status = "paid" => requests[r].remain_payout_amount = 0

=============================================================================

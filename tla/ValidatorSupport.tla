-------------------------- MODULE ValidatorSupport --------------------------
(***************************************************************************)
(* How the validators' records decide which block is irreversible          *)
(* (libraries/chain/database.cpp: update_global_dynamic_data,              *)
(* update_signing_validator, update_last_irreversible_block).              *)
(*                                                                         *)
(* A validator record keeps                                                *)
(*   run        current_run: blocks produced since the last missed slot    *)
(*   supported  last_supported_block_num                                   *)
(***************************************************************************)
EXTENDS Integers, Sequences, FiniteSets

CONSTANTS
    Validator,      \* the accounts that produce blocks
    Committee,      \* CHAIN_EMERGENCY_VALIDATOR_ACCOUNT
    Threshold,      \* CHAIN_IRREVERSIBLE_THRESHOLD, in percent
    MinRun          \* CHAIN_IRREVERSIBLE_SUPPORT_MIN_RUN

ASSUME SupportConstants ==
    /\ Committee \in Validator
    /\ Threshold \in 1 .. 100
    /\ MinRun \in Nat

Support == [Validator -> [run : Nat, supported : Nat]]

NoSupport == [v \in Validator |-> [run |-> 0, supported |-> 0]]

(* A missed slot ends the run of its validator, unless the slot belongs to *)
(* the producer of the block itself (the committee holds several slots).   *)
MissSlots(support, missed, producer) ==
    [v \in Validator |-> IF v \in missed \ {producer}
                         THEN [support[v] EXCEPT !.run = 0] ELSE support[v]]

(* Activation of the emergency mode ends every run but the committee's.    *)
EndRuns(support) ==
    [v \in Validator |-> IF v = Committee THEN support[v]
                         ELSE [support[v] EXCEPT !.run = 0]]

(* update_signing_validator: current_run is tested before it is increased. *)
SignBlock(support, producer, num) ==
    [support EXCEPT ![producer] =
        [run |-> @.run + 1,
         supported |-> IF @.run >= MinRun THEN num ELSE @.supported]]

(* The nth_element of last_supported_block_num over the schedule slots.    *)
Offset(schedule) == ((100 - Threshold) * Len(schedule)) \div 100

SlotsUpTo(support, schedule, n) ==
    {i \in 1 .. Len(schedule) : support[schedule[i]].supported <= n}

SlotsFrom(support, schedule, n) ==
    {i \in 1 .. Len(schedule) : support[schedule[i]].supported >= n}

(* Mutant of SupportedNum: nth_element with the reversed comparison.       *)
SupportedNumReversed(support, schedule) ==
    LET nums == {support[schedule[i]].supported : i \in 1 .. Len(schedule)}
        enough(n) == Cardinality(SlotsFrom(support, schedule, n)) > Offset(schedule)
    IN CHOOSE n \in nums : enough(n) /\ \A m \in nums : enough(m) => m <= n

SupportedNum(support, schedule) ==
    LET nums == {support[schedule[i]].supported : i \in 1 .. Len(schedule)}
        enough(n) == Cardinality(SlotsUpTo(support, schedule, n)) > Offset(schedule)
    IN CHOOSE n \in nums : enough(n) /\ \A m \in nums : enough(m) => n <= m

(* The new last irreversible block: never lower than the old one, and in   *)
(* the emergency mode at most head - 1.                                    *)
NewLib(support, schedule, lib, head, emergency) ==
    LET n == SupportedNum(support, schedule)
        capped == IF emergency /\ n >= head THEN head - 1 ELSE n
    IN IF capped > lib THEN capped ELSE lib
=============================================================================

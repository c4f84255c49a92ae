---------------------------- MODULE WakeContract ----------------------------
(***************************************************************************)
(* The wake contract between a sender and a gated receiver (Q-33): the     *)
(* checker ccv_common_chk_wake on the gate's own decision, with the        *)
(* sender's half as what the sender waits for and the receiver's half as   *)
(* what is shown.                                                          *)
(***************************************************************************)
EXTENDS GateEpisodes

CONSTANT Lat      \* CCV_WAKE_LAT

ASSUME LatAssumption == Lat \in Nat \ {0}

VARIABLES
    gated_q,    \* the receiver was gated last cycle: a rise starts a sleep
    owed_q,     \* a sleep began and is not yet answered
    woken_q,    \* this channel's wake has answered it
    age_q,      \* cycles since that wake, saturating
    run_q       \* cycles the receiver has run ungated, saturating

contractVars == <<gated_q, owed_q, woken_q, age_q, run_q>>
vars == <<episodeVars, contractVars>>

ContractInit ==
    /\ EpisodeInit
    /\ gated_q = FALSE /\ owed_q = FALSE /\ woken_q = FALSE
    /\ age_q = 0
    /\ run_q = Lat       \* blocks come out of reset running

SleepStart == Gated /\ ~gated_q
Answered == (woken_q /\ age_q >= Lat) \/ run_q >= Lat

\* A valid sent now could find the receiver asleep.
OwedNow == SleepStart \/ (owed_q /\ ~Answered)

\* The wake that answers a sleep is the first after it began.
FirstWake(wake) == wake /\ (SleepStart \/ (OwedNow /\ ~woken_q))
WokenNext(wake) == IF SleepStart THEN wake ELSE OwedNow /\ (woken_q \/ wake)

Capped(x) == IF x < Lat THEN x + 1 ELSE Lat

\* The checker's edge; it is reset with the gate.
Track(wake) ==
    IF rst_n_q
    THEN /\ gated_q' = Gated
         /\ owed_q' = OwedNow
         /\ woken_q' = WokenNext(wake)
         /\ age_q' = IF ~WokenNext(wake) THEN 0
                     ELSE IF FirstWake(wake) THEN 1
                     ELSE IF woken_q THEN Capped(age_q) ELSE age_q
         /\ run_q' = IF Gated THEN 0 ELSE Capped(run_q)
    ELSE /\ gated_q' = FALSE /\ owed_q' = FALSE /\ woken_q' = FALSE
         /\ age_q' = 0 /\ run_q' = Lat

ContractNext ==
    \E rst_n, quiesced, stalled, override, wake \in BOOLEAN,
       hq \in Quiesce, hs \in Stall :
        /\ EpisodeStep(rst_n, quiesced, stalled, override, hq, hs, wake)
        /\ Track(wake)

ContractSpec == ContractInit /\ [][ContractNext]_vars

-----------------------------------------------------------------------------

(***************************************************************************)
(* q33_valid_meets_clock: a sender that keeps its half of the contract,    *)
(* sending only when no sleep is unanswered, never lands a valid on an     *)
(* edge the gate withholds, whenever the block falls asleep.               *)
(***************************************************************************)
ValidMeetsClock == rst_n_q /\ ~OwedNow => ~Gated
=============================================================================

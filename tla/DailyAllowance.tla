---------------------------- MODULE DailyAllowance ----------------------------
(***************************************************************************)
(* What the faucet promises, without its accounts: a pot of each token,    *)
(* from which a holder is given at most so much in one claim and in one    *)
(* UTC day, and all holders together at most so much in one day.  At       *)
(* midnight everybody starts afresh.  The owner of the pot may be given    *)
(* what is in it and leave it there: it counts all the same.               *)
(***************************************************************************)
EXTENDS AtomicSums

CONSTANTS Holders, Owner, Tokens

VARIABLES
    day,
    open,    \* whether claims are taken
    limits,  \* per claim, per holder and day, and per day
    given,   \* what each holder was given of each token today
    pot      \* what is left of each token

avars == <<day, open, limits, given, pot>>

Nothing == [t \in Tokens |-> 0]

GivenToday(t) == Total(Holders, [w \in Holders |-> given[w][t]])

AllowanceInit ==
    /\ day \in Nat
    /\ open = FALSE
    /\ given = [w \in Holders |-> Nothing]
    /\ pot = Nothing

\* The three limits hold after the claim, whatever the limits were before.
Give(w, left) ==
    /\ open
    /\ given' = [given EXCEPT ![w] = given'[w]]
    /\ left # {} => w = Owner
    /\ pot' = [t \in Tokens |->
                 IF t \in left THEN pot[t] ELSE pot[t] - (given'[w][t] - given[w][t])]
    /\ \A t \in Tokens :
         /\ given'[w][t] - given[w][t] \in 0..limits.max_per_claim[t]
         /\ given'[w][t] <= limits.max_per_wallet_per_day[t]
         /\ GivenToday(t)' <= limits.max_global_per_day[t]
         /\ pot[t] >= given'[w][t] - given[w][t]
    /\ UNCHANGED <<day, open, limits>>

Refill ==
    /\ pot' = [t \in Tokens |-> pot'[t]]
    /\ \A t \in Tokens : pot'[t] >= pot[t]
    /\ UNCHANGED <<day, open, limits, given>>

Govern == UNCHANGED <<day, given, pot>>

Midnight ==
    /\ day' > day
    /\ given' = [w \in Holders |-> Nothing]
    /\ UNCHANGED <<open, limits, pot>>

AllowanceNext ==
    \/ \E w \in Holders, left \in SUBSET Tokens : Give(w, left)
    \/ Refill \/ Govern \/ Midnight

AllowanceSpec == AllowanceInit /\ [][AllowanceNext]_avars
=============================================================================

-------------------------------- MODULE Scores --------------------------------
(***************************************************************************)
(* The scores of pallets/reputation: what calculate_reputation_score and   *)
(* calculate_client_reputation make of a user's record, the weights that   *)
(* governance sets, and the dates the activity score looks at.  Nothing on *)
(* the chain reads a score; users and frontends do.                        *)
(***************************************************************************)
EXTENDS ReputationCalls

CONSTANTS
    Jumps,              \* bound: by how many blocks time advances
    Weightings          \* bound: the weights governance sets

VARIABLES
    ReputationWeights,  \* ReputationWeights
    registered_at,      \* registration_block of every user
    active_at,          \* last_activity_block of every user
    now                 \* frame_system's block number

scoreVars == <<repVars, ReputationWeights, registered_at, active_at, now>>

\* The weights the formulas use.  The jury weight, the arbitration bonus and the
\* activity bonus are stored next to them and read by nothing.
WeightConfig ==
    [completion_weight : Nat, dispute_penalty : Nat, time_decay_rate : Permill]

\* Default: the genesis sets no weights.
NoWeights == [completion_weight |-> 0, dispute_penalty |-> 0, time_decay_rate |-> 0]

\* A score is a u32.
ASSUME ScoreAssumption ==
    Jumps \subseteq Nat /\ Weightings \subseteq WeightConfig /\ U32Max >= 10000

AtMost(x, bound) == IF x > bound THEN bound ELSE x
FloorSub(x, y)   == IF x > y THEN x - y ELSE 0
PercentOf(n, total) == Sat(n * 100) \div total

-------------------------------------------------------------------------------
(* The freelancer's score *)

\* calculate_completion_score
CompletionScore(st, weight) ==
    LET total == Sat(st.projects_completed + st.projects_failed)
    IN  IF total = 0 THEN 0
        ELSE Sat(Sat(PercentOf(st.projects_completed, total) * 25) * weight) \div 100

\* calculate_rating_score
RatingScore(st) == IF st.total_ratings_received = 0 THEN 0 ELSE st.avg_rating_received \div 2

\* Mutant: the third bracket starts below the end of the second.
ProjectScore_Drops(n) ==
    CASE n = 0        -> 0
      [] n \in 1..5   -> n * 100
      [] n \in 6..20  -> 500 + (n - 5) * 20
      [] n \in 21..50 -> 700 + (n - 20) * 5
      [] n > 50       -> 1000

\* The two halves of calculate_volume_score, in brackets
ProjectScore(n) ==
    CASE n = 0        -> 0
      [] n \in 1..5   -> n * 100
      [] n \in 6..20  -> 500 + (n - 5) * 20
      [] n \in 21..50 -> 800 + (n - 20) * 5
      [] n > 50       -> 1000

ValueScore(earned) ==
    CASE earned = 0                          -> 0
      [] earned > 0 /\ earned <= 10000       -> earned \div 10
      [] earned > 10000 /\ earned <= 100000  -> 1000 + (earned - 10000) \div 100
      [] earned > 100000                     -> 1000

\* Mutant: the sum is not capped.
VolumeScore_Uncapped(st) == ProjectScore(st.projects_completed) + ValueScore(st.total_earned)

\* calculate_volume_score
VolumeScore(st) == AtMost(ProjectScore(st.projects_completed) + ValueScore(st.total_earned), 2000)

AgeScore(age) ==
    CASE age <= 10000                  -> 0
      [] age > 10000 /\ age <= 50000   -> 250
      [] age > 50000 /\ age <= 100000  -> 500
      [] age > 100000                  -> 750

RecencyScore(idle) ==
    CASE idle < 10000                    -> 750
      [] idle >= 10000 /\ idle < 50000   -> 500
      [] idle >= 50000 /\ idle < 100000  -> 250
      [] idle >= 100000                  -> 0

\* calculate_activity_score
ActivityScore(age, idle, decay) ==
    AtMost(((AgeScore(age) + RecencyScore(idle)) * (1000000 - decay)) \div 1000000, 1500)

\* Mutant: the penalty is for every dispute, the won ones too.
DisputeScore_PunishesAll(st, penalty) ==
    LET total == Sat(st.disputes_won + st.disputes_lost)
    IN  IF total = 0 THEN 1500
        ELSE FloorSub(AtMost(PercentOf(st.disputes_won, total) * 15, 1500), Sat(total * penalty))

\* calculate_dispute_score
DisputeScore(st, penalty) ==
    LET total == Sat(st.disputes_won + st.disputes_lost)
    IN  IF total = 0 THEN 1500
        ELSE FloorSub(AtMost(PercentOf(st.disputes_won, total) * 15, 1500),
                      Sat(st.disputes_lost * penalty))

StatsOf(a) == rep.ReputationStats[a]
DisputeScoreOf(a) == DisputeScore(StatsOf(a), ReputationWeights.dispute_penalty)

\* The part of the score that the record decides, and the part that dates decide
Merits(a) ==
    CompletionScore(StatsOf(a), ReputationWeights.completion_weight)
    + RatingScore(StatsOf(a)) + VolumeScore(StatsOf(a)) + DisputeScoreOf(a)
Activity(a) ==
    ActivityScore(FloorSub(now, registered_at[a]), FloorSub(now, active_at[a]),
                  ReputationWeights.time_decay_rate)

\* calculate_reputation_score
ReputationScore(a) == AtMost(Sat(Merits(a) + Activity(a)), 10000)

-------------------------------------------------------------------------------
(* The client's score *)

\* disputes_initiated: zero at genesis and at registration, raised by no call
DisputesInitiated(a) == 0

PaymentScore(spent) ==
    CASE spent = 0                    -> 0
      [] spent > 0 /\ spent <= 50000  -> spent \div 20
      [] spent > 50000                -> 3000

\* Mutant: the cancellations are credited.
CancellationScore_Credits(st) ==
    IF st.projects_posted = 0 THEN 2000
    ELSE AtMost(PercentOf(st.projects_failed, st.projects_posted) * 20, 2000)

CancellationScore(st) ==
    IF st.projects_posted = 0 THEN 2000
    ELSE FloorSub(2000, Sat(PercentOf(st.projects_failed, st.projects_posted) * 20))

\* calculate_client_reputation
ClientReputation(a) ==
    LET st      == StatsOf(a)
        posting == IF st.projects_posted = 0 THEN 0
                   ELSE Sat(PercentOf(st.projects_completed, st.projects_posted) * 30)
        dispute == IF DisputesInitiated(a) = 0 THEN 2000
                   ELSE Sat(PercentOf(st.disputes_won, DisputesInitiated(a)) * 20)
    IN  AtMost(Sat(posting + PaymentScore(st.total_spent) + CancellationScore(st) + dispute), 10000)

-------------------------------------------------------------------------------
(* Specification: any caller, as in ReputationCalls, with dates and weights *)

ScoreInit ==
    /\ RepInit
    /\ ReputationWeights = NoWeights
    /\ registered_at = [a \in Accounts |-> IF InitialUsers[a].registered THEN 1 ELSE 0]
    /\ active_at = registered_at
    /\ now = 1

\* The users a call is about have been active.
Active(users) ==
    /\ active_at' = [a \in Accounts |-> IF a \in users THEN now ELSE active_at[a]]
    /\ UNCHANGED <<ReputationWeights, now>>

\* register_user dates the account.
Register(a) ==
    /\ RegisterUser(a)
    /\ registered_at' = [registered_at EXCEPT ![a] = now]
    /\ Active({a})

\* The calls of ReputationInterface that count something; a vote by somebody
\* without a record counts nothing.
CountedCall ==
    /\ \/ \E a \in Accounts, v \in Values, r \in Ratings, p \in ProjectIds :
            Commit(OnProjectCompleted(Chain, a, v, r, p)) /\ Active({a})
       \/ \E a, b \in Accounts : Commit(OnDisputeOutcome(Chain, a, b)) /\ Active({a, b})
       \/ \E a \in Accounts, v \in Values : Commit(OnProjectCreated(Chain, a, v)) /\ Active({a})
       \/ \E a \in Accounts : Commit(OnProjectCancelled(Chain, a)) /\ Active({a})
       \/ \E a \in Accounts : Commit(OnWorkAccepted(Chain, a)) /\ Active({a})
       \/ \E a \in Accounts, w \in BOOLEAN :
            Registered(Chain, a) /\ IgnoredJuryVote(a, w) /\ Active({a})
    /\ UNCHANGED registered_at

\* update_weights, from GovernanceOrigin
UpdateWeights(w) ==
    /\ ReputationWeights' = w
    /\ UNCHANGED <<repVars, registered_at, active_at, now>>

\* Blocks go by.
Advance(n) ==
    /\ now' = now + n
    /\ UNCHANGED <<repVars, ReputationWeights, registered_at, active_at>>

ScoreNext ==
    \/ \E a \in Accounts : Register(a)
    \/ CountedCall
    \/ \E w \in Weightings : UpdateWeights(w)
    \/ \E n \in Jumps : Advance(n)

ScoreSpec == ScoreInit /\ [][ScoreNext]_scoreVars

-------------------------------------------------------------------------------
(* Properties *)

Registrants == {a \in Accounts : Registered(Chain, a)}

\* The parts of the score stay in the ranges their comments give (2500 for
\* completion, 2500 for ratings, 2000 for volume, 1500 for activity, 1500 for
\* disputes) whatever a user does and governance sets, as long as the completion
\* weight is a percentage; so the cap of 10000 never hides a difference.
ScoresInRange ==
    ReputationWeights.completion_weight <= 100 =>
      \A a \in Registrants :
        /\ CompletionScore(StatsOf(a), ReputationWeights.completion_weight) <= 2500
        /\ RatingScore(StatsOf(a)) <= 2500
        /\ VolumeScore(StatsOf(a)) <= 2000
        /\ DisputeScoreOf(a) <= 1500
        /\ Activity(a) <= 1500
        /\ Merits(a) + Activity(a) = ReputationScore(a)

\* What a step that counts a rated project does to the score of a.
CompletionPays(a) ==
    /\ StatsOf(a)'.total_ratings_received > StatsOf(a).total_ratings_received
    /\ StatsOf(a)'.avg_rating_received >= StatsOf(a).avg_rating_received
    /\ StatsOf(a)'.total_earned <= 100000
    /\ StatsOf(a)'.projects_completed * 100 <= U32Max
    => ReputationScore(a)' >= ReputationScore(a)

\* Finishing a project that is rated no worse than the earlier ones does not cost
\* a freelancer points, across every bracket of the volume score; up to total
\* earnings of 100000, where the value score falls from 1900 back to 1000, and while
\* a hundred times the projects completed fits in 32 bits (beyond that the
\* percentage of completed projects falls with every project).
CompletionNeverHurts == [][\A a \in Registrants : CompletionPays(a)]_scoreVars

\* What a step that counts a dispute does to the dispute score of a.
DisputeIsFair(a) ==
    LET won  == StatsOf(a)'.disputes_won > StatsOf(a).disputes_won
        lost == StatsOf(a)'.disputes_lost > StatsOf(a).disputes_lost
    IN  /\ won /\ ~ lost /\ StatsOf(a)'.disputes_won * 100 <= U32Max
             => DisputeScoreOf(a)' >= DisputeScoreOf(a)
        /\ lost /\ ~ won => DisputeScoreOf(a)' <= DisputeScoreOf(a)

\* A dispute between two users moves their dispute scores the right way: the
\* winner's does not fall (while a hundred times the disputes won fits in 32 bits)
\* and the loser's does not rise, whatever their history and the penalty governance
\* has set.
DisputesScoredFairly == [][\A a \in Registrants : DisputeIsFair(a)]_scoreVars

\* What a step that counts a failed project does to the scores of a.
HarmCosts(a) ==
    /\ StatsOf(a)'.projects_failed > StatsOf(a).projects_failed
    /\ StatsOf(a)'.disputes_won = StatsOf(a).disputes_won
    => ClientReputation(a)' <= ClientReputation(a) /\ Merits(a)' <= Merits(a)

\* Cancelling a project and losing a dispute never pay: they raise neither the
\* client's score nor what the record earns.  Only the activity score may rise,
\* since every call counts as activity.
HarmNeverHelps == [][\A a \in Registrants : HarmCosts(a)]_scoreVars
===============================================================================

----------------------------- MODULE GaussianEFE -----------------------------
(***************************************************************************)
(* The expected free energy of a candidate plan (GaussianEFE): the         *)
(* expected posterior entropy is averaged over samples that THREAD_COUNT   *)
(* workers draw at the same time, while the caller waits for their futures *)
(* in order.                                                               *)
(*                                                                         *)
(* An entropy is any number of Entropies; costs have a preferred mean and, *)
(* to stay with whole numbers, unit covariance.                            *)
(***************************************************************************)
EXTENDS Integers, FiniteSetsExt, SequencesExt, Functions

CONSTANTS
    THREAD_COUNT,  \* 20 in the code
    Entropies      \* what entropy() may return

ASSUME EFEAssumption ==
    /\ THREAD_COUNT \in Nat \ {0}
    /\ Entropies \subseteq Int /\ Entropies # {}

Thread == 0 .. THREAD_COUNT - 1

VARIABLES
    prior_entropy,         \* parameters_mvn.entropy()
    thread_samples,        \* the samples each worker was given
    launched,              \* the workers started so far
    s,                     \* per worker, the samples it has drawn
    entropy_sums,          \* per worker, its unnormalized_entropy
    returned,              \* the workers whose future is ready
    joined,                \* the futures the caller got
    unnormalized_entropy   \* the caller's

efe_vars == <<prior_entropy, thread_samples, launched, s, entropy_sums,
              returned, joined, unnormalized_entropy>>

-----------------------------------------------------------------------------
\* Slip seen by SamplesAreAllAveraged: nobody draws the remainder.
EqualShares(n_samples) == [t \in Thread |-> n_samples \div THREAD_COUNT]

\* The remainder goes to the first worker.
Shares(n_samples) ==
    LET samples_per_thread == n_samples \div THREAD_COUNT
    IN  [t \in Thread |-> IF t = 0 THEN samples_per_thread
                                        + (n_samples - THREAD_COUNT * samples_per_thread)
                          ELSE samples_per_thread]

\* Before the first evaluation there are no workers.
EFEInit ==
    /\ prior_entropy = 0
    /\ thread_samples = [t \in Thread |-> 0]
    /\ launched = THREAD_COUNT
    /\ s = [t \in Thread |-> 0]
    /\ entropy_sums = [t \in Thread |-> 0]
    /\ returned = Thread
    /\ joined = THREAD_COUNT
    /\ unnormalized_entropy = 0

\* calculate() up to the loop that starts the workers.
Calculate(n_samples) ==
    /\ prior_entropy' \in Entropies
    /\ thread_samples' = Shares(n_samples)
    /\ launched' = 0
    /\ s' = [t \in Thread |-> 0]
    /\ entropy_sums' = [t \in Thread |-> 0]
    /\ returned' = {}
    /\ joined' = 0
    /\ unnormalized_entropy' = 0

\* std::async: the next worker starts.
Launch ==
    /\ launched < THREAD_COUNT
    /\ launched' = launched + 1
    /\ UNCHANGED <<prior_entropy, thread_samples, s, entropy_sums, returned, joined,
                   unnormalized_entropy>>

\* A worker draws an observation of every step of the plan, and adds the
\* entropy of the estimate they would lead to.
DrawSample(t) ==
    /\ t < launched /\ t \notin returned
    /\ s[t] < thread_samples[t]
    /\ \E entropy \in Entropies : entropy_sums' = [entropy_sums EXCEPT ![t] = @ + entropy]
    /\ s' = [s EXCEPT ![t] = @ + 1]
    /\ UNCHANGED <<prior_entropy, thread_samples, launched, returned, joined, unnormalized_entropy>>

\* Slip seen by EvaluationsEnd: the loop is left after a sample only.
ReturnAfterSample(t) ==
    /\ t < launched /\ t \notin returned
    /\ s[t] >= thread_samples[t] /\ s[t] > 0
    /\ returned' = returned \cup {t}
    /\ UNCHANGED <<prior_entropy, thread_samples, launched, s, entropy_sums, joined,
                   unnormalized_entropy>>

\* A worker returns: its future is ready.
ReturnSum(t) ==
    /\ t < launched /\ t \notin returned
    /\ s[t] >= thread_samples[t]
    /\ returned' = returned \cup {t}
    /\ UNCHANGED <<prior_entropy, thread_samples, launched, s, entropy_sums, joined,
                   unnormalized_entropy>>

\* futures[thread].get(), in the order of the threads.
Join ==
    /\ launched = THREAD_COUNT
    /\ joined \in returned
    /\ unnormalized_entropy' = unnormalized_entropy + entropy_sums[joined]
    /\ joined' = joined + 1
    /\ UNCHANGED <<prior_entropy, thread_samples, launched, s, entropy_sums, returned>>

AllJoined == joined = THREAD_COUNT

-----------------------------------------------------------------------------
\* Twice the preference likelihood, without what no candidate changes.
preferenceLikelihood(pref_mu, mu) ==
    FoldLeft(LAMBDA x, y : x + y, 0,
             [d \in DOMAIN mu |-> (mu[d] - pref_mu[d]) * (mu[d] - pref_mu[d])])

\* What calculate() returns, 2 * n_samples times: the entropy the workers averaged
\* is negated in expectedPosteriorEntropy, so it adds to the information gain.
efe(pref_mu, mu, n_samples) ==
    LET posterior_entropy == - unnormalized_entropy
        info_gain == n_samples * prior_entropy - posterior_entropy
    IN  n_samples * preferenceLikelihood(pref_mu, mu) - 2 * info_gain
=============================================================================

---------------------------- MODULE TrainingData ----------------------------
(***************************************************************************)
(* What a training run makes of its photos: the split into training and    *)
(* holdout images and the batches (training/dataset.py), the triplets of a *)
(* batch (BatchHardTripletLoss, model/losses.py) and the evaluation of an  *)
(* epoch (training/evaluator.py).  The run as a task is TrainingJobs.      *)
(*                                                                         *)
(* The network is external: any distances between the images of a batch,   *)
(* any scores of the pairs that are held out.  Shuffles and draws make     *)
(* images exchangeable: those of an identity are numbered in the order in  *)
(* which they are drawn.                                                   *)
(***************************************************************************)
EXTENDS Integers, Sequences, FiniteSetsExt

CONSTANTS
    Identity,
    Trainings,   \* p and k of the sampler; ratio (val_ratio) and far (target_far), in
                 \* percent and exact: the floats of the defaults, 0.2 and 0.001, are
                 \* not below them; photos, how many the directory of each holds
    MinImages,   \* MIN_IMAGES_PER_IDENTITY
    MaxDistance, \* distances are 0 .. MaxDistance
    MaxScore,    \* similarities are 0 .. MaxScore
    PairLimit    \* max_pairs of an evaluation

DataAssumption ==
    /\ IsFiniteSet(Identity)
    /\ MinImages \in Nat /\ MinImages >= 3
    /\ MaxDistance \in Nat /\ MaxScore \in Nat /\ PairLimit \in Nat
    /\ \A c \in Trainings :
         /\ c.p \in Nat /\ c.k \in Nat /\ c.ratio \in 0 .. 100 /\ c.far \in Nat
         /\ c.photos \in [Identity -> Nat]

VARIABLES
    config,     \* of the run
    photos,     \* of the identities that have enough
    stage,      \* what comes next
    left,       \* batches left in the epoch
    batch,      \* images of the last batch
    distance,   \* between two of them
    mined,      \* the distances that the loss takes for each of them
    evaluation  \* of the epoch

vars == <<config, photos, stage, left, batch, distance, mined, evaluation>>

Nothing == [valid |-> FALSE]

Init ==
    /\ config = [e \in {} |-> 0]
    /\ photos = [i \in {} |-> 0]
    /\ stage = "idle" /\ left = 0
    /\ batch = {} /\ distance = [e \in {} |-> 0] /\ mined = [a \in {} |-> 0]
    /\ evaluation = Nothing

-----------------------------------------------------------------------------
(* build_train_val_datasets and PKBatchSampler.                            *)

\* Four images leave one out, whatever the ratio.
HeldOut(i) ==
    IF photos[i] > 4 THEN Max({1, (photos[i] * config.ratio) \div 100}) ELSE 1

Kept      == DOMAIN photos
Usable    == {i \in Kept : photos[i] - HeldOut(i) >= 2}
Batches   == Max({1, Cardinality(Usable) \div Max({1, config.p})})

\* Fewer than two identities with enough images: the run fails.
BuildDatasets(c) ==
    LET kept == {i \in Identity : c.photos[i] >= MinImages} IN
    /\ stage = "idle"
    /\ Cardinality(kept) >= 2
    /\ config' = c
    /\ photos' = [i \in kept |-> c.photos[i]]
    /\ stage' = "epoch"
    /\ UNCHANGED <<left, batch, distance, mined, evaluation>>

StartEpoch ==
    /\ stage = "epoch"
    /\ left' = IF Usable = {} THEN 0 ELSE Batches
    /\ stage' = IF Usable = {} THEN "evaluate" ELSE "sample"
    /\ UNCHANGED <<config, photos, batch, distance, mined, evaluation>>

Taken(i) == 1 .. Min({config.k, photos[i] - HeldOut(i)})

\* A p or k of 0 makes an empty batch, which the loader cannot collate.
SampleBatch ==
    /\ stage = "sample" /\ config.p > 0 /\ config.k > 0
    /\ \E chosen \in kSubset(Min({config.p, Cardinality(Usable)}), Usable) :
         batch' = UNION {{i} \X Taken(i) : i \in chosen}
    /\ \E d \in [kSubset(2, batch') -> 0 .. MaxDistance] : distance' = d
    /\ stage' = "mine"
    /\ UNCHANGED <<config, photos, left, mined, evaluation>>

-----------------------------------------------------------------------------
(* BatchHardTripletLoss.                                                   *)

Distance(a, b) == IF a = b THEN 0 ELSE distance[{a, b}]
Same(a, b)     == a[1] = b[1]
Farthest       == Max({Distance(a, b) : a, b \in batch})

\* The masked distances of an anchor: others' and its own do not count.
HardestPositive(a) == Max({IF Same(a, b) /\ a # b THEN Distance(a, b) ELSE 0 : b \in batch})

\* Mutant: what is no negative counts as distance 0, as in TripletLoss.
HardestNegativeZeroed(a) == Min({IF Same(a, b) THEN 0 ELSE Distance(a, b) : b \in batch})

\* What is no negative is moved away by the greatest distance of the batch.
HardestNegative(a) ==
    Min({Distance(a, b) + IF Same(a, b) THEN Farthest ELSE 0 : b \in batch})

MineTriplets ==
    /\ stage = "mine"
    /\ mined' = [a \in batch |-> [positive |-> HardestPositive(a), negative |-> HardestNegative(a)]]
    /\ left' = left - 1
    /\ stage' = "mined"
    /\ UNCHANGED <<config, photos, batch, distance, evaluation>>

NextBatch ==
    /\ stage = "mined"
    /\ batch' = {} /\ distance' = [e \in {} |-> 0] /\ mined' = [a \in {} |-> 0]
    /\ stage' = IF left = 0 THEN "evaluate" ELSE "sample"
    /\ UNCHANGED <<config, photos, left, evaluation>>

-----------------------------------------------------------------------------
(* evaluate.                                                               *)

Holdout       == UNION {{i} \X (1 .. HeldOut(i)) : i \in Kept}
Pairs         == kSubset(2, Holdout)
PositivePairs == {q \in Pairs : \A a, b \in q : Same(a, b)}
NegativePairs == Pairs \ PositivePairs

\* How many of each are scored: all, or so many that are drawn.
Scored ==
    {s \in [positive : 0 .. Cardinality(PositivePairs), negative : 0 .. Cardinality(NegativePairs)] :
       s.positive + s.negative = Min({Cardinality(PositivePairs) + Cardinality(NegativePairs), PairLimit})}

\* The ascending sequences of n scores, by how many lie below each score.
Ascending(n) ==
    {[k \in 1 .. n |-> Cardinality({c \in 1 .. MaxScore : below[c] < k})] :
        below \in [1 .. MaxScore -> 0 .. n]}

FarPosition(negatives) == (config.far * Len(negatives)) \div 100

\* Mutant: one place too far down.
ThresholdOneDown(negatives) ==
    LET pos == FarPosition(negatives) IN
    IF pos > 0 THEN negatives[Max({1, Len(negatives) - pos - 1})] ELSE -1

\* sorted_neg[-far_position - 1], or -1.0 when there are too few negatives.
Threshold(negatives) ==
    LET pos == FarPosition(negatives) IN
    IF pos > 0 THEN negatives[Len(negatives) - pos] ELSE -1

AtLeast(scores, t) == {k \in DOMAIN scores : scores[k] >= t}
Above(scores, t)   == {k \in DOMAIN scores : scores[k] > t}

\* Too few images, or no two of one identity: not valid.  No score is far enough
\* from the last when the target is all of them: the index raises.
Returns(s, result) ==
    IF Cardinality(Holdout) < 4 \/ s.positive = 0 \/ s.negative = 0
      THEN result = Nothing
      ELSE \E pos \in Ascending(s.positive), neg \in Ascending(s.negative) :
             /\ FarPosition(neg) < Len(neg)
             /\ result = [valid |-> TRUE, positives |-> s.positive, negatives |-> neg,
                          threshold |-> Threshold(neg),
                          accepted |-> Cardinality(AtLeast(pos, Threshold(neg)))]

Evaluate ==
    /\ stage = "evaluate"
    /\ \E s \in Scored : Returns(s, evaluation')
    /\ stage' = "evaluated"
    /\ UNCHANGED <<config, photos, left, batch, distance, mined>>

\* Another epoch, or the run is over.
EpochOver ==
    /\ stage = "evaluated"
    /\ evaluation' = Nothing
    /\ \/ stage' = "epoch" /\ UNCHANGED <<photos, config>>
       \/ stage' = "idle" /\ photos' = [i \in {} |-> 0] /\ config' = [e \in {} |-> 0]
    /\ UNCHANGED <<left, batch, distance, mined>>

\* An exception ends the run.
Fails ==
    /\ stage # "idle"
    /\ stage' = "idle" /\ left' = 0
    /\ config' = [e \in {} |-> 0] /\ photos' = [i \in {} |-> 0]
    /\ batch' = {} /\ distance' = [e \in {} |-> 0] /\ mined' = [a \in {} |-> 0]
    /\ evaluation' = Nothing

-----------------------------------------------------------------------------
Next ==
    \/ \E c \in Trainings : BuildDatasets(c)
    \/ StartEpoch
    \/ SampleBatch
    \/ MineTriplets
    \/ NextBatch
    \/ Evaluate
    \/ EpochOver
    \/ Fails

Spec == Init /\ [][Next]_vars

-----------------------------------------------------------------------------
TypeOK ==
    /\ stage # "idle" => config \in Trainings
    /\ Kept \subseteq Identity
    /\ stage \in {"idle", "epoch", "sample", "mine", "mined", "evaluate", "evaluated"}
    /\ left \in 0 .. Cardinality(Identity)
    /\ \A a \in batch : a[1] \in Usable /\ a[2] \in 1 .. photos[a[1]] - HeldOut(a[1])

\* Two identities at least have enough images.
Split ==
    /\ config \in Trainings
    /\ photos = [i \in {i \in Identity : config.photos[i] >= MinImages} |-> config.photos[i]]
    /\ Cardinality(Kept) >= 2

\* A batch holds the first images of some identities that can be used.
Sampled ==
    /\ \E chosen \in kSubset(Min({config.p, Cardinality(Usable)}), Usable) :
         batch = UNION {{i} \X Taken(i) : i \in chosen}
    /\ distance \in [kSubset(2, batch) -> 0 .. MaxDistance]

\* The inductive invariant.
IInv ==
    /\ TypeOK
    /\ stage # "idle" => Split
    /\ IF stage \in {"mine", "mined"} THEN Sampled ELSE batch = {}
    /\ stage \in {"sample", "mine"} => left > 0
    /\ stage = "mined" =>
         mined = [a \in batch |-> [positive |-> HardestPositive(a), negative |-> HardestNegative(a)]]
    /\ stage = "evaluated" => \E s \in Scored : Returns(s, evaluation)

IsFarthest(d, a, B) == \E b \in B : d = Distance(a, b) /\ \A x \in B : Distance(a, x) <= d
IsNearest(d, a, B)  == \E b \in B : d = Distance(a, b) /\ \A x \in B : Distance(a, x) >= d

\* Batch-hard mining (dataset.py:125-150, losses.py:109-125): a sampler that is
\* asked for two identities and two images of each, with at most half of the
\* images held out, gives every anchor its farthest image of its own identity
\* and its nearest of another; there are both in every batch.
TripletsAreHardest ==
    stage = "mined" /\ config.p >= 2 /\ config.k >= 2 /\ config.ratio <= 50 =>
      \A a \in batch :
        /\ IsFarthest(mined[a].positive, a, {b \in batch \ {a} : Same(a, b)})
        /\ IsNearest(mined[a].negative, a, {b \in batch : ~ Same(a, b)})

\* The threshold of an evaluation (evaluator.py:80-86): where enough negatives are
\* scored for the target, those that score above it are within the target, and those
\* that reach it are not; where they are not, and that is below a thousand for the
\* target of 0.001, the threshold lets every pair through.  An evaluation is valid
\* only if some identity has two images held out, in 20 percent of at least ten, and
\* with four images in all it is, unless no pair of the two was drawn.
ThresholdSeparates ==
    stage = "evaluated" =>
      LET enough == Cardinality(Holdout) >= 4 /\ \E i \in Kept : HeldOut(i) >= 2 IN
      /\ evaluation.valid => enough
      /\ enough /\ Cardinality(PositivePairs) + Cardinality(NegativePairs) <= PairLimit =>
           evaluation.valid
      /\ evaluation.valid =>
           LET neg == evaluation.negatives
               pos == FarPosition(neg) IN
           IF pos > 0
             THEN /\ Cardinality(Above(neg, evaluation.threshold)) <= pos
                  /\ Cardinality(AtLeast(neg, evaluation.threshold)) > pos
             ELSE evaluation.accepted = evaluation.positives

\* evaluator.py:80 "lowest score keeping FAR <= target_far".
ThresholdKeepsFar ==
    stage = "evaluated" /\ evaluation.valid =>
      100 * Cardinality(AtLeast(evaluation.negatives, evaluation.threshold))
        <= config.far * Len(evaluation.negatives)
=============================================================================

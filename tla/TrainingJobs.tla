---------------------------- MODULE TrainingJobs ----------------------------
(***************************************************************************)
(* Training jobs: POST /admin/training-jobs (api/routes/admin.py), the     *)
(* Celery task (workers/tasks/training_tasks.py) and the epoch loop        *)
(* (training/trainer.py).                                                  *)
(*                                                                         *)
(* The handler commits the row and then enqueues.  A worker acknowledges a *)
(* message when the task is over (task_acks_late), and the message of a    *)
(* lost worker goes back to the queue (task_reject_on_worker_lost).  The   *)
(* broker is external: it may hand out a second time a message that is not *)
(* acknowledged in time.                                                   *)
(***************************************************************************)
EXTENDS Naturals, Sequences, FiniteSetsExt

CONSTANTS
    Job,
    Worker,
    MaxEpochs,       \* cfg.epochs
    MaxScore,        \* an epoch scores 1 .. MaxScore, or 0 when its evaluation is not valid
    MaxSeconds,      \* bound: seconds in which runs may start
    MaxRedeliveries  \* bound: messages handed out again

TrainingAssumption ==
    /\ MaxEpochs \in Nat \ {0} /\ MaxScore \in Nat
    /\ MaxSeconds \in Nat \ {0} /\ MaxRedeliveries \in Nat

VARIABLES
    creating,    \* jobs whose row is committed and whose handler has not enqueued
    row,         \* training_jobs: status and, once completed, the paths
    waiting,     \* messages in the training queue
    worker,      \* what a worker is at
    runs,        \* the Trainer objects so far, with the score of each epoch
    files,       \* what the output directory of a second holds
    now,         \* the second in which a run last started
    redelivered, \* history: how often the message of a job was handed out again;
                 \* one that was published twice counts as two
    stranded     \* history: jobs that a broker, database or worker failure cut off

vars == <<creating, row, waiting, worker, runs, files, now, redelivered, stranded>>

Status == {"absent", "pending", "running", "completed", "failed"}
Free   == [at |-> "free"]
NoFile == [run |-> 0, epoch |-> 0]
Empty  == [name \in {"best.pt", "last.pt", "onnx"} |-> NoFile]
Trains      == {"training", "exporting", "finishing"}
Of(j, w)    == worker[w] # Free /\ worker[w].job = j
Training(j) == {w \in Worker : Of(j, w) /\ worker[w].at \in {"loading"} \cup Trains}
RunsOf(j)   == {r \in DOMAIN runs : runs[r].job = j}

Init ==
    /\ creating = {}
    /\ row = [j \in Job |-> [status |-> "absent"]]
    /\ waiting = [j \in Job |-> 0]
    /\ worker = [w \in Worker |-> Free]
    /\ runs = <<>>
    /\ files = [d \in 1 .. MaxSeconds |-> Empty]
    /\ now = 1
    /\ redelivered = [j \in Job |-> 0]
    /\ stranded = {}

SetStatus(j, status) == row' = [row EXCEPT ![j] = [status |-> status]]
Goes(w, where)       == worker' = [worker EXCEPT ![w].at = where]

-----------------------------------------------------------------------------
(* The API handler.                                                        *)

CreateTrainingJob(j) ==
    /\ row[j].status = "absent"
    /\ SetStatus(j, "pending")
    /\ creating' = creating \cup {j}
    /\ UNCHANGED <<waiting, worker, runs, files, now, redelivered, stranded>>

Enqueue(j) ==
    /\ j \in creating
    /\ creating' = creating \ {j}
    /\ waiting' = [waiting EXCEPT ![j] = @ + 1]
    /\ UNCHANGED <<row, worker, runs, files, now, redelivered, stranded>>

\* The broker's answer is lost and Celery publishes again.
EnqueueTwice(j) ==
    /\ j \in creating
    /\ creating' = creating \ {j}
    /\ waiting' = [waiting EXCEPT ![j] = @ + 2]
    /\ redelivered' = [redelivered EXCEPT ![j] = 2]
    /\ UNCHANGED <<row, worker, runs, files, now, stranded>>

\* The broker does not answer, or the process ends here: the row is committed.
EnqueueFails(j) ==
    /\ j \in creating
    /\ creating' = creating \ {j}
    /\ stranded' = stranded \cup {j}
    /\ UNCHANGED <<row, waiting, worker, runs, files, now, redelivered>>

-----------------------------------------------------------------------------
(* start_training_task.                                                    *)

\* Mutant: a running job is started again.
ReceiveUnchecked(w, j) ==
    /\ worker[w] = Free
    /\ waiting[j] > 0
    /\ waiting' = [waiting EXCEPT ![j] = @ - 1]
    /\ worker' = [worker EXCEPT ![w] = [at |-> "starting", job |-> j]]
    /\ UNCHANGED <<creating, row, runs, files, now, redelivered, stranded>>

\* A running job is refused and its message acknowledged.
Receive(w, j) ==
    /\ worker[w] = Free
    /\ waiting[j] > 0
    /\ waiting' = [waiting EXCEPT ![j] = @ - 1]
    /\ worker' = IF row[j].status = "running" THEN worker
                 ELSE [worker EXCEPT ![w] = [at |-> "starting", job |-> j]]
    /\ UNCHANGED <<creating, row, runs, files, now, redelivered, stranded>>

\* The first transaction commits, whatever the status is by now.
StartCommit(w) ==
    /\ worker[w].at = "starting"
    /\ SetStatus(worker[w].job, "running")
    /\ Goes(w, "loading")
    /\ UNCHANGED <<creating, waiting, runs, files, now, redelivered, stranded>>

\* The task returns an error as its result: the message is acknowledged.
StartFails(w) ==
    /\ worker[w].at = "starting"
    /\ stranded' = stranded \cup {worker[w].job}
    /\ worker' = [worker EXCEPT ![w] = Free]
    /\ UNCHANGED <<creating, row, waiting, runs, files, now, redelivered>>

\* Trainer.__init__: the output directory is named after the second, and one
\* that exists is used.  The clock has moved on since the last one, or has not.
BeginTraining(w) ==
    /\ worker[w].at = "loading"
    /\ now' \in now .. MaxSeconds
    /\ runs' = Append(runs, [job |-> worker[w].job, second |-> now', scores |-> <<>>])
    /\ worker' = [worker EXCEPT ![w] =
                    [at |-> "training", job |-> worker[w].job, run |-> Len(runs) + 1,
                     best |-> 0, name |-> "last.pt"]]
    /\ UNCHANGED <<creating, row, waiting, files, redelivered, stranded>>

Epoch(w) == Len(runs[worker[w].run].scores)

Save(w, name, epoch) ==
    files' = [files EXCEPT ![runs[worker[w].run].second][name] =
                [run |-> worker[w].run, epoch |-> epoch]]

\* Mutant: the best metric is not remembered.
TrainEpochForgets(w) ==
    /\ worker[w].at = "training" /\ Epoch(w) < MaxEpochs
    /\ \E score \in 0 .. MaxScore :
         /\ runs' = [runs EXCEPT ![worker[w].run].scores = Append(@, score)]
         /\ IF score > 0
              THEN /\ worker' = [worker EXCEPT ![w].name = "best.pt"]
                   /\ Save(w, "best.pt", Epoch(w) + 1)
              ELSE UNCHANGED <<worker, files>>
    /\ UNCHANGED <<creating, row, waiting, now, redelivered, stranded>>

TrainEpoch(w) ==
    /\ worker[w].at = "training" /\ Epoch(w) < MaxEpochs
    /\ \E score \in 0 .. MaxScore :
         /\ runs' = [runs EXCEPT ![worker[w].run].scores = Append(@, score)]
         /\ IF score > worker[w].best
              THEN /\ worker' = [worker EXCEPT ![w].best = score, ![w].name = "best.pt"]
                   /\ Save(w, "best.pt", Epoch(w) + 1)
              ELSE UNCHANGED <<worker, files>>
    /\ UNCHANGED <<creating, row, waiting, now, redelivered, stranded>>

\* After the last epoch: last.pt only when no epoch was valid.
SaveCheckpoint(w) ==
    /\ worker[w].at = "training" /\ Epoch(w) = MaxEpochs
    /\ Goes(w, "exporting")
    /\ IF worker[w].name = "last.pt" THEN Save(w, "last.pt", MaxEpochs) ELSE UNCHANGED files
    /\ UNCHANGED <<creating, row, waiting, runs, now, redelivered, stranded>>

\* The weights of the last epoch are exported, or the export fails and is logged.
ExportOnnx(w) ==
    /\ worker[w].at = "exporting"
    /\ Goes(w, "finishing")
    /\ Save(w, "onnx", MaxEpochs) \/ UNCHANGED files
    /\ UNCHANGED <<creating, row, waiting, runs, now, redelivered, stranded>>

CompleteCommit(w) ==
    /\ worker[w].at = "finishing"
    /\ row' = [row EXCEPT ![worker[w].job] =
                 [status |-> "completed", run |-> worker[w].run, name |-> worker[w].name]]
    /\ Goes(w, "acknowledging")
    /\ UNCHANGED <<creating, waiting, runs, files, now, redelivered, stranded>>

\* Mutant: an exception of the run is logged and no more.
RunFailsQuietly(w) ==
    /\ worker[w].at \in {"loading", "training", "exporting", "finishing"}
    /\ Goes(w, "acknowledging")
    /\ UNCHANGED <<creating, row, waiting, runs, files, now, redelivered, stranded>>

\* The row does not load, the configuration or the data are no good, an epoch
\* raises, or the commit of the result does.
RunFails(w) ==
    /\ worker[w].at \in {"loading", "training", "exporting", "finishing"}
    /\ Goes(w, "failing")
    /\ UNCHANGED <<creating, row, waiting, runs, files, now, redelivered, stranded>>

FailCommit(w) ==
    /\ worker[w].at = "failing"
    /\ SetStatus(worker[w].job, "failed")
    /\ Goes(w, "acknowledging")
    /\ UNCHANGED <<creating, waiting, runs, files, now, redelivered, stranded>>

\* Nor can the failure be written: the exception ends the task.
FailFails(w) ==
    /\ worker[w].at = "failing"
    /\ stranded' = stranded \cup {worker[w].job}
    /\ worker' = [worker EXCEPT ![w] = Free]
    /\ UNCHANGED <<creating, row, waiting, runs, files, now, redelivered>>

Acknowledge(w) ==
    /\ worker[w].at = "acknowledging"
    /\ worker' = [worker EXCEPT ![w] = Free]
    /\ UNCHANGED <<creating, row, waiting, runs, files, now, redelivered, stranded>>

-----------------------------------------------------------------------------
(* The worker processes and the broker.                                    *)

Redeliveries(j) ==
    /\ MapThenSumSet(LAMBDA k : redelivered[k], Job) < MaxRedeliveries
    /\ redelivered' = [redelivered EXCEPT ![j] = @ + 1]
    /\ waiting' = [waiting EXCEPT ![j] = @ + 1]

\* Killed, by the system or for its memory.
WorkerLost(w) ==
    /\ worker[w] # Free
    /\ Redeliveries(worker[w].job)
    /\ worker' = [worker EXCEPT ![w] = Free]
    /\ stranded' = IF row[worker[w].job].status = "running"
                     THEN stranded \cup {worker[w].job} ELSE stranded
    /\ UNCHANGED <<creating, row, runs, files, now>>

\* The visibility timeout of the broker is over and the task is not.
BrokerRedelivers(j) ==
    /\ \E w \in Worker : Of(j, w) /\ worker[w].at # "starting"
    /\ Redeliveries(j)
    /\ UNCHANGED <<creating, row, worker, runs, files, now, stranded>>

-----------------------------------------------------------------------------
Work(w) ==
    \/ StartCommit(w) \/ StartFails(w) \/ BeginTraining(w) \/ TrainEpoch(w)
    \/ SaveCheckpoint(w) \/ ExportOnnx(w) \/ CompleteCommit(w) \/ RunFails(w)
    \/ FailCommit(w) \/ FailFails(w) \/ Acknowledge(w)

Next ==
    \/ \E j \in Job : CreateTrainingJob(j)
    \/ \E j \in Job : Enqueue(j) \/ EnqueueTwice(j) \/ EnqueueFails(j)
    \/ \E w \in Worker, j \in Job : Receive(w, j)
    \/ \E w \in Worker : Work(w) \/ WorkerLost(w)
    \/ \E j \in Job : BrokerRedelivers(j)

Spec == Init /\ [][Next]_vars

\* A handler goes on to enqueue or fails; a free worker takes what waits; a task
\* goes on, as every epoch ends.
Fairness ==
    /\ \A j \in Job : WF_vars(Enqueue(j) \/ EnqueueTwice(j) \/ EnqueueFails(j))
    /\ \A j \in Job : WF_vars(\E w \in Worker : Receive(w, j))
    /\ \A w \in Worker : WF_vars(Work(w))

FairSpec == Spec /\ Fairness

-----------------------------------------------------------------------------
Name == {"best.pt", "last.pt"}
Run  == [job : Job, second : 1 .. MaxSeconds, scores : Seq(0 .. MaxScore)]
RowState ==
    [status : Status \ {"completed"}]
    \cup [status : {"completed"}, run : DOMAIN runs, name : Name]
WorkerState ==
    {Free}
    \cup [at : {"starting", "loading", "failing", "acknowledging"}, job : Job]
    \cup [at : Trains \cup {"failing", "acknowledging"}, job : Job,
          run : DOMAIN runs, best : 0 .. MaxScore, name : Name]

TypeOK ==
    /\ creating \subseteq Job /\ stranded \subseteq Job
    /\ row \in [Job -> RowState]
    /\ waiting \in [Job -> Nat]
    /\ worker \in [Worker -> WorkerState]
    /\ runs \in Seq(Run) /\ \A r \in DOMAIN runs : Len(runs[r].scores) <= MaxEpochs
    /\ files \in [1 .. MaxSeconds -> [DOMAIN Empty -> [run : Nat, epoch : 0 .. MaxEpochs]]]
    /\ now \in 1 .. MaxSeconds
    /\ redelivered \in [Job -> Nat]

\* What stands for a job before a worker has written that it runs, and after.
Begun(j) == {w \in Worker : Of(j, w) /\ worker[w].at = "starting"}
Busy(j)  == {w \in Worker : Of(j, w) /\ worker[w].at \in {"loading", "failing"} \cup Trains}

\* A job that is not there has no message, worker or run; one that is being
\* created has none yet.
NothingBeforeCreation ==
    \A j \in Job : row[j].status = "absent" \/ j \in creating =>
      /\ waiting[j] = 0 /\ RunsOf(j) = {} /\ \A w \in Worker : ~ Of(j, w)
      /\ row[j].status = "absent" => j \notin creating

\* A message that is handed out once is in one place, and behind its only run.
OneMessage ==
    \A j \in Job : redelivered[j] = 0 =>
      /\ waiting[j] <= 1
      /\ \A w \in Worker : Of(j, w) => waiting[j] = 0 /\ \A x \in Worker : Of(j, x) => x = w
      /\ \A r \in RunsOf(j) :
           /\ \A q \in RunsOf(j) : q = r
           /\ waiting[j] = 0
           /\ \A w \in Worker : Of(j, w) => worker[w].at \notin {"starting", "loading"}

\* Handed out twice, one of the two has done its work or is refused.
OneAtATime ==
    \A j \in Job : redelivered[j] <= 1 =>
      /\ waiting[j] <= 1 /\ (waiting[j] = 1 => Begun(j) = {})
      /\ \A w, x \in Begun(j) \cup Busy(j) : w = x
      /\ Busy(j) # {} => row[j].status = "running"

\* A run is one worker's, and over when it has completed a job.
RunsApart ==
    \A w \in Worker : worker[w] # Free /\ worker[w].at \in Trains =>
      /\ \A x \in Worker : worker[x] # Free /\ worker[x].at \in Trains /\ x # w =>
           worker[x].run # worker[w].run
      /\ \A j \in Job : row[j].status = "completed" => row[j].run # worker[w].run

\* Late acknowledgement and the status column (training_tasks.py:45-51): a job
\* whose message was handed out once is trained once, and one whose message was
\* handed out twice is at no time trained by two workers.  (Three times, or two
\* messages from the start, may be one too many: two workers read a row that does
\* not run before either starts.)
TrainedByOneWorker ==
    \A j \in Job :
      /\ redelivered[j] = 0 => Cardinality(RunsOf(j)) <= 1
      /\ redelivered[j] <= 1 => Cardinality(Training(j)) <= 1

Alone(r)   == \A q \in DOMAIN runs \ {r} : runs[q].second # runs[r].second
IsBest(r, e) == \A k \in DOMAIN runs[r].scores : runs[r].scores[k] <= runs[r].scores[e]
Stored(j, name) == files[runs[row[j].run].second][name]

\* The checkpoint path of a completed job leads to the weights of the best epoch
\* of the very run that completed it, unless another run started in the same
\* second and wrote to the same directory (trainer.py:128-129, 201-225).
CheckpointHoldsBestEpoch ==
    \A j \in Job : row[j].status = "completed" /\ Alone(row[j].run) =>
      /\ Stored(j, row[j].name).run = row[j].run
      /\ IsBest(row[j].run, Stored(j, row[j].name).epoch)

\* A worker knows the best score so far and where its epoch is saved.
BestIsSaved ==
    \A w \in Worker : worker[w] # Free /\ worker[w].at \in Trains =>
      LET r      == worker[w].run
          scores == runs[r].scores
          file   == files[runs[r].second][worker[w].name] IN
      /\ \A k \in DOMAIN scores : scores[k] <= worker[w].best
      /\ worker[w].at # "training" => Len(scores) = MaxEpochs
      /\ IF worker[w].best = 0
           THEN /\ worker[w].name = "last.pt"
                /\ worker[w].at # "training" /\ Alone(r) => file = [run |-> r, epoch |-> MaxEpochs]
           ELSE /\ worker[w].name = "best.pt"
                /\ Alone(r) => /\ file.run = r /\ file.epoch \in DOMAIN scores
                               /\ scores[file.epoch] = worker[w].best

IInv ==
    /\ TypeOK /\ NothingBeforeCreation /\ OneMessage /\ OneAtATime
    /\ RunsApart /\ BestIsSaved /\ CheckpointHoldsBestEpoch

\* Jobs end (training_tasks.py:1-6): a pending job is completed or failed in
\* the end, unless a failure of broker, database or worker cut it off.
JobsEnd ==
    \A j \in Job :
      row[j].status = "pending" ~>
        row[j].status \in {"completed", "failed"} \/ j \in stranded

\* README.md:184-185: a run "checkpoints the best model, and exports it to
\* ONNX".  The ONNX file of a completed job holds a best epoch.
ExportedModelIsBest ==
    \A j \in Job : row[j].status = "completed" /\ Alone(row[j].run) /\ Stored(j, "onnx") # NoFile =>
      IsBest(row[j].run, Stored(j, "onnx").epoch)
=============================================================================

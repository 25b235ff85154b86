-------------------------- MODULE MCStepLifecycle --------------------------
(* Two real steps of one job, which differ in GITHUB_ACTION alone.          *)
EXTENDS StepLifecycle, TLC

CONSTANTS s1, s2

MCSteps == {s1, s2}
MCRecorded == {s1, s2}

ActionsEnv(action) ==
  [GITHUB_RUN_ID |-> "7", GITHUB_RUN_ATTEMPT |-> "1", GITHUB_JOB |-> "build",
   GITHUB_ACTION |-> action]

\* The environment of a run outside Actions, which has no post step.
LocalEnv ==
  [GITHUB_RUN_ID |-> "", GITHUB_RUN_ATTEMPT |-> "", GITHUB_JOB |-> "",
   GITHUB_ACTION |-> ""]

MCRecordedOne == {s1}
MCEnvLocal == s1 :> ActionsEnv("run") @@ s2 :> LocalEnv

MCEnv == s1 :> ActionsEnv("run") @@ s2 :> ActionsEnv("run_2")
=============================================================================

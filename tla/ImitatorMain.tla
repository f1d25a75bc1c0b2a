---------------------------- MODULE ImitatorMain ----------------------------
(***************************************************************************)
(* The ClickImitator process (cmd/main.go): the configuration is loaded    *)
(* and validated, a broker is asked for the topic, the strategy is built,  *)
(* which reads the scenario files, and the readers of Imitator run.        *)
(*                                                                         *)
(* A directory is named by what it holds.  Readers have the numbers of     *)
(* their scenarios, or of their ids; those there is none for are "done".   *)
(***************************************************************************)
EXTENDS Imitator, ImitatorConfig, ScenarioLoader

CONSTANTS Environments,  \* the environments it may be started in
          None

ASSUME MainAssumption == Readers \subseteq Nat \ {0}

\* What a setting may read as, and what the directory may hold.
ASSUME EnvironmentAssumption ==
  /\ Fallback.dir \in DirectorySeqs \cup {Missing}
  /\ \A e \in Environments :
       /\ \A key \in Numbers : e[key] \in Ints \cup {Unset, Malformed}
       /\ e.delays \in Seq(Ints \cup {Malformed, Blank}) \cup {Unset}
       /\ e.dir \in DirectorySeqs \cup {Missing, Unset}

VARIABLES stage,    \* where run is before it simulates
          env,      \* the environment, until it is loaded
          cfg,      \* the configuration, until the readers are started
          broker,   \* the next one to be asked for the topic
          loaded    \* the scenarios

startup == <<stage, env, cfg, broker, loaded>>
allVars == <<vars, startup>>

MainInit == /\ Init
            /\ numReads = [r \in Readers |-> 0] /\ ~paced
            /\ stage = "load"
            /\ env \in Environments
            /\ cfg = None
            /\ broker = 1
            /\ loaded = <<>>

\* run returns an error: exit code 1.
Fail(at) == /\ stage' = at
            /\ main' = "exited"
            /\ UNCHANGED <<clock, readers, sends, kafka>>

Continue(at) == stage' = at /\ UNCHANGED vars

LoadConfig == /\ stage = "load"
              /\ env' = None
              /\ cfg' = Load(env)
              /\ IF Validate(Load(env)) THEN Continue("verify") ELSE Fail("invalid")
              /\ UNCHANGED <<broker, loaded>>

-----------------------------------------------------------------------------
(* VerifyTopicExists.                                                      *)

\* The context is looked at before each broker is dialled.
Interrupted == /\ stage = "verify"
               /\ cancelled
               /\ Fail("interrupted")
               /\ UNCHANGED <<env, cfg, broker, loaded>>

\* It answers that the topic has partitions.
TopicVerified == /\ stage = "verify"
                 /\ ~cancelled
                 /\ Continue("build")
                 /\ UNCHANGED <<env, cfg, broker, loaded>>

BrokerFails == /\ stage = "verify"
               /\ ~cancelled
               /\ broker' = broker + 1
               /\ IF broker = Len(cfg.brokers) THEN Fail("no topic") ELSE Continue("verify")
               /\ UNCHANGED <<env, cfg, loaded>>

-----------------------------------------------------------------------------
(* buildStrategy, and the start of the readers.                            *)

BuildStrategy ==
  /\ stage = "build"
  /\ LET result == IF cfg.mode = "scenario" THEN LoadScenarios(cfg.dir) ELSE Success(<<>>)
     IN /\ loaded' = result.scenarios
        /\ IF result.ok THEN Continue("start") ELSE Fail("not loaded")
  /\ UNCHANGED <<env, cfg, broker>>

\* rand.Intn or rand.Int63n panics in the goroutine of a reader.
Panics == cfg.mode = "random" /\ (ReadsRange(cfg) <= 0 \/ AuthorsRange(cfg) <= 0)

Panic == /\ stage = "start"
         /\ Panics
         /\ Fail("panicked")
         /\ UNCHANGED <<env, cfg, broker, loaded>>

RandomReads ==
  LET total == cfg.readerEnd - cfg.readerStart + 1
  IN {n \in [Readers -> 0..MaxReads] :
        \A r \in Readers : IF r <= total THEN n[r] \in cfg.minReads..cfg.maxReads ELSE n[r] = 0}

ScenarioReads ==
  {[r \in Readers |-> IF r \in DOMAIN loaded THEN Len(loaded[r].authors) ELSE 0]}

\* The writer is there; Strategy.Run starts the readers.
StartReaders ==
  /\ stage = "start"
  /\ ~Panics
  /\ numReads' \in ReadPlans \cap (IF cfg.mode = "random" THEN RandomReads ELSE ScenarioReads)
  /\ paced' = (cfg.pause > 0)
  /\ stage' = "run"
  /\ cfg' = None /\ broker' = 1 /\ loaded' = <<>>
  /\ UNCHANGED <<clock, started, reader, sends, kafka, main, env>>

Startup == \/ LoadConfig \/ Interrupted \/ TopicVerified \/ BrokerFails
           \/ BuildStrategy \/ Panic \/ StartReaders

\* A signal during the start; before `run` asks for them it just kills the process.
CancelStart == /\ stage \in {"verify", "build", "start"}
               /\ Cancel
               /\ UNCHANGED startup

Simulates == stage = "run" /\ UNCHANGED startup

MainNext == Startup \/ CancelStart \/ (Next /\ Simulates)

MainSpec == MainInit /\ [][MainNext]_allVars

\* The start goes on, and then something in the simulation does.
MainFairSpec == MainSpec /\ WF_allVars(Startup \/ (Work /\ Simulates))

-----------------------------------------------------------------------------
(* Properties.                                                             *)

\* What Validate lets through can be run: rand is given positive arguments
\* (random.go:66, 70) and every pause of the retry schedule is positive,
\* whatever the environment says.  The one exception is a range of reads of
\* which the length is not an int.
AcceptedIsUsable ==
  /\ stage = "panicked" => cfg.minReads = 0 /\ cfg.maxReads = MaxInt
  /\ stage \in {"verify", "build", "start"} =>
       /\ cfg.brokers # <<>>
       /\ \A i \in DOMAIN cfg.delays : cfg.delays[i] > 0

\* loader.go: the scenarios that are run are those the files describe, each user
\* line with all authors up to the next one and none of another; and files that
\* can be understood are not refused.
LoadedAsWritten ==
  /\ stage = "start" /\ cfg.mode = "scenario" =>
       Readable(cfg.dir) /\ loaded = Content(cfg.dir)
  /\ stage = "not loaded" => ~Readable(cfg.dir)
=============================================================================

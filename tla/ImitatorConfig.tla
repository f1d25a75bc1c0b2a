--------------------------- MODULE ImitatorConfig ---------------------------
(***************************************************************************)
(* ClickImitator's configuration (pkg/config/config.go): what Load makes   *)
(* of the environment, and what Validate lets through.                     *)
(*                                                                         *)
(* A setting is Unset (also when it is empty) or what its text reads as, a *)
(* list of parts as a sequence.  The literals of the code that a setting   *)
(* falls back to are a parameter.                                          *)
(***************************************************************************)
EXTENDS Integers, Texts

CONSTANTS Unset,
          Fallback,   \* [mode, brokers, topic, ...], as Load's result
          MaxInt      \* of int and int64

\* The values of an int, and the settings that are one.
Ints == -(MaxInt + 1)..MaxInt
Numbers == {"authorStart", "authorEnd", "readerStart", "readerEnd", "minReads", "maxReads", "pause"}

\* True of the literals in Load.
ASSUME ConfigAssumption ==
  /\ MaxInt \in Nat
  /\ \A key \in Numbers : Fallback[key] \in Ints
  /\ Fallback.brokers # <<>>
  /\ Fallback.delays \in Seq(Nat \ {0})

Usable(setting) == setting \notin {Unset, Malformed}

\* getEnv, getEnvInt, getEnvInt64, getEnvDuration.
GetEnv(setting, fallback)         == IF setting = Unset THEN fallback ELSE setting
GetEnvInt(setting, fallback)      == IF Usable(setting) THEN setting ELSE fallback
GetEnvInt64(setting, fallback)    == IF Usable(setting) THEN setting ELSE fallback
GetEnvDuration(setting, fallback) == IF Usable(setting) THEN setting ELSE fallback

OrElse(parts, fallback) == IF parts = <<>> THEN fallback ELSE parts

GetEnvSlice(setting, fallback) ==
  IF setting = Unset THEN fallback ELSE OrElse(NotBlank(setting), fallback)

BadDelay(d) == d = Malformed \/ d <= 0

\* One part that is no positive duration spoils the whole list.
GetEnvDurationSlice(setting, fallback) ==
  IF setting = Unset \/ \E i \in DOMAIN setting : setting[i] # Blank /\ BadDelay(setting[i])
  THEN fallback
  ELSE OrElse(NotBlank(setting), fallback)

Modes == {"random", "scenario"}

Load(env) ==
  [mode        |-> LET mode == GetEnv(env.mode, Fallback.mode)
                   IN IF mode \in Modes THEN mode ELSE "random",
   brokers     |-> GetEnvSlice(env.brokers, Fallback.brokers),
   topic       |-> GetEnv(env.topic, Fallback.topic),
   authorStart |-> GetEnvInt64(env.authorStart, Fallback.authorStart),
   authorEnd   |-> GetEnvInt64(env.authorEnd, Fallback.authorEnd),
   readerStart |-> GetEnvInt64(env.readerStart, Fallback.readerStart),
   readerEnd   |-> GetEnvInt64(env.readerEnd, Fallback.readerEnd),
   minReads    |-> GetEnvInt(env.minReads, Fallback.minReads),
   maxReads    |-> GetEnvInt(env.maxReads, Fallback.maxReads),
   pause       |-> GetEnvInt(env.pause, Fallback.pause),
   dir         |-> GetEnv(env.dir, Fallback.dir),
   delays      |-> GetEnvDurationSlice(env.delays, Fallback.delays),
   timeout     |-> GetEnvDuration(env.timeout, Fallback.timeout)]

ValidRandom_NoOrder(c) ==                       \* mutant: start > end is let through
  /\ c.authorStart > 0 /\ c.readerStart > 0
  /\ 0 <= c.minReads /\ c.minReads <= c.maxReads
  /\ c.pause >= 0

ValidRandom(c) == /\ 0 < c.authorStart /\ c.authorStart <= c.authorEnd
                  /\ 0 < c.readerStart /\ c.readerStart <= c.readerEnd
                  /\ 0 <= c.minReads /\ c.minReads <= c.maxReads
                  /\ c.pause >= 0

\* Validate returns nil.  (Neither the brokers nor the topic nor the directory
\* can be empty after Load.)
Validate(c) == CASE c.mode = "random"   -> ValidRandom(c)
                 [] c.mode = "scenario" -> c.pause >= 0

\* An int operation that overflows starts again from the lowest value.
Wrap(n) == IF n > MaxInt THEN n - 2 * (MaxInt + 1) ELSE n

\* The arguments of rand.Intn and rand.Int63n (random.go:66, 70).
ReadsRange(c)   == Wrap(c.maxReads - c.minReads + 1)
AuthorsRange(c) == Wrap(c.authorEnd - c.authorStart + 1)
=============================================================================

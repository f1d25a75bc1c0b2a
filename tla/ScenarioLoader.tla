--------------------------- MODULE ScenarioLoader ---------------------------
(***************************************************************************)
(* ClickImitator's scenario files (loader.go): the directory is read, then *)
(* the lines of each *.scenario file in the order of their names.          *)
(*                                                                         *)
(* A directory is Missing (it cannot be read) or the sequence of its       *)
(* entries by name: [kind : {"directory", "scenario", "other"}, lines], of *)
(* which Unreadable ones cannot be opened or hold a line of over 1 MB.  A  *)
(* line is [key, ids]: the word it begins with ("user_id", "authors", "#"  *)
(* for a comment or a blank line, or another), and the parts after it,     *)
(* each an integer, Malformed, or Blank.                                   *)
(***************************************************************************)
EXTENDS Integers, Texts

CONSTANTS Missing, Unreadable

\* What a directory may be.
FileLine      == [key : STRING, ids : Seq(Int \cup {Malformed, Blank})]
DirectorySeqs == Seq([kind : {"directory", "scenario", "other"}, lines : Seq(FileLine) \cup {Unreadable}])

\* The result of a load that returns an error.
Failure == [ok |-> FALSE, scenarios |-> <<>>]
Success(scenarios) == [ok |-> TRUE, scenarios |-> scenarios]

\* The regular files; an error when there are none.
ScenarioFiles(dir) == Keep(dir, {i \in DOMAIN dir : dir[i].kind = "scenario"})

ReadScenarioLines(file) ==
  Keep(file.lines, {i \in DOMAIN file.lines : file.lines[i].key # "#"})

\* strconv.ParseInt succeeds and the id is positive.
PositiveId(part) == part \notin {Malformed, Blank} /\ part > 0

-----------------------------------------------------------------------------
(* buildScenarios: `current` holds the scenario that is being read, if any. *)

Start == [ok |-> TRUE, scenarios |-> <<>>, current |-> <<>>]
Broken(s) == [s EXCEPT !.ok = FALSE]

\* domain.Scenario.Validate, and the scenario is complete.
Flush(s) == IF s.current = <<>> THEN s
            ELSE IF s.current[1].authors = <<>> THEN Broken(s)
            ELSE [s EXCEPT !.scenarios = @ \o s.current, !.current = <<>>]

UserLine(s, ids) ==
  LET flushed == Flush(s)
  IN IF ~flushed.ok \/ Len(ids) # 1 \/ ~PositiveId(ids[1]) THEN Broken(s)
     ELSE [flushed EXCEPT !.current = << [user |-> ids[1], authors |-> <<>>] >>]

AuthorsLine(s, ids) ==
  LET given == NotBlank(ids)
  IN IF s.current = <<>> \/ \E i \in DOMAIN given : ~PositiveId(given[i]) THEN Broken(s)
     ELSE [s EXCEPT !.current[1].authors = @ \o given]

\* The first error ends the loop.
Line(s, line) == IF ~s.ok THEN s
                 ELSE CASE line.key = "user_id" -> UserLine(s, line.ids)
                        [] line.key = "authors" -> AuthorsLine(s, line.ids)
                        [] OTHER                -> Broken(s)

BuildScenarios_NoLast(lines) ==    \* mutant: the last scenario is not flushed
  LET end == FoldLeft(Line, Start, lines)
  IN IF end.ok THEN Success(end.scenarios) ELSE Failure

BuildScenarios(lines) ==
  LET end == Flush(FoldLeft(Line, Start, lines))
  IN IF end.ok THEN Success(end.scenarios) ELSE Failure

ParseScenarioFile(file) ==
  IF file.lines = Unreadable THEN Failure ELSE BuildScenarios(ReadScenarioLines(file))

\* The first error ends the load.
LoadScenarios(dir) ==
  LET files == ScenarioFiles(dir)
      parsed == [i \in DOMAIN files |-> ParseScenarioFile(files[i])]
  IN IF dir = Missing \/ files = <<>> \/ \E i \in DOMAIN files : ~parsed[i].ok THEN Failure
     ELSE Success(FlattenSeq([i \in DOMAIN files |-> parsed[i].scenarios]))

-----------------------------------------------------------------------------
(* What the files mean, without a parser's state.                          *)

\* The lines that belong to the k-th line, which names a user.
BlockEnd(lines, k) ==
  CHOOSE e \in k..Len(lines) :
    /\ \A i \in (k + 1)..e : lines[i].key # "user_id"
    /\ e < Len(lines) => lines[e + 1].key = "user_id"

AuthorsOf(lines, k) ==
  NotBlank(FlattenSeq([i \in 1..(BlockEnd(lines, k) - k) |-> lines[k + i].ids]))

Users(lines) ==
  Keep([i \in DOMAIN lines |-> i], {i \in DOMAIN lines : lines[i].key = "user_id"})

WellFormed(lines) ==
  /\ lines # <<>> => lines[1].key = "user_id"
  /\ \A k \in DOMAIN lines :
       CASE lines[k].key = "user_id" -> /\ Len(lines[k].ids) = 1 /\ PositiveId(lines[k].ids[1])
                                        /\ AuthorsOf(lines, k) # <<>>
         [] lines[k].key = "authors" -> \A i \in DOMAIN lines[k].ids :
                                          lines[k].ids[i] = Blank \/ PositiveId(lines[k].ids[i])
         [] OTHER -> FALSE

\* A scenario for each user line, with the authors up to the next one.
Meaning(lines) ==
  [n \in DOMAIN Users(lines) |-> LET k == Users(lines)[n]
                                 IN [user |-> lines[k].ids[1], authors |-> AuthorsOf(lines, k)]]

Readable(dir) == /\ dir # Missing
                 /\ ScenarioFiles(dir) # <<>>
                 /\ \A i \in DOMAIN ScenarioFiles(dir) :
                      LET file == ScenarioFiles(dir)[i]
                      IN file.lines # Unreadable /\ WellFormed(ReadScenarioLines(file))

Content(dir) ==
  FlattenSeq([i \in DOMAIN ScenarioFiles(dir) |-> Meaning(ReadScenarioLines(ScenarioFiles(dir)[i]))])
=============================================================================

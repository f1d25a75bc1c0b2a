-------------------------------- MODULE Texts --------------------------------
(* Texts of settings and files as their parsers see them: a part between    *)
(* commas is a number, or one of these.                                     *)
EXTENDS Naturals, Sequences, SequencesExt

CONSTANTS Malformed,  \* no number, or one of more than 64 bits
          Blank       \* nothing but spaces

\* The elements of s at the places in K, appended one by one.  (SelectSeq, which
\* would do for TLC, has no definition in the prover's library.)
Keep(s, K) ==
  LET kept[n \in 0..Len(s)] ==
        IF n = 0 THEN <<>>
        ELSE IF n \in K THEN Append(kept[n - 1], s[n]) ELSE kept[n - 1]
  IN kept[Len(s)]

\* Both parsers of lists skip the blank parts.
NotBlank(parts) == Keep(parts, {i \in DOMAIN parts : parts[i] # Blank})
=============================================================================

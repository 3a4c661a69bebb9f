-------------------------------- MODULE Chunking --------------------------------
(* How the text of a revision is cut into chunks, at lines or around whole      *)
(* exchanges, and how it is put together again from the chunks that a store     *)
(* still holds.                                                                 *)
EXTENDS Naturals, FiniteSets, SequencesExt

CONSTANTS MaxChars, MaxText   \* the limit of a chunk; a bound on the text

VARIABLES
    content,  \* the text: TRUE for a line's end, FALSE for any other character
    units,    \* where its logical units end; none, and lines count
    cuts,     \* where the chunks made so far end
    holding,  \* the chunks that a store holds once all are made
    rebuilt   \* what has been put together from them: a length, or a refusal

chunkVars == <<content, units, cuts, holding, rebuilt>>

NotYet == MaxText + 1
Refused == MaxText + 2
Texts == UNION {[1 .. n -> BOOLEAN] : n \in 1 .. MaxText}
Length == Len(content)
Start == IF cuts = <<>> THEN 0 ELSE Last(cuts)
HardEnd == IF Start + MaxChars < Length THEN Start + MaxChars ELSE Length
Greatest(S) == CHOOSE i \in S : \A j \in S : j <= i
ChunkTypeOK ==
    /\ content \in Texts /\ units \subseteq 1 .. Length /\ \A i \in DOMAIN cuts : cuts[i] \in 1 .. Length
    /\ holding \subseteq DOMAIN cuts /\ rebuilt \in 0 .. Length \cup {NotYet, Refused}

(* Units are a partition: they cover the text, in order, without a gap.         *)
ChunkInit ==
    /\ content \in Texts
    /\ units \in {{}} \cup {u \cup {Length} : u \in SUBSET (1 .. Length)}
    /\ cuts = <<>> /\ holding = {} /\ rebuilt = NotYet

(* The last line's end in reach; the search begins behind the first character   *)
(* and includes the one at the limit.                                           *)
AtLine ==
    LET ends == {i \in Start + 2 .. HardEnd + 1 : content[i]}
    IN  IF HardEnd = Length THEN HardEnd ELSE IF ends = {} THEN HardEnd ELSE Greatest(ends)

(* Whole units as far as they fit; one that alone exceeds the limit is cut.     *)
AtUnit ==
    LET whole == {u \in units : u > Start /\ u <= HardEnd}
    IN  IF whole = {} THEN HardEnd ELSE Greatest(whole)

Cut ==
    /\ Start < Length
    /\ cuts' = Append(cuts, IF units = {} THEN AtLine ELSE AtUnit)
    /\ holding' = IF Last(cuts') = Length THEN DOMAIN cuts' ELSE {}
    /\ UNCHANGED <<content, units, rebuilt>>

(* A store may have lost chunks.                                                *)
Lose(i) == i \in holding /\ rebuilt = NotYet /\ holding' = holding \ {i} /\ UNCHANGED <<content, units, cuts, rebuilt>>

(* Chunks are put in the order of their numbers, and must follow each other;    *)
(* without an expected hash nothing tells whether the last ones are missing.    *)
Reconstruct(expected) ==
    /\ Start = Length /\ rebuilt = NotYet
    /\ LET n == Cardinality(holding)
           gapless == holding = 1 .. n
       IN  rebuilt' = IF ~gapless \/ (expected /\ n # Len(cuts)) THEN Refused
                      ELSE IF n = 0 THEN 0 ELSE cuts[n]
    /\ UNCHANGED <<content, units, cuts, holding>>

ChunkNext == Cut \/ (\E i \in DOMAIN cuts : Lose(i)) \/ \E expected \in BOOLEAN : Reconstruct(expected)
ChunkSpec == ChunkInit /\ [][ChunkNext]_chunkVars
------------------------------------------------------------------------------
(* No chunk is empty or longer than the limit, but for a line's end just behind *)
(* it; and a unit is only cut when it alone is too long, from its beginning     *)
(* (chunk_transcript_text).                                                     *)
CutsAreFair ==
    \A i \in DOMAIN cuts :
        LET from == IF i = 1 THEN 0 ELSE cuts[i - 1]
            within == {u \in units : from < u}
        IN  /\ from < cuts[i]
            /\ cuts[i] <= from + MaxChars + (IF units = {} /\ content[cuts[i]] THEN 1 ELSE 0)
            /\ units # {} /\ cuts[i] \notin units =>
                   /\ \A u \in within : u > from + MaxChars
                   /\ cuts[i] = from + MaxChars
==============================================================================

------------------------------ MODULE Chunking ------------------------------
(***************************************************************************)
(* chunk_text: a text is cut into overlapping chunks of at most ChunkSize  *)
(* words, at the end of a sentence where that is possible.  Words are      *)
(* numbered from 0; a chunk is the interval from .. to - 1 of them.  The   *)
(* text becomes known sentence by sentence, so that every text is covered. *)
(***************************************************************************)
EXTENDS Integers, Sequences

CONSTANTS
  ChunkSize, Overlap,
  MaxSentence, MaxWords  \* bounds on the words of a sentence, and of the text

\* chunk_text raises ValueError for other sizes.
ASSUME SizeAssumption ==
  ChunkSize \in Nat \ {0} /\ Overlap \in Nat /\ Overlap < ChunkSize
ASSUME LengthAssumption == MaxSentence \in Nat /\ MaxWords \in Nat

VARIABLES
  read,   \* the words of the sentences taken so far
  start,  \* the first word of the current chunk, which ends at read
  chunks, \* the chunks flushed
  ends,   \* where the sentences taken so far end
  done

cvars == <<read, start, chunks, ends, done>>

ChunkInit == read = 0 /\ start = 0 /\ chunks = <<>> /\ ends = {} /\ done = FALSE

\* A mutant: the slice of the last words is not cut short.
KeptAlways(from, to) == Overlap

\* The words of from .. to - 1 repeated in the next chunk: [-overlap:].
Kept(from, to) == IF to - from < Overlap THEN to - from ELSE Overlap

Flush(from, to) ==
  /\ chunks' = Append(chunks, [from |-> from, to |-> to])
  /\ start' = to - Kept(from, to)

Full(from, to) == to - from > ChunkSize

\* The next sentence, of n words, starts a new chunk unless it fits.
AddSentence(n) ==
  /\ ~done /\ ~Full(start, read) /\ read + n <= MaxWords
  /\ IF start < read /\ Full(start, read + n)
     THEN Flush(start, read)
     ELSE UNCHANGED <<start, chunks>>
  /\ read' = read + n
  /\ ends' = ends \cup {read + n}
  /\ UNCHANGED done

\* The while loop: a sentence longer than a chunk is cut.
HardCut ==
  /\ ~done /\ Full(start, read)
  /\ Flush(start, start + ChunkSize)
  /\ UNCHANGED <<read, ends, done>>

Finish ==
  /\ ~done /\ ~Full(start, read)
  /\ chunks' = IF start < read THEN Append(chunks, [from |-> start, to |-> read]) ELSE chunks
  /\ done' = TRUE
  /\ UNCHANGED <<read, start, ends>>

ChunkNext == HardCut \/ Finish \/ \E n \in 1 .. MaxSentence : AddSentence(n)
ChunkSpec == ChunkInit /\ [][ChunkNext]_cvars

-----------------------------------------------------------------------------
\* Parts of ChunksCoverText: no chunk is empty or longer than ChunkSize.
ChunksFit ==
  \A i \in DOMAIN chunks : chunks[i].from < chunks[i].to /\ chunks[i].to <= chunks[i].from + ChunkSize

\* Each chunk begins with the last words of the one before, no more than
\* Overlap of them, and ends with words of its own.
ChunksOverlap ==
  \A i \in DOMAIN chunks :
    IF i = 1 THEN chunks[i].from = 0
    ELSE /\ chunks[i].from = chunks[i-1].to - Kept(chunks[i-1].from, chunks[i-1].to)
         /\ chunks[i-1].from <= chunks[i].from
         /\ chunks[i-1].to - Overlap <= chunks[i].from
         /\ chunks[i-1].to < chunks[i].to

\* A chunk that does not end a sentence is as long as a chunk can be.
ChunksEndSentences ==
  \A i \in DOMAIN chunks :
    chunks[i].to \in ends \/ chunks[i].to = chunks[i].from + ChunkSize

\* The last chunk ends with the text.
LastWordKept ==
  done => IF read = 0 THEN chunks = <<>>
          ELSE chunks # <<>> /\ chunks[Len(chunks)].to = read

\* The chunks that chunk_text returns hold every word of the text in order,
\* fit the encoder, and are cut within a sentence only when they are full.
ChunksCoverText == ChunksFit /\ ChunksOverlap /\ ChunksEndSentences /\ LastWordKept
=============================================================================

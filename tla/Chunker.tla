------------------------------- MODULE Chunker -------------------------------
(***************************************************************************)
(* From the text of a document to its vectors: the chunker, which packs    *)
(* words into chunks under a budget of tokens and one of runes and repeats *)
(* the tail of a chunk at the head of the next, and the embedder, which    *)
(* sends the chunks in batches.                                            *)
(*                                                                         *)
(* Abstraction: a word is its number of runes.  The tokens of the encoding *)
(* are TokenRunes runes long and do not cross words; without the encoding, *)
(* which is loaded over the network, a word is a token.                    *)
(***************************************************************************)
EXTENDS Integers, Sequences, SequencesExt, FiniteSets

CONSTANTS
  Texts,       \* documents, sequences of words [runes, breaks]
  Budgets,     \* pairs of the tokens of a chunk and of its overlap, <<800, 80>> in the code
  TokenRunes,  \* runes in a token
  Inflation,   \* runes that the chunker allows a token, 5 in the code
  MaxBatchTokens

Words == [runes : Nat \ {0}, breaks : Nat]
ASSUME DocumentAssumption == Texts \subseteq Seq(Words) /\ Budgets \subseteq Int \X Int
ASSUME TokenAssumption == TokenRunes \in Nat \ {0} /\ Inflation \in Nat \ {0} /\ MaxBatchTokens \in Nat

VARIABLE processed   \* a document with its chunks and vectors, or << >> before

-----------------------------------------------------------------------------
(* Pieces of a text *)

(* The runes from + 1..to of a word, with the blanks written after it;     *)
(* again says that an earlier chunk has it.  A word that ends a paragraph  *)
(* is followed by one break more.                                          *)
Piece(word, from, to) == [word |-> word, from |-> from, to |-> to, gap |-> 1, again |-> FALSE]

Total(numbers) ==
  LET sum[n \in 0..Len(numbers)] == IF n = 0 THEN 0 ELSE sum[n - 1] + numbers[n]
  IN  sum[Len(numbers)]
RunesOf(p) == p.to - p.from
Up(n, k) == (n + k - 1) \div k

(* The runes of what is written, and of a content, which is trimmed. *)
WrittenRunes(pieces) == Total([i \in DOMAIN pieces |-> RunesOf(pieces[i]) + pieces[i].gap])
ContentRunes(pieces) == WrittenRunes(pieces) - Last(pieces).gap

TokensOf(c, p) == IF c.encoder THEN Up(RunesOf(p), TokenRunes) ELSE 1
countTokens(c, pieces) == Total([i \in DOMAIN pieces |-> TokensOf(c, pieces[i])])

(* The last tokens of a content, or all of them.  A token of the encoding  *)
(* may be the end of a word; without it the words are joined by single     *)
(* blanks.                                                                 *)
tailTokens(c, content) ==
  LET after(i) == countTokens(c, SubSeq(content, i + 1, Len(content)))
      first == CHOOSE i \in DOMAIN content : after(i) < c.overlap /\ after(i - 1) >= c.overlap
      all == countTokens(c, content) <= c.overlap
      left == IF all THEN 0 ELSE first - 1
      cut == IF all \/ ~c.encoder THEN 0
             ELSE (TokensOf(c, content[first]) - (c.overlap - after(first))) * TokenRunes
  IN  [i \in 1..(Len(content) - left) |->
         LET p == content[left + i]
         IN  [word |-> p.word, from |-> IF i = 1 THEN p.from + cut ELSE p.from, to |-> p.to,
              gap |-> IF left + i # Len(content) /\ (all \/ c.encoder) THEN p.gap ELSE 1, again |-> TRUE]]

\* Faulty variant: the next part starts one rune too late.
SplitTooFar(word, runes, max) ==
  LET from(i) == (i - 1) * (max + 1)
  IN  [i \in 1..Up(runes, max + 1) |-> Piece(word, from(i), IF from(i) + max < runes THEN from(i) + max ELSE runes)]

splitLongWord(word, runes, max) ==
  [i \in 1..Up(runes, max) |-> Piece(word, (i - 1) * max, IF i * max < runes THEN i * max ELSE runes)]

-----------------------------------------------------------------------------
(* Packing *)

(* The encoding is not there when it cannot be loaded. *)
NewSimpleChunker(maxTokens, overlap) ==
  [maxTokens : {IF maxTokens <= 0 THEN 800 ELSE maxTokens},
   overlap : {IF overlap < 0 THEN 0 ELSE overlap}, encoder : BOOLEAN]

(* What is being written, with its runes, and the finished chunks. *)
NothingWritten == [current |-> << >>, runes |-> 0, out |-> << >>]

Flush(s) ==
  [current |-> << >>, runes |-> 0,
   out |-> IF s.current = << >> THEN s.out ELSE Append(s.out, s.current)]

WritePiece(s, p) ==
  [s EXCEPT !.current = Append(@, p), !.runes = @ + RunesOf(p) + 1]

(* A word above the budget of runes: a chunk for each part, but the last   *)
(* part leaves room for the words that follow.                             *)
WritePart(s, p, max) == WritePiece(IF s.runes + RunesOf(p) > max THEN Flush(s) ELSE s, p)
WriteLong(s, parts, max) ==
  LET after[n \in 0..Len(parts)] ==
        IF n = 0 THEN s
        ELSE IF n = Len(parts) THEN WritePart(after[n - 1], parts[n], max)
        ELSE Flush(WritePart(after[n - 1], parts[n], max))
  IN  after[Len(parts)]

(* The tail of the last chunk, where there is one, starts the next. *)
Overlap(c, s) ==
  LET t == Flush(s)
      tail == tailTokens(c, Last(t.out))
  IN  IF c.overlap = 0 \/ t.out = << >> THEN t
      ELSE [current |-> tail, runes |-> WrittenRunes(tail), out |-> t.out]

WriteWord(c, s, word, runes, max) ==
  LET p == Piece(word, 0, runes)
      full == s.runes + runes > max \/ countTokens(c, Append(s.current, p)) >= c.maxTokens
  IN  IF runes > max THEN WriteLong(s, splitLongWord(word, runes, max), max)
      ELSE WritePiece(IF full THEN Overlap(c, s) ELSE s, p)

EndParagraph(s, breaks) ==
  [s EXCEPT !.current[Len(s.current)].gap = @ + breaks, !.runes = @ + breaks]

Chunk(c, text) ==
  LET max == c.maxTokens * Inflation
      after[n \in 0..Len(text)] ==
        IF n = 0 THEN NothingWritten
        ELSE EndParagraph(WriteWord(c, after[n - 1], n, text[n].runes, max), text[n].breaks)
  IN  Flush(after[Len(text)]).out

-----------------------------------------------------------------------------
(* Embedding *)

estimateTokens(content) ==
  LET byRunes == Up(ContentRunes(content), 2)
  IN  IF byRunes < Len(content) THEN Len(content) ELSE byRunes

(* The vectors, each named by its content, of batches that are answered in *)
(* full; or nothing, if one content is too large for a batch.              *)
EmbedOne(b, content) ==
  LET tokens == estimateTokens(content)
  IN  IF b.error \/ tokens > MaxBatchTokens THEN [b EXCEPT !.error = TRUE]
      ELSE IF b.tokens + tokens > MaxBatchTokens /\ b.batch # << >>
      THEN [batch |-> <<content>>, tokens |-> tokens, out |-> b.out \o b.batch, error |-> FALSE]
      ELSE [batch |-> Append(b.batch, content), tokens |-> b.tokens + tokens, out |-> b.out, error |-> FALSE]
ChatGPTEmbed(contents) ==
  LET after[n \in 0..Len(contents)] ==
        IF n = 0 THEN [batch |-> << >>, tokens |-> 0, out |-> << >>, error |-> FALSE]
        ELSE EmbedOne(after[n - 1], contents[n])
      end == after[Len(contents)]
  IN  IF end.error THEN << >> ELSE end.out \o end.batch

(* One vector per content, a function of it. *)
DeterministicEmbed(contents) == contents

-----------------------------------------------------------------------------
ChunkInit == processed = << >>

ProcessText ==
  /\ processed = << >>
  /\ \E budget \in Budgets, text \in Texts : \E c \in NewSimpleChunker(budget[1], budget[2]) :
       LET chunks == Chunk(c, text)
       IN  \E vectors \in {ChatGPTEmbed(chunks), DeterministicEmbed(chunks)} :
             processed' = [chunker |-> c, text |-> text, chunks |-> chunks, vectors |-> vectors]

ChunkSpec == ChunkInit /\ [][ProcessText]_processed

(* One piece goes on where the other ends: in its word or at the next one. *)
Continues(text, p, q) ==
  \/ q.word = p.word /\ q.from = p.to
  \/ q.word = p.word + 1 /\ q.from = 0 /\ p.to = text[p.word].runes

Repeated(chunk) == Cardinality({i \in DOMAIN chunk : chunk[i].again})

(* A chunk begins with what it repeats, the end of the chunk before,       *)
(* within the overlap, and has something new, which goes on where that     *)
(* chunk ends.  Several new words are within both budgets, a single one    *)
(* within that of runes.                                                   *)
FollowsOn(c, text, before, chunk) ==
  LET old == Repeated(chunk)
      max == c.maxTokens * Inflation
  IN  /\ old < Len(chunk) /\ \A i \in DOMAIN chunk : chunk[i].again <=> i <= old
      /\ \A i \in (old + 1)..(Len(chunk) - 1) : Continues(text, chunk[i], chunk[i + 1])
      /\ IF before = << >> THEN old = 0 /\ chunk[1].word = 1 /\ chunk[1].from = 0
         ELSE old <= Len(before) /\ Continues(text, Last(before), chunk[old + 1])
      /\ \A i \in 1..old : LET p == before[Len(before) - old + i]
                            IN  chunk[i].word = p.word /\ chunk[i].to = p.to
      /\ countTokens(c, SubSeq(chunk, 1, old)) <= c.overlap
      /\ IF old + 1 = Len(chunk) THEN RunesOf(Last(chunk)) <= max
         ELSE ContentRunes(chunk) <= max /\ countTokens(c, chunk) < c.maxTokens

(* The chunks of a document hold all of its text and nothing else: what is *)
(* new in them is the text in its order, what they repeat is the end of    *)
(* the chunk before, and they are within the budgets.  Each chunk gets a   *)
(* vector, its own, however the batches fall, unless one is too large.     *)
ChunksHoldTheText ==
  processed # << >> =>
    LET c == processed.chunker
        text == processed.text
        chunks == processed.chunks
    IN  /\ \A i \in DOMAIN chunks : FollowsOn(c, text, IF i = 1 THEN << >> ELSE chunks[i - 1], chunks[i])
        /\ IF text = << >> THEN chunks = << >>
           ELSE /\ chunks # << >> /\ Last(Last(chunks)).word = Len(text)
                /\ Last(Last(chunks)).to = text[Len(text)].runes
        /\ \/ processed.vectors = chunks
           \/ /\ processed.vectors = << >>
              /\ \E i \in DOMAIN chunks : estimateTokens(chunks[i]) > MaxBatchTokens
=============================================================================

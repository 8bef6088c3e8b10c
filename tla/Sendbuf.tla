------------------------------ MODULE Sendbuf -------------------------------
(***************************************************************************)
(* The send buffers of one process (srvlib/net/sendbuf.cc): per socket a   *)
(* chain of blocks, and a pool of free blocks per size that all sockets    *)
(* share.  A free block and a queued one use the same `next`.              *)
(*                                                                         *)
(* The state is one record, as the loops of the event handlers call the    *)
(* operations many times in a step; each operator below maps the record    *)
(* before a call to the one after it.                                      *)
(*                                                                         *)
(* What is abstracted: a block is a name for its address, and malloc       *)
(* fails when the names of its size are used up.                           *)
(***************************************************************************)
EXTENDS Naturals, Sequences, FiniteSets, SequencesExt

CONSTANTS
  Sockets,   \* the descriptors that use a send buffer
  Blocks,    \* the blocks malloc can return
  BufSize,   \* buf_size of each block: what the power of two leaves it
  Nil        \* the null pointer

ASSUME BlocksAssumption ==
  /\ IsFiniteSet(Blocks) /\ Nil \notin Blocks
  /\ BufSize \in [Blocks -> Nat \ {0}]

VARIABLE sb  \* bbufs, block_table and all blocks

Sizes == {BufSize[b] : b \in Blocks}

NoBuffers ==
  [head   |-> [s \in Sockets |-> Nil],   \* block_head
   tail   |-> [s \in Sockets |-> Nil],   \* block_tail
   next   |-> [b \in Blocks |-> Nil],
   rptr   |-> [b \in Blocks |-> 0],
   buf    |-> [b \in Blocks |-> <<>>],   \* what is written; buf_len is its length
   table  |-> [n \in Sizes |-> Nil],     \* block_table
   unborn |-> Blocks]                    \* not yet returned by malloc

\* The blocks from b on, following next.
Chain(st, b) ==
  LET at[k \in 0..Cardinality(Blocks)] ==
        IF k = 0 THEN b
        ELSE LET c == at[k - 1] IN IF c = Nil THEN Nil ELSE st.next[c]
  IN  [i \in 1..Cardinality({k \in DOMAIN at : k < Cardinality(Blocks) /\ at[k] # Nil}) |->
         at[i - 1]]

\* bbuf_free_block: on top of the pool of its size.
Recycled(st, b) ==
  [st EXCEPT !.next[b] = st.table[BufSize[b]], !.table[BufSize[b]] = b]

\* create: whatever the socket pointed to is forgotten.
Created(st, s) == [st EXCEPT !.head[s] = Nil, !.tail[s] = Nil]

\* Mutant: only the first block goes back.
FreedHead(st, s) == IF st.head[s] = Nil THEN st ELSE Recycled(st, st.head[s])

\* free: every block goes back to the pool; block_head and block_tail stay.
Freed(st, s) ==
  LET chain == Chain(st, st.head[s])
      after[k \in 0..Len(chain)] ==
        IF k = 0 THEN st ELSE Recycled(after[k - 1], chain[k])
  IN  after[Len(chain)]

\* datalen: what the first block has left to read.
Datalen(st, s) ==
  IF st.head[s] = Nil THEN 0
  ELSE Len(st.buf[st.head[s]]) - st.rptr[st.head[s]]

\* Mutant: block_tail is not reset with the last block.
SkippedKeepsTail(st, s, n) ==
  LET b     == st.head[s]
      moved == [st EXCEPT !.rptr[b] = @ + n]
  IN  IF b = Nil THEN st
      ELSE IF moved.rptr[b] < Len(st.buf[b]) THEN moved
      ELSE Recycled([moved EXCEPT !.head[s] = st.next[b]], b)

\* skip_read_ptr: a block that is read to its end goes back to the pool.
Skipped(st, s, n) ==
  LET b     == st.head[s]
      moved == [st EXCEPT !.rptr[b] = @ + n]
      rest  == st.next[b]
  IN  IF b = Nil THEN st
      ELSE IF moved.rptr[b] < Len(st.buf[b]) THEN moved
      ELSE Recycled([moved EXCEPT !.head[s] = rest,
                                  !.tail[s] = IF rest = Nil THEN Nil ELSE @], b)

\* Mutant: one byte too many.
FitsAlmost(st, s, n) ==
  st.tail[s] # Nil /\ BufSize[st.tail[s]] - Len(st.buf[st.tail[s]]) + 1 >= n

\* alloc, first part: the last block, if n more bytes fit.
Fits(st, s, n) ==
  st.tail[s] # Nil /\ BufSize[st.tail[s]] - Len(st.buf[st.tail[s]]) >= n

\* hash: the smallest size that holds n bytes.
SizeFor(n) ==
  CHOOSE m \in Sizes : m >= n /\ \A k \in Sizes : k >= n => m <= k

Candidates(st, n) == {b \in st.unborn : BufSize[b] = SizeFor(n)}

CanAlloc(st, s, n) ==
  \/ Fits(st, s, n)
  \/ /\ \E m \in Sizes : m >= n
     /\ st.table[SizeFor(n)] # Nil \/ Candidates(st, n) # {}

\* alloc, second part: the top of the pool, filled by malloc if it is empty,
\* becomes the last block of the socket.
Extended(st, s, n) ==
  LET pooled == st.table[SizeFor(n)]
      b      == IF pooled # Nil THEN pooled ELSE CHOOSE c \in Candidates(st, n) : TRUE
      taken  == IF pooled # Nil
                THEN [st EXCEPT !.table[SizeFor(n)] = st.next[b]]
                ELSE [st EXCEPT !.unborn = @ \ {b}]
      clean  == [taken EXCEPT !.next[b] = Nil, !.rptr[b] = 0, !.buf[b] = <<>>]
  IN  IF st.tail[s] = Nil
      THEN [clean EXCEPT !.head[s] = b, !.tail[s] = b]
      ELSE [clean EXCEPT !.next = [@ EXCEPT ![st.tail[s]] = b, ![b] = Nil],
                         !.tail[s] = b]

\* flush: the bytes written behind buf_len of the last block now count.
Flushed(st, s, bytes) == [st EXCEPT !.buf[st.tail[s]] = @ \o bytes]

\* What every sender does: alloc, write, flush.
Stored(st, s, bytes) ==
  LET n == Len(bytes)
  IN  Flushed(IF Fits(st, s, n) THEN st ELSE Extended(st, s, n), s, bytes)

-----------------------------------------------------------------------------
(* Where the blocks are. *)

ChainOf(st, s) == Chain(st, st.head[s])
Pooled(st) == UNION {ToSet(Chain(st, st.table[n])) : n \in Sizes}

\* All that waits to be sent on s.
Unsent(st, s) ==
  FlattenSeq([i \in DOMAIN ChainOf(st, s) |->
    LET b == ChainOf(st, s)[i]
    IN  SubSeq(st.buf[b], st.rptr[b] + 1, Len(st.buf[b]))])

=============================================================================

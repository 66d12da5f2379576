--------------------------- MODULE SequenceLemmas ---------------------------
(* Facts about the sequences that the queues of the library are modelled by. *)
EXTENDS SequenceTheorems, TLAPS

\* An element appended to the last of three queues is the last of all: a push
\* under the lock adds to the end of everything that was handed in.
LEMMA AppendToLast ==
    ASSUME NEW S, NEW a \in Seq(S), NEW b \in Seq(S), NEW c \in Seq(S), NEW x \in S
    PROVE  a \o b \o Append(c, x) = Append(a \o b \o c, x)
  <1>1. <<x>> \in Seq(S) /\ a \o b \in Seq(S) /\ a \o b \o c \in Seq(S)
    BY ConcatProperties
  <1>2. Append(c, x) = c \o <<x>> /\ Append(a \o b \o c, x) = a \o b \o c \o <<x>>
    BY <1>1, AppendIsConcat
  <1>. QED  BY <1>1, <1>2, ConcatAssociative

\* The head of a queue appended to what went before it: taking an element out
\* moves it from the front of what waits to the end of what was taken.
LEMMA MoveHead ==
    ASSUME NEW S, NEW a \in Seq(S), NEW b \in Seq(S), b # <<>>
    PROVE  /\ Head(b) \in S /\ Tail(b) \in Seq(S)
           /\ Append(a, Head(b)) \o Tail(b) = a \o b
  <1>1. Head(b) \in S /\ Tail(b) \in Seq(S) /\ <<Head(b)>> \in Seq(S)
    BY HeadTailProperties
  <1>2. Append(a, Head(b)) = a \o <<Head(b)>>
    BY <1>1, AppendIsConcat
  <1>3. <<Head(b)>> \o Tail(b) = b
    BY <1>1
  <1>. QED  BY <1>1, <1>2, <1>3, ConcatAssociative

\* An element appended to the second of two queues.
LEMMA AppendToSecond ==
    ASSUME NEW S
    PROVE  \A a, b \in Seq(S), x \in S : a \o Append(b, x) = a \o b \o <<x>>
  <1>. TAKE a, b \in Seq(S), x \in S
  <1>1. <<x>> \in Seq(S) /\ Append(b, x) = b \o <<x>>
    BY AppendIsConcat
  <1>. QED  BY <1>1, ConcatAssociative
=============================================================================

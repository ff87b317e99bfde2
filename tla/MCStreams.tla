----------------------------- MODULE MCStreams -----------------------------
(* Streams with the batches of network links the runs install.             *)
EXTENDS Streams

LinkTo(p, ok) == [protocol |-> p, port |-> 53, valid |-> ok]

\* None, a pair on one port, two links of one protocol on one port, and a bad alias.
Batches ==
  {<<>>, <<LinkTo("tcp", TRUE), LinkTo("udp", TRUE)>>, <<LinkTo("tcp", TRUE), LinkTo("tcp", TRUE)>>,
   <<LinkTo("tcp", FALSE)>>}

\* Docker has none (its task); a follower and the links of a sandbox meet in
\* nothing but the sandbox's end, so that one kind is enough to have both.
MCLinks == [k \in Kinds |-> IF k = "polled" THEN Batches ELSE {<<>>}]

\* For the run about a follower alone.
NoLinks == [k \in Kinds |-> {<<>>}]
=============================================================================

--------------------------------- MODULE Wire ---------------------------------
(***************************************************************************)
(* What the TCP connection between two nodes carries                       *)
(* (model/blockchain-node.cc).  A message is sent as its JSON text and then*)
(* a '#', by two calls of Send; a read returns any part of what was sent,  *)
(* so that a text may arrive cut in two.  The two halves of a text stand   *)
(* for every place to cut it.                                              *)
(***************************************************************************)
EXTENDS Integers, Sequences, SequencesExt

Half(m, i) == [of |-> m, half |-> i]

Delimiter == Half([type |-> "delimiter"], 0)

Frame(m) == <<Half(m, 1), Half(m, 2), Delimiter>>

IsDelimiter(h) == h = Delimiter

\* totalReceivedData.find(delimiter), 0 for npos.
DelimiterPosition(data) == SelectInSeq(data, IsDelimiter)

\* The text before the first delimiter.
ParsedPacket(data) == SubSeq(data, 1, DelimiterPosition(data) - 1)

\* The messages a text parses to: none unless it is exactly the two halves of
\* one, since no other piece of an object's text is an object.
Documents(text) ==
  {text[i].of : i \in {j \in DOMAIN text :
     text = <<Half(text[j].of, 1), Half(text[j].of, 2)>>}}

=============================================================================

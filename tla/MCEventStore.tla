---------------------------- MODULE MCEventStore ----------------------------
EXTENDS Query
Val(form, v) == [form |-> form, v |-> v]
Tag(name, values) == [name |-> name, values |-> values]
Event(author, kind, time, size, tags) ==
  [author |-> author, kind |-> kind, time |-> time, size |-> size, tags |-> tags,
   tagsFit |-> TRUE, sigTime |-> 9]

\* Text 3 is text 1 in other letters.
MCFold == <<1, 2, 1>>

\* 3 spans a page and two overflow pages, 4 has more tags than are stored, 5
\* is too large.
MCEv ==
  <<Event("A", 1, 3, 1, <<Tag("t", <<Val("text", 1), Val("text", 2)>>), Tag("e", <<Val("hex", 1)>>)>>),
    Event("A", 2, 2, 2, <<Tag("t", <<Val("text", 1)>>), Tag("t", <<Val("text", 1)>>),
                          Tag("p", <<Val("hex", 1)>>), Tag("", <<Val("text", 2)>>)>>),
    Event("B", 1, 2, 9, <<Tag("t", <<Val("text", 2)>>), Tag("p", <<Val("hex", 1)>>),
                          Tag("q", <<Val("hex", 1)>>)>>),
    [Event("B", 2, 1, 2, <<Tag("t", <<Val("text", 1)>>)>>) EXCEPT !.tagsFit = FALSE],
    Event("B", 2, 3, 15, <<>>)>>

AllOf(limit) ==
  [ids |-> <<>>, authors |-> <<>>, kinds |-> <<>>, tags |-> <<>>, since |-> 0, until |-> 0,
   limit |-> limit]

Whole(v) == [v |-> v, form |-> "whole"]
Prefix32(v) == [v |-> v, form |-> "prefix"]

\* 34 as a limit is 2, 33 as a kind is 1, twice 17 as a limit is 2.
MCQueries ==
  {AllOf(12), AllOf(34), [AllOf(1) EXCEPT !.until = 2], [AllOf(12) EXCEPT !.since = 2, !.until = 2],
   [AllOf(12) EXCEPT !.since = 2, !.until = 1],
   [AllOf(12) EXCEPT !.ids = <<Whole(3), Whole(1), Whole(3)>>],
   [AllOf(12) EXCEPT !.ids = <<Whole(1), [v |-> 0, form |-> "none"], Whole(2)>>, !.kinds = <<33>>, !.until = 1],
   [AllOf(12) EXCEPT !.ids = <<Whole(1), Whole(2), Whole(7)>>, !.tags = <<Tag("e", <<Val("hex", 1)>>)>>],
   [AllOf(17) EXCEPT !.tags = <<Tag("t", <<Val("text", 2), Val("text", 1)>>)>>],
   [AllOf(Unusable) EXCEPT !.authors = <<Whole("B"), Whole("A")>>],
   [AllOf(2) EXCEPT !.authors = <<Prefix32("B"), Whole("A")>>, !.until = 2],
   [AllOf(12) EXCEPT !.kinds = <<2, Unusable, 1>>, !.since = 2, !.until = 3],
   [AllOf(12) EXCEPT !.authors = <<Whole("A"), Whole("B")>>, !.kinds = <<1>>],
   [AllOf(12) EXCEPT !.tags = <<Tag("t", <<Val("text", 2), Val("text", 1)>>)>>],
   [AllOf(1) EXCEPT !.tags = <<Tag("p", <<Val("hex", 1), Val("text", 1)>>)>>],
   [AllOf(12) EXCEPT !.tags = <<Tag("t", <<Val("text", 1)>>), Tag("p", <<Val("hex", 1)>>)>>],
   [AllOf(12) EXCEPT !.tags = <<Tag("t", <<Val("text", 3)>>)>>],
   [AllOf(12) EXCEPT !.tags = <<Tag("e", <<Val("text", 1)>>)>>, !.authors = <<Whole("A")>>]}
=============================================================================

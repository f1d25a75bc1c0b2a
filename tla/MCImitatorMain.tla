--------------------------- MODULE MCImitatorMain ---------------------------
(* ImitatorMain for TLC: environments that differ from Standard in one or   *)
(* two settings.                                                            *)
EXTENDS ImitatorMain

Entry(kind, lines) == [kind |-> kind, lines |-> lines]
User(id)     == [key |-> "user_id", ids |-> <<id>>]
Authors(ids) == [key |-> "authors", ids |-> ids]
Comment      == [key |-> "#", ids |-> <<>>]
Unknown      == [key |-> "reader", ids |-> <<1>>]

\* Every file of up to three of these lines.
Lines == {User(1), User(0), Authors(<<1, Blank>>), Authors(<<2, Malformed>>), Comment, Unknown}
SmallFiles == UNION {[1..n -> Lines] : n \in 0..2}
              \cup {<<User(1)>> \o f : f \in [1..2 -> Lines]}

Good(id, authors) == Entry("scenario", <<User(id), Authors(authors)>>)

Directories ==
  {<<Entry("scenario", f)>> : f \in SmallFiles}
  \cup {<<Entry("scenario", <<User(1), Authors(<<1>>), User(2), Comment, Authors(<<2>>)>>)>>,
        <<Entry("scenario", <<[key |-> "user_id", ids |-> <<1, 2>>], Authors(<<1>>)>>)>>,
        <<Entry("directory", <<>>), Good(1, <<2>>), Entry("other", <<Unknown>>), Good(1, <<2>>)>>,
        <<Good(1, <<1>>), Entry("scenario", <<Authors(<<2>>)>>)>>,
        <<Good(1, <<1>>), Entry("scenario", Unreadable)>>,
        <<Entry("other", <<User(1), Authors(<<1>>)>>)>>,
        Missing}

MCFallback == [mode |-> "random", brokers |-> <<"b1", "b2">>, topic |-> "clicks",
               authorStart |-> 1, authorEnd |-> 2, readerStart |-> 1, readerEnd |-> 2,
               minReads |-> 0, maxReads |-> 1, pause |-> 0,
               dir |-> <<Good(1, <<2, 1>>)>>,
               delays |-> <<1, 2>>, timeout |-> 5]

Standard == [key \in DOMAIN MCFallback |-> Unset]
Scenarios == [Standard EXCEPT !.mode = "scenario", !.pause = 1]
OneRead == [Standard EXCEPT !.readerEnd = 1, !.minReads = 1]

MCEnvironments ==
  {Standard, Scenarios, [Standard EXCEPT !.mode = "batch"], [Scenarios EXCEPT !.pause = -1]}
  \cup {[Scenarios EXCEPT !.dir = d] : d \in Directories}
  \cup {[OneRead EXCEPT ![key] = n] :
          key \in {"authorStart", "authorEnd", "readerStart", "readerEnd", "minReads", "pause"},
          n \in {Unset, Malformed, -1, 0, 1, 2}}
  \cup {[Standard EXCEPT !.minReads = n, !.maxReads = m] : n \in {-1, 0, 1}, m \in {-1, 0, 1, MaxInt}}
  \cup {[OneRead EXCEPT !.delays = ds] :
          ds \in {<<Blank>>, <<1, Blank, 3>>, <<2, 0>>, <<-1, 2>>, <<1, Malformed>>}}
  \cup {[OneRead EXCEPT !.brokers = bs] : bs \in {<<Blank, "b3">>, <<Blank, Blank>>}}
=============================================================================

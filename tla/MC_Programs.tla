----------------------------- MODULE MC_Programs -----------------------------
EXTENDS Programs

(* Logger: two tags, one of which begins like the other. *)
MCTags == {<<"f">>, <<"f", "t">>, <<"s">>}

Item(name, res) == [name |-> name, res |-> res]
SpecOf(items)   == [items |-> items, rest |-> <<>>]

MCSpecs ==
  { SpecOf(<<Item(All, "+")>>),
    SpecOf(<<Item(All, "-"), Item(<<"s">>, "+")>>),
    SpecOf(<<Item(<<"f">>, "-"), Item(All, "+"), Item(<<"s">>, "-")>>),
    SpecOf(<<Item(<<"f", "t">>, "-"), Item(Logger, "+")>>),
    SpecOf(<<Item(<<"s">>, "+")>>),
    SpecOf(<<>>),
    [items |-> <<Item(All, "+")>>, rest |-> <<"s">>] }

(* Formatters: ranges around the ends of octets, one vector of every       *)
(* length up to two octets and a bit.                                      *)
MCVectors ==
  { [i \in 1..n |-> IF i \in {1, 3, 4, 8, 9, 15, 16} THEN 1 ELSE 0] : n \in {0, 1, 8, 9, 17} }
  \cup { [i \in 1..9 |-> IF i = 9 THEN 0 ELSE IF i \in {1, 3, 4, 8} THEN 1 ELSE 0] }

(* Tests: the second and third are more than there is room for.            *)
MCSuiteSizes == {<<2, 0, 1>>, <<1, 1, 1, 1>>, <<0, 3>>}
MCSpans      == {<<>>, <<1>>, <<1, 2>>}

(* txvc *)
Pin(p, role) == <<p, "=", role, ",">>
AllPins  == Pin("d4", "ignored") \o Pin("d5", "driver_high") \o Pin("d6", "driver_low") \o <<"d7", "=", "ignored">>
Ids      == <<"vid", "=", "0403", ",", "pid", "=", "6010", ",">>
Chip(d, c) == <<"ftdi-generic", ":", "device", "=", d, ",", "channel", "=", c, ",">>

Profiles ==
  { <<"ft232h">>, <<"mimas_a7">>, <<"mimas_a7_mini">>, <<"narvi">>, <<"echo">>, <<"nosuch", ":">>,
    <<"echo", ":", "a", ":", "b", ",", ",", "=", "c">>,
    <<"ftdi-generic">>,
    Chip("ft2232h", "A") \o Ids \o AllPins,
    \* values missing, empty arguments, an unknown key
    Chip("ft2232h", "B") \o Ids \o <<",", "read_latency_millis", ",", "x", "=", "y", ",">> \o AllPins,
    \* the same keys twice, the later ones right, or wrong
    Chip("ft2232h", "A") \o Ids \o <<"channel", ",", "x", "=", "y", ",">> \o AllPins,
    Chip("ft232h", "B") \o Ids \o <<"d7", ",", "channel", "=", "A", ",">> \o AllPins,
    Chip("ft2232h", "A") \o Ids \o AllPins \o <<",", "device", "=", "ft232", ",">>,
    Chip("ft2232h", "A") \o Ids \o AllPins \o <<",", "vid", "=", "=", "0403">>,
    Chip("ft2232h", "A") \o Ids \o AllPins \o <<",", "read_latency_millis", "=", "300">>,
    Chip("ft232h", "B") \o Ids \o AllPins,
    \* too many arguments, too long
    <<"echo", ":", ",", ",", ",", ",", ",", ",", ",", ",", ",", ",", ",", ",", ",">>,
    Chip("ft2232h", "A") \o Ids \o AllPins \o Ids \o AllPins }

DeviceLists ==
  { <<>>, << <<"x", "A">> >>, << <<"x", "A">>, <<"x", "B">> >>,
    << <<"x", "B">>, <<"y", "A">>, <<"y", "B">> >>, << <<>>, <<"x", "A">>, <<>>, <<"x", "B">> >>,
    << <<"x", "A">>, <<"x", "A">>, <<"x", "B">>, <<"y", "B">>, <<"z", "B">> >> }

Launch(root, options, operand, spec, devs) ==
  [root |-> root, options |-> options, operand |-> operand, spec |-> spec, devices |-> devs]

Opt(o, a) == [opt |-> o, arg |-> a]

DefaultSpec == SpecOf(<<Item(All, "+")>>)

TxvcSpecs ==
  { DefaultSpec,
    SpecOf(<<Item(TagTxvc, "+"), Item(TagFtdi, "+")>>),
    SpecOf(<<Item(TagTxvc, "+"), Item(TagFtdi, "+"), Item(Logger, "+"), Item(TagServer, "-")>>),
    [items |-> <<Item(All, "+")>>, rest |-> <<"s">>] }

(* Periods of -t: the first and the last divider, the last product that    *)
(* does not wrap, one that wraps to a negative number, and one that wraps  *)
(* all the way to the fastest clock.                                       *)
TckPeriods == {33, 10000000, MaxProduct, 80000000, 143165577}

MCLaunches ==
  { Launch(FALSE, <<Opt("p", p)>>, FALSE, DefaultSpec, d) : p \in Profiles, d \in DeviceLists }
  \cup
  { Launch(FALSE, <<Opt("t", <<25>>), Opt("p", p)>>, FALSE, s, << <<"x", "A">>, <<"x", "B">> >>) :
      p \in {<<"narvi">>, <<"echo">>, <<"nosuch">>, Chip("ft2232h", "A") \o Ids \o AllPins}, s \in TxvcSpecs }
  \cup
  { Launch(FALSE, <<Opt("t", <<t>>), Opt("p", p)>>, FALSE, s, << <<"x", "A">>, <<"x", "B">> >>) :
      t \in TckPeriods, p \in {<<"narvi">>, <<"echo">>}, s \in {DefaultSpec, SpecOf(<<Item(TagTxvc, "+")>>)} }
  \cup
  { Launch(r, o, e, DefaultSpec, <<>>) :
      r \in BOOLEAN, e \in BOOLEAN,
      o \in { <<>>, <<Opt("h", <<>>)>>, <<Opt("p", <<"nosuch">>), Opt("?", <<>>)>>,
              <<Opt("D", <<>>), Opt("A", <<>>)>>, <<Opt("p", <<"x">>), Opt("t", <<-1>>), Opt("p", <<"echo">>)>>,
              <<Opt("t", <<>>), Opt("p", <<"echo">>)>> } }
=============================================================================

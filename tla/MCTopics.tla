------------------------------ MODULE MCTopics ------------------------------
(* Instances of the subscription tree for model checking. *)
EXTENDS Topics

\* Filters and names with a wildcard of each kind, a system level and a leading
\* separator.  No filter is a topic with a retained message (see MCTopics_counter.cfg).
MCFilters == {<<"b">>, <<"b", "b">>, <<"a", "#">>, <<"+", "b">>, <<"#">>,
              <<"$s", "#">>, <<"", "#">>}
MCNames == {<<"a">>, <<"a", "b">>, <<"b">>, <<"b", "b">>, <<"$s", "b">>, <<"", "b">>}
MCRetain == {<<"a">>, <<"a", "b">>, <<"", "b">>, <<"$s", "b">>}
MCSys == {"$s"}

\* Those that are inserted and removed concurrently.
MCRacing == {<<"b">>, <<"b", "b">>}

\* Two filters that share a level.
Branch == {<<"a">>, <<"a", "b">>}
OneLevel == {<<"a">>}

\* A filter # and a name with an empty level below the first.
HashFilters == {<<"a", "#">>, <<"a">>}
HashNames == {<<"a", "", "b">>, <<"a">>}
NoLevels == {}
NoNames == {}
=============================================================================

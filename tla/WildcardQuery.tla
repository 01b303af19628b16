---------------------------- MODULE WildcardQuery ----------------------------
(***************************************************************************)
(* search.WildcardQuery and search.MergedWildcardQuery: the queries of a   *)
(* scan are joined in Go into one string and cut apart again in C++.       *)
(*                                                                         *)
(* What a query means and how it is cleaned is up to the CLP core library: *)
(* clp::string_utils::wildcard_match_unsafe and                            *)
(* clean_up_wildcard_search_string.                                        *)
(*                                                                         *)
(* EndsNotSizes is a mutated form of EndOffsets.                           *)
(***************************************************************************)
EXTENDS Integers, Sequences

CONSTANTS
    Chars,          \* of query strings
    Clean(_),       \* of a query string
    Matches(_, _)   \* of a message and a WildcardQuery

WildcardQuery == [query : Seq(Chars), caseSensitive : BOOLEAN]

NewWildcardQuery(query, caseSensitive) ==
    [query |-> Clean(query), caseSensitive |-> caseSensitive]

(* All query strings, one after the other. *)
Joined(queries) ==
    LET upTo[i \in 0 .. Len(queries)] ==
            IF i = 0 THEN <<>> ELSE upTo[i - 1] \o queries[i].query
    IN  upTo[Len(queries)]

(* EndOffsets are what WriteString returns: the sizes of the queries.      *)
EndsNotSizes(queries) ==
    [i \in DOMAIN queries |-> Len(Joined(SubSeq(queries, 1, i)))]

EndOffsets(queries) == [i \in DOMAIN queries |-> Len(queries[i].query)]

MergeWildcardQueries(queries) ==
    [queries         |-> Joined(queries),
     endOffsets      |-> EndOffsets(queries),
     caseSensitivity |-> [i \in DOMAIN queries |-> queries[i].caseSensitive]]

(* std::string_view::substr takes fewer characters where fewer are left.   *)
Substr(string, pos, n) ==
    SubSeq(string, pos + 1, IF pos + n < Len(string) THEN pos + n ELSE Len(string))

SplitQueries(merged) ==
    LET offsets == merged.endOffsets
        pos[i \in 1 .. Len(offsets)] == IF i = 1 THEN 0 ELSE pos[i - 1] + offsets[i - 1]
    IN  [i \in DOMAIN offsets |->
            [query         |-> Substr(merged.queries, pos[i], offsets[i]),
             caseSensitive |-> merged.caseSensitivity[i]]]

-----------------------------------------------------------------------------
(* No query at all matches everything, with index 0; otherwise the index   *)
(* is that of the first query that matches.                                *)
AnyMatch(message, queries) ==
    queries = <<>> \/ \E i \in DOMAIN queries : Matches(message, queries[i])

MatchIndex(message, queries) ==
    IF queries = <<>>
    THEN 0
    ELSE (CHOOSE i \in DOMAIN queries :
             /\ Matches(message, queries[i])
             /\ \A k \in 1 .. i - 1 : ~Matches(message, queries[k])) - 1
=============================================================================

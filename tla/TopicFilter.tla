------------------------------ MODULE TopicFilter ------------------------------
(***************************************************************************)
(* MQTT_MatchTopic: does a topic name match a topic filter?  Both are      *)
(* sequences of characters; positions count from 1, so nameIndex and       *)
(* filterIndex of the code are one less than i and j here.                 *)
(***************************************************************************)
EXTENDS Integers, Sequences, FiniteSetsExt, SequencesExt

\* Mutant: + needs no level of its own.
matchEndWildcardsOneTooFar(filter, j) ==
  SubSeq(filter, j + 1, Len(filter)) \in
    {<<"/", "#">>, <<"/", "+">>, <<"+">>, <<"#">>}

\* The topic name is used up at position j of the filter: do the last
\* characters of the filter stand for nothing more?
matchEndWildcardsSpecialCases(filter, j) ==
  LET rest == SubSeq(filter, j + 1, Len(filter))
  IN  \/ rest = <<"/", "#">>
      \/ filter[j] = "/" /\ rest \in {<<"+">>, <<"#">>}

\* How the comparison goes on: it stops with a result, or resumes behind
\* these positions.
Stop(match) == [stop |-> TRUE, match |-> match, name |-> 0, filter |-> 0]
Resume(i, j) == [stop |-> FALSE, match |-> FALSE, name |-> i, filter |-> j]

\* Position i of the name and position j of the filter differ.
matchWildcards(topic, filter, i, j) ==
  LET locationIsValidForWildcard == j = 1 \/ filter[j - 1] = "/"
      separators == {n \in i..Len(topic) : topic[n] = "/"}
      nextLevelExistsinTopicFilter == j < Len(filter) /\ filter[j + 1] = "/"
  IN  CASE filter[j] = "+" /\ locationIsValidForWildcard ->
             IF separators = {} THEN Resume(Len(topic), j)
             ELSE IF nextLevelExistsinTopicFilter
                    THEN Resume(Min(separators), j + 1)
                    ELSE Stop(FALSE)
        [] OTHER -> Stop(/\ filter[j] = "#"
                         /\ j = Len(filter)
                         /\ locationIsValidForWildcard)

matchTopicFilter(topic, filter) ==
  LET MatchFrom[i \in 1..(Len(topic) + 1), j \in 1..(Len(filter) + 1)] ==
        CASE i > Len(topic) \/ j > Len(filter) ->
               i > Len(topic) /\ j > Len(filter)
          [] i <= Len(topic) /\ j <= Len(filter) ->
               IF topic[i] = filter[j]
                 THEN \/ i = Len(topic) /\ matchEndWildcardsSpecialCases(filter, j)
                      \/ MatchFrom[i + 1, j + 1]
                 ELSE LET next == matchWildcards(topic, filter, i, j)
                      IN  IF next.stop
                            THEN next.match
                            ELSE MatchFrom[next.name + 1, next.filter + 1]
  IN  MatchFrom[1, 1]

MQTT_MatchTopic(topic, filter) ==
  \/ topic = filter
  \/ /\ ~(topic[1] = "$" /\ filter[1] \in {"+", "#"})
     /\ matchTopicFilter(topic, filter)

------------------------------------------------------------------------------
(***************************************************************************)
(* What MQTT 3.1.1 (section 4.7) says: a topic name and a filter consist   *)
(* of levels between separators; + stands for any one level, # as the last *)
(* one for any number of levels, its parent included.                      *)
(***************************************************************************)
Levels(text) ==
  LET separators == SetToSortSeq({n \in DOMAIN text : text[n] = "/"}, <)
      ends == <<0>> \o separators \o <<Len(text) + 1>>
  IN  [k \in 1..(Len(ends) - 1) |-> SubSeq(text, ends[k] + 1, ends[k + 1] - 1)]

\* Wildcards fill a level, and # the last one.
ValidFilter(filter) ==
  LET levels == Levels(filter)
  IN  \A k \in DOMAIN levels :
        \A n \in DOMAIN levels[k] :
          /\ levels[k][n] \in {"+", "#"} => Len(levels[k]) = 1
          /\ levels[k][n] = "#" => k = Len(levels)

MatchesLevels(topic, filter) ==
  LET names == Levels(topic)
      levels == Levels(filter)
      multi == Last(levels) = <<"#">>
      fixed == IF multi THEN Len(levels) - 1 ELSE Len(levels)
  IN  /\ IF multi THEN Len(names) >= fixed ELSE Len(names) = fixed
      /\ \A k \in 1..fixed : levels[k] \in {<<"+">>, names[k]}
      /\ ~(topic[1] = "$" /\ filter[1] \in {"+", "#"})

================================================================================

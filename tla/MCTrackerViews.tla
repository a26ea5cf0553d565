--------------------------- MODULE MCTrackerViews ----------------------------
(****************************************************************************)
(* TrackerViews with one issue of one provider that goes by two keys, one   *)
(* of them with a colon, and references in several spellings.               *)
(****************************************************************************)
EXTENDS TrackerViews, TLC

full == "acme/x#1"
pasted == "//github.com/acme/x#1"

SmallPieces == {"", "local", "agent-taskstate", "memx", "tracker", "Tracker",
                "issue", "task", "github", "jira", "T", full, "https", pasted}

SmallLower == [p \in SmallPieces |-> IF p = "Tracker" THEN "tracker" ELSE p]

\* GitHub's adapter takes the number after "#" of whatever it is given.
TwoKeys == {<<full>>, <<"https", pasted>>}
OneIssue == [key \in TwoKeys |-> <<full>>]

IssueText == <<"tracker", "issue", "github", full>>
IssueShouted == <<"Tracker", "issue", "github", full>>
IssueLegacy == <<"tracker", "issue", full>>
TaskText == <<"agent-taskstate", "task", "local", "T">>
TaskLegacy == <<"agent-taskstate", "task", "T">>

SmallRefTexts == {IssueText, IssueShouted, TaskText, TaskLegacy}

SampleTexts ==
  SmallRefTexts \cup
  {IssueLegacy, <<"">>, <<"Tracker">>, <<"issue">>, <<"github">>, <<full>>,
   <<"github", full>>, <<"", "">>, <<"jira", "issue", "github", full>>,
   <<"tracker", "", "github", full>>, <<"Tracker", "issue", "Tracker", "Tracker">>}

Symmetry == Permutations(Bridges)
=============================================================================

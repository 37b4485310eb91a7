------------------------------ MODULE Matcher ------------------------------
(***************************************************************************)
(* The string matcher (checker_rc/matcher.cpp, strings_match and the form  *)
(* of answers_match that takes a list): what the program printed, against  *)
(* the answers of a test, symbol by symbol or but for the newline at the   *)
(* end.  Nothing calls it since check.exe judges outputs, and it is part   *)
(* of the interface in matcher.h.                                          *)
(***************************************************************************)
EXTENDS Naturals, Sequences

CONSTANTS
  Chars,       \* the symbols of a text, Newline among them
  Newline,     \* '\n'
  MaxLen,      \* length of the texts
  MaxAnswers   \* number of answers of a test

VARIABLES
  mode,     \* check_mode
  report,   \* report_program
  answers,  \* answer_list
  it,       \* it_test_answ
  result    \* what answers_match returns, "none" while it runs

matcher == <<mode, report, answers, it, result>>

UpTo(S, n) == UNION {[1 .. k -> S] : k \in 0 .. n}
Texts == UpTo(Chars, MaxLen)

InitMatcher ==
  /\ mode \in {"ALL", "WNL"}
  /\ report \in Texts
  /\ answers \in UpTo(Texts, MaxAnswers)
  /\ it = 1 /\ result = "none"

-----------------------------------------------------------------------------
EndsInNewline(s) == s # <<>> /\ s[Len(s)] = Newline

(* resize(length() - 1).                                                   *)
Chomp(s) == IF EndsInNewline(s) THEN SubSeq(s, 1, Len(s) - 1) ELSE s

(* strings_match: without its newlines, an empty str1 matches nothing.     *)
StringsMatch(str1, str2) ==
  \/ mode = "ALL" /\ str2 = str1
  \/ mode = "WNL" /\ str1 # <<>> /\ Chomp(str2) = Chomp(str1)

(* The loop of answers_match over the list.                                *)
LookThrough ==
  /\ result = "none"
  /\ \/ /\ it > Len(answers)
        /\ result' = "false" /\ UNCHANGED it
     \/ /\ it =< Len(answers) /\ StringsMatch(report, answers[it])
        /\ result' = "true" /\ UNCHANGED it
     \/ /\ it =< Len(answers) /\ ~ StringsMatch(report, answers[it])
        /\ it' = it + 1 /\ UNCHANGED result
  /\ UNCHANGED <<mode, report, answers>>

Matching == InitMatcher /\ [][LookThrough]_matcher

-----------------------------------------------------------------------------
(* Properties.                                                             *)

Found(r) == \E i \in DOMAIN answers : StringsMatch(r, answers[i])

(* matcher.h:15 says of the mode WNL that the newline at the end of what   *)
(* is checked has no influence on the result: a report that ends in one    *)
(* newline is found where it would be without it.  It is not so for a      *)
(* report that is that newline: it matches an empty answer, and an empty   *)
(* report matches nothing.                                                 *)
NewlineHasNoInfluence ==
  /\ result # "none" /\ mode = "WNL"
  /\ EndsInNewline(report) /\ ~ EndsInNewline(Chomp(report))
  => (result = "true" <=> Found(Chomp(report)))

=============================================================================

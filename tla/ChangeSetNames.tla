---------------------------- MODULE ChangeSetNames ----------------------------
(***************************************************************************)
(* The names of change sets (internal/clients/cloudformation/changeset.go).*)
(* CloudFormation.tla takes a change set's name for the pair of generation *)
(* and revision it is made from; this module says how far that is true.    *)
(* Strings are sequences of characters.                                    *)
(***************************************************************************)
EXTENDS Naturals, Sequences, SequencesExt, FiniteSetsExt

CONSTANTS Characters,    \* those of revisions
          Specials,      \* all but [a-zA-Z0-9]
          Generations,
          MaxLength,     \* maxLengthChangeSetName, 128
          MaxRevision    \* bound on the length of a revision

ASSUME NameConstants ==
  /\ "-" \in Specials /\ "/" \in Specials
  /\ Specials \cap {"f", "l", "u", "x", "0", "1", "2", "3", "4", "5", "6", "7", "8", "9"} = {}
  /\ Generations \subseteq Nat \ {0}
  /\ MaxLength \in Nat /\ MaxRevision \in Nat

VARIABLES one, two  \* two attempts: the generation and revision of each

vars == <<one, two>>

-----------------------------------------------------------------------------
Digit == <<"0", "1", "2", "3", "4", "5", "6", "7", "8", "9">>

Decimal[n \in Nat] ==
  IF n < 10 THEN <<Digit[n + 1]>> ELSE Append(Decimal[n \div 10], Digit[(n % 10) + 1])

\* A mutant: nothing between the generation and the revision.
FormatUnseparated(gen, revision) == <<"f", "l", "u", "x", "-">> \o Decimal[gen] \o revision

Format(gen, revision) ==
  <<"f", "l", "u", "x", "-">> \o Decimal[gen] \o <<"-">> \o revision

\* A generation is an int64: its 19 digits and what is around them fit in a name.
ASSUME NumbersFit == \A gen \in Generations : Len(Decimal[gen]) + 6 <= MaxLength

Special(c) == c \in Specials

\* A mutant: special characters are dropped.
WithoutSpecials(s) == SelectSeq(s, LAMBDA c : ~Special(c))

\* What the i-th character of s becomes.
Replacement(s, i) ==
  IF ~Special(s[i]) THEN <<s[i]>>
  ELSE IF i > 1 /\ Special(s[i - 1]) THEN <<>> ELSE <<"-">>

\* Each run of special characters becomes one hyphen.
ReplaceSpecials(s) == FlattenSeq([i \in DOMAIN s |-> Replacement(s, i)])

\* A mutant: names of any length.
GetChangeSetNameUncut(gen, revision) == ReplaceSpecials(Format(gen, revision))

GetChangeSetName(gen, revision) ==
  LET name == ReplaceSpecials(Format(gen, revision))
  IN SubSeq(name, 1, IF Len(name) <= MaxLength THEN Len(name) ELSE MaxLength)

\* The service's ARN of a change set: what names the kind, the name, an id.
Arn(name) == <<"c", "/">> \o name \o <<"/", "i", "d">>

\* A mutant: the id in place of the name.
ExtractId(arn) == SubSeq(arn, Max({i \in DOMAIN arn : arn[i] = "/"}) + 1, Len(arn))

\* What is between the first slash and the next one, or the end.
ExtractChangeSetName(arn) ==
  LET slashes == {i \in DOMAIN arn : arn[i] = "/"}
      first == Min(slashes)
      second == Min((slashes \ {first}) \cup {Len(arn) + 1})
  IN IF slashes = {} THEN <<>> ELSE SubSeq(arn, first + 1, second - 1)

-----------------------------------------------------------------------------
(* The attempts: any generation, any revision.                              *)

Init ==
  /\ one \in [gen : Generations, revision : {<<>>}]
  /\ two \in [gen : Generations, revision : {<<>>}]

Longer(attempt) ==
  {[attempt EXCEPT !.revision = Append(@, c)] : c \in Characters}

Next ==
  \/ Len(one.revision) < MaxRevision /\ one' \in Longer(one) /\ UNCHANGED two
  \/ Len(two.revision) < MaxRevision /\ two' \in Longer(two) /\ UNCHANGED one

Spec == Init /\ [][Next]_vars

-----------------------------------------------------------------------------
Name(attempt) == GetChangeSetName(attempt.gen, attempt.revision)

\* The service takes every name: a letter first, then letters, digits and hyphens, no
\* more than its limit.
NamesAreValid ==
  LET name == Name(one)
  IN Len(name) \in 1..MaxLength /\ \A i \in DOMAIN name : Special(name[i]) => i > 1 /\ name[i] = "-"

\* An attempt recognises the change set of the last one exactly when it would give it
\* the same name, whatever characters the revisions hold.
RecognisesItsOwn == ExtractChangeSetName(Arn(Name(one))) = Name(two) <=> Name(one) = Name(two)

\* A new generation is never taken for an older one, however the revisions continue the
\* numbers, and even if names are cut.
GenerationsDiffer == one.gen # two.gen => Name(one) # Name(two)

\* The letters of a revision, and after how many of them something else stands.
LettersOf(s) == FlattenSeq([i \in DOMAIN s |-> IF Special(s[i]) THEN <<>> ELSE <<s[i]>>])

Breaks(s) ==
  {Len(LettersOf(SubSeq(s, 1, i))) : i \in {j \in DOMAIN s : Special(s[j])}}
    \ {0, Len(LettersOf(s))}

Cut(attempt) == Len(ReplaceSpecials(Format(attempt.gen, attempt.revision))) > MaxLength

\* While no name is cut, two revisions are only confused when they consist of the same
\* words: a commit or a digest is a word, so different ones are told apart.
SameNameSameWords ==
  Name(one) = Name(two) /\ ~Cut(one) /\ ~Cut(two) =>
    /\ LettersOf(one.revision) = LettersOf(two.revision)
    /\ Breaks(one.revision) = Breaks(two.revision)

==============================================================================

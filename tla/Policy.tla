------------------------------- MODULE Policy -------------------------------
(***************************************************************************)
(* The pure functions of the plugin (src/src/policy.cpp, utils.hpp), over  *)
(* what they are given: the text a user types for the title or the         *)
(* hashtags of a show, and the versions of the plugin that are released    *)
(* and installed (doCheckLatestVersion of src/src/rest-api.cpp).           *)
(*                                                                         *)
(* A text is a sequence of characters and a std::string one of bytes; a    *)
(* "wide" character takes two bytes.  Numbers are written to base Base.    *)
(***************************************************************************)
EXTENDS Naturals, FiniteSets, SequencesExt

CONSTANTS
  MaxText,         \* characters that are typed
  MaxTitleLength,  \* maxTitleLength, in bytes: 255
  MaxWords,        \* words the validator of the hashtags allows: 3
  Base,            \* 10 in the code
  MaxMajor,        \* major releases
  MaxComponent     \* releases of each kind in between

ASSUME MaxTextAssumption == MaxText \in Nat
ASSUME MaxTitleLengthAssumption == MaxTitleLength \in Nat \ {0}
ASSUME MaxWordsAssumption == MaxWords \in Nat \ {0}
ASSUME BaseAssumption == Base \in Nat \ {0, 1}
ASSUME MaxMajorAssumption == MaxMajor \in Nat
ASSUME MaxComponentAssumption == MaxComponent \in 0 .. Base * Base - 1

VARIABLES
  text,     \* what the line edit shows
  request,  \* how the request that carried it as a title went
  current,  \* the version installed, clientVersion
  latest    \* the version tagged last

vars == <<text, request, current, latest>>

Chars == {"space", "tab", "hash", "letter", "wide"}

\* A component has one digit or two.
Component == 0 .. MaxComponent

Versions == [major : 0 .. MaxMajor, minor : Component, patch : Component]

-----------------------------------------------------------------------------
(* Strings *)

\* std::isspace; the bytes of a wide character are not.
Spaces == {"space", "tab"}

IsSpace(c) == c \in Spaces

NotSpace(c) == ~IsSpace(c)

\* The characters that are not in the set, in their order.
Without(chars, set) ==
  FlattenSeq([i \in DOMAIN chars |-> IF chars[i] \in set THEN <<>> ELSE <<chars[i]>>])

EncodeChar(c) == IF c = "wide" THEN <<"lead", "cont">> ELSE <<c>>

Encode(chars) == FlattenSeq([i \in DOMAIN chars |-> EncodeChar(chars[i])])

\* Well-formed UTF-8, or dump() throws.
ValidUtf8(bytes) ==
  \A i \in DOMAIN bytes :
    /\ bytes[i] = "lead" => i < Len(bytes) /\ bytes[i + 1] = "cont"
    /\ bytes[i] = "cont" => i > 1 /\ bytes[i - 1] = "lead"

\* trim, from both ends
Trim(bytes) ==
  IF \A i \in DOMAIN bytes : IsSpace(bytes[i]) THEN <<>>
  ELSE SubSeq(bytes, SelectInSeq(bytes, NotSpace), SelectLastInSeq(bytes, NotSpace))

DefaultTitle == <<"letter">>

\* Mutant: the length is taken before the spaces are.
AnnotateUntrimmed(bytes) ==
  LET cut == SubSeq(bytes, 1, IF Len(bytes) < MaxTitleLength THEN Len(bytes) ELSE MaxTitleLength)
  IN IF Trim(cut) = <<>> THEN DefaultTitle ELSE Trim(cut)

\* Mutant: cut one byte too late.
AnnotateOneOver(bytes) ==
  LET title == IF Trim(bytes) = <<>> THEN DefaultTitle ELSE Trim(bytes)
  IN IF Len(title) > MaxTitleLength THEN SubSeq(title, 1, MaxTitleLength + 1) ELSE title

AnnotateTitle(bytes) ==
  LET title == IF Trim(bytes) = <<>> THEN DefaultTitle ELSE Trim(bytes)
  IN IF Len(title) > MaxTitleLength THEN SubSeq(title, 1, MaxTitleLength) ELSE title

\* Mutant: every token becomes a tag.
PushAlways(tokens, token) == Append(tokens, Without(token, Spaces))

\* A token that getline has delivered.
Push(tokens, token) ==
  IF token = <<>> THEN tokens ELSE Append(tokens, Without(token, Spaces))

\* What getline has delivered, and the characters of the next token.
NothingRead == [tokens |-> <<>>, token |-> <<>>]

Read(read, c) ==
  IF c = "hash" THEN [tokens |-> Push(read.tokens, read.token), token |-> <<>>]
  ELSE [read EXCEPT !.token = Append(@, c)]

\* Spaces become #, and the pieces between two # the tags: "after" is what has
\* been read of the stream after each character.
SplitHashtags(chars) ==
  LET separated == ReplaceAll(chars, "space", "hash")
      after[n \in 0 .. Len(chars)] ==
        IF n = 0 THEN NothingRead ELSE Read(after[n - 1], separated[n])
  IN Push(after[Len(chars)].tokens, after[Len(chars)].token)

\* Where the words of a text start, for a set of separators.
WordStarts(chars, separators) ==
  {i \in DOMAIN chars :
     chars[i] \notin separators /\ (i = 1 \/ chars[i - 1] \in separators)}

\* What the validator of the hashtags line edit lets stand in it: a prefix of
\* "^(?!.*#.*#)(\s?#*\w+){0,3}$", with MaxWords for 3.
Accepts(chars) ==
  /\ \A i \in DOMAIN chars : chars[i] # "wide"
  /\ Cardinality({i \in DOMAIN chars : chars[i] = "hash"}) <= 1
  /\ \A i \in DOMAIN chars : IsSpace(chars[i]) => i = 1 \/ chars[i - 1] = "letter"
  /\ Cardinality(WordStarts(Append(chars, "letter"), {"hash"} \cup Spaces)) <= MaxWords

-----------------------------------------------------------------------------
(* Versions *)

\* Ten, or a hundred for a component of two digits.
Shift(component) == IF component < Base THEN Base ELSE Base * Base

\* Mutant: the minor version is taken for a digit of the patch.
RunTogetherSwapped(v) == (v.major * Shift(v.minor) + v.patch) * Shift(v.patch) + v.minor

\* The digits of a version run together, its dots erased.
RunTogether(v) == (v.major * Shift(v.minor) + v.minor) * Shift(v.patch) + v.patch

IsOlderVersion(currentVersion, latestVersion) ==
  RunTogether(currentVersion) < RunTogether(latestVersion)

\* The order in which versions are released.
Before(v, w) ==
  \/ v.major < w.major
  \/ v.major = w.major /\ v.minor < w.minor
  \/ v.major = w.major /\ v.minor = w.minor /\ v.patch < w.patch

\* As many digits in each component.
SameWidths(v, w) ==
  Shift(v.minor) = Shift(w.minor) /\ Shift(v.patch) = Shift(w.patch)

-----------------------------------------------------------------------------
(* What happens *)

FirstVersion == [major |-> 0, minor |-> 0, patch |-> 0]

Init ==
  /\ text = <<>>
  /\ request = "none"
  /\ current = FirstVersion
  /\ latest = FirstVersion

Type(c) ==
  /\ Len(text) < MaxText
  /\ text' = Append(text, c)
  /\ request' = "none"
  /\ UNCHANGED <<current, latest>>

\* StartBroadcast or ChangeStageTitle: doGraphqlRawRequest serializes what
\* fullTitle() returns, outside of any try block.
SendTitle ==
  /\ request = "none"
  /\ request' = IF ValidUtf8(AnnotateTitle(Encode(text))) THEN "sent" ELSE "threw"
  /\ UNCHANGED <<text, current, latest>>

\* The next version is tagged.
Release ==
  /\ \/ latest' = [latest EXCEPT !.patch = @ + 1]
     \/ latest' = [latest EXCEPT !.minor = @ + 1, !.patch = 0]
     \/ latest' = [latest EXCEPT !.major = @ + 1, !.minor = 0, !.patch = 0]
  /\ latest' \in Versions
  /\ UNCHANGED <<text, request, current>>

Install ==
  /\ current # latest
  /\ current' = latest
  /\ UNCHANGED <<text, request, latest>>

Next ==
  /\ request # "threw"
  /\ (\E c \in Chars : Type(c)) \/ SendTitle \/ Release \/ Install

Spec == Init /\ [][Next]_vars

-----------------------------------------------------------------------------
(* Properties *)

\* The version installed is the one tagged last or an earlier one.
VersionsOK ==
  /\ current \in Versions
  /\ latest \in Versions
  /\ current = latest \/ Before(current, latest)

TypeOK ==
  /\ text \in Seq(Chars)
  /\ Len(text) <= MaxText
  /\ request \in {"none", "sent", "threw"}
  /\ VersionsOK

\* splitHashtags makes the words of what the validator accepts its tags: one
\* for each word and in their order, none empty and at most MaxWords, unless a
\* tab, which is a space to the validator and not to splitHashtags, joins two
\* words or stands alone.
TagsAreWords ==
  LET tags == SplitHashtags(text)
  IN Accepts(text) =>
       /\ FlattenSeq(tags) = Without(text, {"hash"} \cup Spaces)
       /\ Len(tags) = Cardinality(WordStarts(text, {"hash", "space"}))
       /\ ~Contains(text, "tab") => Len(tags) <= MaxWords /\ ~Contains(tags, <<>>)

\* annotateTitle returns the text without the spaces around it, or as much of
\* that as fits; never nothing, and nothing else than the default when the
\* text is blank.
TitleIsText ==
  LET title == AnnotateTitle(Encode(text))
      Blank(chars) == \A i \in DOMAIN chars : IsSpace(chars[i])
  IN /\ title # <<>> /\ Len(title) <= MaxTitleLength
     /\ Blank(text) => title = DefaultTitle
     /\ ~Blank(text) =>
          \E i, j \in DOMAIN text :
            LET core == Encode(SubSeq(text, i, j))
            IN /\ ~IsSpace(text[i]) /\ Blank(SubSeq(text, 1, i - 1))
               /\ ~IsSpace(text[j]) /\ Blank(SubSeq(text, j + 1, Len(text)))
               /\ IsPrefix(title, core)
               /\ title = core \/ Len(title) = MaxTitleLength

\* The request for a title throws, and ends the process, only when the cut at
\* maxTitleLength went through a character.
ThrowsOnlyWhenCut ==
  request = "threw" =>
    LET title == AnnotateTitle(Encode(text))
    IN Len(title) = MaxTitleLength /\ title[MaxTitleLength] = "lead"

\* isOlderVersion tells a newer release from the one installed, whatever the
\* releases in between, as long as no component has changed its number of
\* digits: "Version is in format 0.0.0".
NewerIsNoticed ==
  SameWidths(current, latest) =>
    (IsOlderVersion(current, latest) <=> current # latest)
=============================================================================
